------------------------------- MODULE MCFrames --------------------------------
(* The instances of Frames that TLC checks, and two statements of comments. *)
EXTENDS Frames, DateConv

\* The days from the epoch on, and those before it, are counted one by one,
\* through a century that has no leap year and one that has.
ASSUME DaysCounted ==
  /\ RDate(1970, 1, 1) = 0
  /\ \A y \in 1898 .. 2102, m \in 1 .. 12 : \A d \in 1 .. DaysIn(y, m) : NextDayCounted(y, m, d)

Of(dt) == [dt |-> dt, is |-> "value"]

\* the second column is there for the types it leaves open and the call it may stop
AllElements ==
  {Absent} \cup {Of(dt) : dt \in Datatypes} \cup
  {[dt |-> "INT64", is |-> "under"], [dt |-> "INT64", is |-> "over"],
   [dt |-> "FLOAT64", is |-> "odd"], [dt |-> "STRING", is |-> "null"], [dt |-> "DATE", is |-> "null"]}

ElementsOf(j) == IF j = 1 THEN AllElements ELSE {Absent, Of("FLOAT64"), Of("STRING")}

AllInfos ==
  {[datatype |-> d, ftype |-> "Other"] : d \in {"Bool", "Int32", "Int64", "Double", "String", "Char"}}
  \cup {[datatype |-> "Datetime", ftype |-> f] : f \in {"Date", "Time"}}

Sizes == {<<0, 1>>, <<3, 1>>, <<2, 2>>}

\* blpapi_utils.cpp:223 "the vectors are already initialized to NAs": what has no
\* value is NA in the frame of bdp().
NewCellsNA ==
  op = "bdp" /\ phase = "done" => \A i \in 1 .. n, j \in DOMAIN cols :
    ~HasValue(i, j) => cols[j].cells[i] = "NA"

\* beqs.cpp:116 "Check if any columns have not been checked successfully - these
\* will all set to fallback NA": no column is left without a vector.
FallbackForAll == op = "beqs" /\ phase = "fill" => \A j \in DOMAIN cols : Typed(j)
===============================================================================
