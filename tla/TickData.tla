------------------------------- MODULE TickData --------------------------------
(***************************************************************************)
(* What the user's function of subscribe() is given of a message: nested   *)
(* lists of vectors, made by recursiveParse() from the message's elements. *)
(*                                                                         *)
(* An element, [name, kids, dt, null, values], holds other elements or     *)
(* values of one datatype.  A value, [number, dated], is a number that     *)
(* tells it from others, and whether it has a date, which only matters for *)
(* the datatype DATETIME.                                                  *)
(***************************************************************************)
EXTENDS Columns, Functions, Sequences

CONSTANTS
  MaxDepth,  \* bound: elements within elements
  Elements,  \* Elements[d]: elements with at most d levels of others below them
  Messages   \* the messages that may come

ASSUME TickDataAssumption ==
  /\ MaxDepth \in Nat
  /\ Messages \subseteq Elements[MaxDepth]
  /\ \A d \in 0 .. MaxDepth : \A e \in Elements[d] :
       /\ d = 0 => e.kids = <<>>
       /\ e.values # <<>> => 1 \in DOMAIN e.values
       /\ \A i \in DOMAIN e.kids : e.kids[i] \in Elements[d - 1]

VARIABLES
  message,  \* the message
  data      \* what recursiveParse() returned

vars == <<message, data>>

\* what R is given: a vector of a class, or a list, whose values have names
Vector(class, values) == [class |-> class, values |-> values, names |-> <<>>]
List(names, items) == [class |-> "list", values |-> items, names |-> names]
Null == Vector("NULL", <<>>)
Raised == Vector("raised", <<>>)   \* an exception left recursiveParse()
Waiting == Vector("waiting", <<>>)

\* the types of Rcpp's vectors in eleToLogical(), ..., eleToString()
VectorClass(dt) ==
  CASE dt = "BOOL"                                -> "logical"
    [] dt = "INT32"                               -> "integer"
    [] dt \in {"FLOAT32", "FLOAT64", "DECIMAL"}   -> "numeric"
    [] dt = "DATE"                                -> "Date"
    [] dt \in {"BYTE", "INT64", "BYTEARRAY"}      -> "NULL"
    [] OTHER                                      -> "character"

\* one of eleToLogical(), ..., eleToString()
EleTo(class, e) ==
  IF Converts([dt |-> e.dt, is |-> "value"], class) THEN Vector(class, e.values) ELSE Raised

\* mutant: a DATETIME always has a date
EleToDatetimeDated(e) ==
  IF \A i \in DOMAIN e.values : e.values[i].dated THEN EleTo("POSIXct", e) ELSE Raised

\* the first value decides; a later one without a date has the year 1, which
\* is no year to boost
EleToDatetime(e) ==
  IF ~e.values[1].dated THEN EleTo("character", e)
  ELSE IF \A i \in DOMAIN e.values : e.values[i].dated THEN EleTo("POSIXct", e)
  ELSE Raised

EleToArray(e) ==
  CASE e.null \/ VectorClass(e.dt) = "NULL" -> Null
    [] ~e.null /\ e.dt = "DATETIME"         -> EleToDatetime(e)
    [] OTHER                                -> EleTo(VectorClass(e.dt), e)

ParseValues(e) == IF e.values = <<>> THEN Null ELSE EleToArray(e)

NamesOf(e) == [i \in DOMAIN e.kids |-> e.kids[i].name]

\* mutant: what has no value has no place in the list
ParseWithoutNulls[d \in 0 .. MaxDepth] == [e \in Elements[d] |->
  IF e.kids = <<>> THEN ParseValues(e)
  ELSE LET items == SelectSeq([i \in DOMAIN e.kids |-> ParseWithoutNulls[d - 1][e.kids[i]]], LAMBDA x : x # Null)
       IN IF \E i \in DOMAIN items : items[i] = Raised THEN Raised
          ELSE List([i \in DOMAIN items |-> e.kids[i].name], items)]

RecursiveParseWithoutNulls(e) == ParseWithoutNulls[MaxDepth][e]

\* an exception leaves all the calls at once; below: what the calls for the
\* elements one level down return
ParseElement(below, e) ==
  IF e.kids = <<>> THEN ParseValues(e)
  ELSE IF \E i \in DOMAIN e.kids : below[e.kids[i]] = Raised THEN Raised
  ELSE List(NamesOf(e), [i \in DOMAIN e.kids |-> below[e.kids[i]]])

Parse[d \in 0 .. MaxDepth] == [e \in Elements[d] |-> ParseElement(Parse[d - 1], e)]

RecursiveParse(e) == Parse[MaxDepth][e]

-----------------------------------------------------------------------------
Init == message \in Messages /\ data = Waiting

ParseData == data = Waiting /\ data' = RecursiveParse(message) /\ UNCHANGED message

Next == ParseData

Spec == Init /\ [][Next]_vars

-----------------------------------------------------------------------------
(* Properties.                                                             *)

\* the thing that has a name
Named(things, names, name) == things[CHOOSE i \in DOMAIN names : names[i] = name]

\* the elements of the message that k names one after the other lead to, each
\* with the item of the data that they lead to
Reached[k \in 0 .. MaxDepth] ==
  IF k = 0 THEN {<<message, data>>}
  ELSE UNION {{<<Named(p[1].kids, NamesOf(p[1]), name), Named(p[2].values, p[2].names, name)>> :
                 name \in Range(NamesOf(p[1]))} : p \in Reached[k - 1]}

\* an element and all those within it
Within[d \in 0 .. MaxDepth] ==
  [e \in Elements[d] |-> {e} \cup UNION {Within[d - 1][e.kids[i]] : i \in DOMAIN e.kids}]

HasNoValue(e) == e.values = <<>> \/ e.null

\* the datatypes that eleToArray() has no vector for
HasNoVector(e) == e.dt \in {"BYTE", "INT64", "BYTEARRAY"}

\* a DATETIME that starts with a date and goes on without one
Mixed(e) == e.dt = "DATETIME" /\ e.values[1].dated /\ \E i \in DOMAIN e.values : ~e.values[i].dated

\* an array of sequences, which have no text, or one that mixes instants with
\* times of day
Unreadable(e) == e.kids = <<>> /\ ~HasNoValue(e) /\ (e.dt \in {"SEQUENCE", "CHOICE"} \/ Mixed(e))

\* an item shows the values of an element, all of them and in their order
ShowsValues(x, e) ==
  x = Vector(IF e.dt # "DATETIME" THEN VectorClass(e.dt)
             ELSE IF \A i \in DOMAIN e.values : e.values[i].dated THEN "POSIXct" ELSE "character",
             e.values)

\* The same names lead in the data to what they lead to in the message: all the
\* values of the element, the names of the elements within it, or NULL where
\* there is no value.  The values of an INT64, a BYTE or a BYTEARRAY are NULL as
\* well (subscribe.cpp:112-126).
DataFollowsMessage ==
  data \notin {Waiting, Raised} => \A k \in 0 .. MaxDepth : \A p \in Reached[k] :
    LET e == p[1]
        x == p[2]
    IN IF e.kids # <<>> THEN x.class = "list" /\ x.names = NamesOf(e) /\ DOMAIN x.values = DOMAIN e.kids
       ELSE IF HasNoValue(e) \/ HasNoVector(e) THEN x = Null
       ELSE ShowsValues(x, e)

\* A message stops subscribe() just where one of its elements, at any depth, is
\* an array of sequences or mixes instants with times of day.
TickStops ==
  data # Waiting => (data = Raised <=> \E e \in Within[MaxDepth][message] : Unreadable(e))
===============================================================================
