-------------------------------- MODULE Columns --------------------------------
(***************************************************************************)
(* How elements of a response become cells of the columns of a data frame: *)
(* the type of a field, a new column, and the writing of one element, for  *)
(* bdp() and bdh(), for bds(), and for the grids of beqs() and bsrch().    *)
(*                                                                         *)
(* Of a value only its datatype matters and whether it is one of those the *)
(* code treats apart; of a cell, as what its bits or its text are written. *)
(* A write is the set of columns it may leave; the empty set: it raises.   *)
(***************************************************************************)
EXTENDS Integers

Datatypes ==
  {"BOOL", "CHAR", "BYTE", "INT32", "INT64", "FLOAT32", "FLOAT64", "STRING", "BYTEARRAY", "DATE",
   "TIME", "DATETIME", "DECIMAL", "ENUMERATION", "SEQUENCE", "CHOICE", "CORRELATION_ID"}

\* over, under: an INT64 above or below what an int holds;
\* odd: a number that is no date in yyyymmdd format
Element ==
  {e \in [dt: Datatypes, is: {"value", "null", "over", "under", "odd"}] :
     /\ e.is \in {"over", "under"} => e.dt = "INT64"
     /\ e.is = "odd" => e.dt \in {"FLOAT32", "FLOAT64"}}
Absent == [dt |-> "none", is |-> "absent"]

Classes == {"logical", "integer", "numeric", "Date", "POSIXct", "character"}

\* the accessor for the vectors of a class: LOGICAL() and INTEGER() take each
\* other's vectors, and raise for the rest (external: R)
Storage == [logical |-> "INT", integer |-> "INT", numeric |-> "REAL", Date |-> "REAL",
            POSIXct |-> "REAL", character |-> "STR"]

\* what a cell has been given: its fill, or an element written as some class;
\* garbled: the text of bits that were read as another class
Cell == {"NA", "blank", "zero", "clamped", "wrapped", "garbled"} \cup Classes

NoColumn == [class |-> "none", cells |-> <<>>]
Fresh(class, n, cell) == [class |-> class, cells |-> [i \in 1 .. n |-> cell]]

\* a raw write: nothing but R's accessor looks at the class of the column
Put(col, i, class, cell) ==
  IF Storage[col.class] = Storage[class] THEN {[col EXCEPT !.cells[i] = cell]} ELSE {}

-----------------------------------------------------------------------------
(* bdp() and bdh(): the type of a field types its column.                  *)

RTypes == {"Logical", "Integer", "Integer64", "Double", "Float", "Date", "Datetime", "String"}

\* mutant: fields that are not dates are given the type for date and time
FieldInfoToRblpapiTTimes(info) ==
  IF info.datatype = "Datetime" THEN {IF info.ftype = "Date" THEN "Date" ELSE "Datetime"}
  ELSE {"String"}

\* a datatype that is not in the map: end() is dereferenced, and whatever is
\* there selects a case
FieldInfoToRblpapiT(info) ==
  CASE info.datatype = "Bool"     -> {"Logical"}
    [] info.datatype = "Int32"    -> {"Integer"}
    [] info.datatype = "Int64"    -> {"Integer64"}
    [] info.datatype \in {"Double", "Float", "String"} -> {info.datatype}
    [] info.datatype = "Datetime" -> {IF info.ftype = "Date" THEN "Date" ELSE "String"}
    [] OTHER -> {"Logical", "Integer", "Integer64", "Double", "Float", "String"}
                \cup {IF info.ftype = "Date" THEN "Date" ELSE "String"}

\* bdh(int.as.double = TRUE)
IntAsDouble(rtype) == IF rtype \in {"Integer", "Integer64"} THEN "Double" ELSE rtype

WrittenAs == [Logical |-> "logical", Integer |-> "integer", Integer64 |-> "numeric",
              Double |-> "numeric", Float |-> "numeric", Date |-> "Date",
              Datetime |-> "POSIXct", String |-> "character"]

\* allocateDataFrameColumn(): a StringVector is made of empty strings
AllocateColumn(rtype, n) ==
  IF rtype \in {"Datetime", "String"} THEN Fresh("character", n, "blank")
  ELSE Fresh(WrittenAs[rtype], n, "NA")

\* what getValueAs...() converts (external), and what bbgDateToRDate() does not
\* refuse
Converts(e, class) ==
  CASE class = "logical"   -> e.dt = "BOOL"
    [] class = "integer"   -> e.dt = "INT32" \/ (e.dt = "INT64" /\ e.is = "value")
    [] class = "numeric"   -> e.dt \in {"INT32", "INT64", "FLOAT32", "FLOAT64", "DECIMAL"}
    [] class = "Date"      -> e.dt = "DATE" \/ (e.dt \in {"FLOAT32", "FLOAT64"} /\ e.is # "odd")
    [] class = "POSIXct"   -> e.dt \in {"DATE", "DATETIME"}
    [] class = "character" -> e.dt \notin {"SEQUENCE", "CHOICE", "BYTEARRAY"}

PopulateDfRow(col, i, e, rtype) ==
  IF e.is = "null" THEN {col}
  ELSE IF Converts(e, WrittenAs[rtype]) THEN Put(col, i, WrittenAs[rtype], WrittenAs[rtype]) ELSE {}

-----------------------------------------------------------------------------
(* bds(): the first element of a column types it, each one chooses how it  *)
(* is written.                                                             *)

BdsClass(dt) ==
  CASE dt = "BOOL" -> "logical"
    [] dt \in {"INT32", "INT64", "CORRELATION_ID"}  -> "integer"
    [] dt \in {"FLOAT32", "FLOAT64", "DECIMAL"}     -> "numeric"
    [] dt = "DATE"                                  -> "Date"
    [] dt \in {"TIME", "DATETIME"}                  -> "POSIXct"
    [] dt \in {"CHAR", "STRING", "ENUMERATION"}     -> "character"
    [] OTHER -> "none"

BdsFill(dt) ==
  CASE dt = "CORRELATION_ID"           -> "zero"
    [] BdsClass(dt) = "character"      -> "blank"
    [] OTHER                           -> "NA"

\* the set is empty where allocateDataFrameColumn() raises
BdsColumn(dt, n) == IF BdsClass(dt) = "none" THEN {} ELSE {Fresh(BdsClass(dt), n, BdsFill(dt))}

\* only the upper bound of an INT64 is looked at
BdsCell(e) ==
  CASE e.is = "over"  -> "clamped"
    [] e.is = "under" -> "wrapped"
    [] OTHER          -> BdsClass(e.dt)

\* mutant: a DATETIME is written as a DATE is
BdsWriteDay(col, i, e) ==
  CASE e.is = "null" -> {col}
    [] e.dt = "TIME" \/ BdsClass(e.dt) = "none" -> {}
    [] e.dt = "DATETIME" -> Put(col, i, "POSIXct", "Date")
    [] OTHER -> Put(col, i, BdsClass(e.dt), BdsCell(e))

\* populateDfRowBDS(); a time of day has the year 1, which is no year to boost
BdsWrite(col, i, e) ==
  CASE e.is = "null" -> {col}
    [] e.dt = "TIME" \/ BdsClass(e.dt) = "none" -> {}
    [] OTHER -> Put(col, i, BdsClass(e.dt), BdsCell(e))

\* assertColumnDefined(), then populateDfRowBDS()
BdsPopulate(col, i, e, n) ==
  UNION {BdsWrite(c, i, e) : c \in IF col = NoColumn THEN BdsColumn(e.dt, n) ELSE {col}}

-----------------------------------------------------------------------------
(* The grids: a column is viewed as an Rcpp vector of the type the element *)
(* asks for, and the view is stored in its place.                          *)

\* Rcpp's conversion to text
AsText(col) ==
  [class |-> "character",
   cells |-> [i \in DOMAIN col.cells |->
                IF col.class = "character" \/ col.cells[i] = "NA" THEN col.cells[i]
                ELSE IF col.cells[i] = col.class THEN "character" ELSE "garbled"]]

\* mutant: a view of another type is a new vector
ViewAnew(col, class) ==
  IF class = col.class THEN {col} ELSE {[class |-> class, cells |-> [i \in DOMAIN col.cells |-> "NA"]]}

\* numeric and Date views share the vector, and the latter sets its class; text
\* is not converted back
View(col, class) ==
  IF class = "character" THEN {AsText(col)}
  ELSE IF Storage[col.class] # Storage[class] THEN {}
  ELSE {[col EXCEPT !.class = IF class = "Date" THEN "Date" ELSE @]}

\* mutant: numbers are not looked for
BeqsClassTextOnly(dt) == IF dt = "DATE" THEN "Date" ELSE "character"

\* the first pass of beqs() and of bsrch(): the class of a column
BeqsClass(dt) ==
  CASE dt = "FLOAT64" -> "numeric"
    [] dt = "DATE"    -> "Date"
    [] OTHER          -> "character"

\* mutant: numbers are left as they are allocated
BeqsColumnZero(dt, n) ==
  Fresh(BeqsClass(dt), n, IF BeqsClass(dt) = "character" THEN "NA" ELSE "zero")

\* DateVector(rows) is made of zeros
BeqsColumn(dt, n) == Fresh(BeqsClass(dt), n, IF dt = "DATE" THEN "zero" ELSE "NA")

BsrchClass(dt) ==
  CASE dt \in {"FLOAT32", "FLOAT64"} -> "numeric"
    [] dt = "DATETIME"               -> "Date"
    [] OTHER                         -> "character"

BsrchColumn(dt, n) == Fresh(BsrchClass(dt), n, IF dt = "DATETIME" THEN "zero" ELSE "NA")

\* one element into its column; getValueAs...() raises for what is null or has
\* no text
GridWrite(col, i, e, class) ==
  IF e.is = "null" \/ ~Converts(e, "character") THEN {}
  ELSE {[c EXCEPT !.cells[i] = class] : c \in View(col, class)}

\* the second pass of each: beqs() knows dates, neither knows FLOAT32
BeqsWrite(col, i, e) ==
  GridWrite(col, i, e, CASE e.dt = "FLOAT64" -> "numeric" [] e.dt = "DATE" -> "Date" [] OTHER -> "character")

BsrchWrite(col, i, e) ==
  GridWrite(col, i, e, IF e.dt = "FLOAT64" THEN "numeric" ELSE "character")
===============================================================================
