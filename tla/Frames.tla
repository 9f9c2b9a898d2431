-------------------------------- MODULE Frames ---------------------------------
(***************************************************************************)
(* A response becomes a data frame: the loops over its rows in bdp(),      *)
(* bdh(), bds(), beqs() and bsrch(), a row at a time.                      *)
(***************************************************************************)
EXTENDS Columns, FiniteSets

CONSTANTS
  Ops,       \* the functions: a subset of {"bdp", "bdh", "bds", "beqs", "bsrch"}
  Shapes,    \* bound: pairs of a number of rows and a number of columns
  Elements(_), \* bound: the elements of a column of the response, Absent for none
  Infos,     \* bound: what field information may say of a field
  Sample     \* the rows bsrch() looks at: 25

ASSUME FramesAssumption ==
  /\ Ops \subseteq {"bdp", "bdh", "bds", "beqs", "bsrch"}
  /\ Shapes \subseteq Nat \X (Nat \ {0})
  /\ \A s \in Shapes : \A j \in 1 .. s[2] : Elements(j) \subseteq Element \cup {Absent}
  /\ Infos \subseteq [datatype: STRING, ftype: STRING] /\ Sample \in Nat \ {0}

VARIABLES
  op,      \* the function
  data,    \* the response: a row of elements for each of its records
  n,       \* its number of rows
  rtypes,  \* bdp, bdh: the types of the columns
  cols,    \* the columns, NoColumn where there is none yet
  allgood, \* beqs: "yes", "no", "unset" before it is assigned
  row,     \* the next row
  phase    \* "infer": types are looked for; "fill", "done", "stopped"

vars == <<op, data, n, rtypes, cols, allgood, row, phase>>

Typed(j) == cols[j] # NoColumn
Typer == op \in {"bdp", "bdh"}    \* field information types the columns

TypeOK ==
  /\ op \in Ops /\ n \in Nat /\ row \in 1 .. n + 1
  /\ \A j \in DOMAIN cols : Typer => rtypes[j] \in RTypes \ {"Datetime"}
  /\ \A j \in DOMAIN cols : Typed(j) =>
       cols[j].class \in Classes /\ cols[j].cells \in [1 .. n -> Cell]
  /\ allgood \in {"unset", "yes", "no"}
  /\ phase \in {"infer", "fill", "done", "stopped"}

\* every record of bsrch() has every field, and a choice made in it
Records(c) ==
  {r \in [1 .. c -> UNION {Elements(j) : j \in 1 .. c}] :
     \A j \in 1 .. c : r[j] \in Elements(j) /\ (op = "bsrch" => r[j] # Absent)}

\* getFieldTypes() and int_as_double, before the response
LookedUp(c) == [1 .. c -> UNION {FieldInfoToRblpapiT(info) : info \in Infos}]
AsDoubles(t) == [j \in DOMAIN t |-> IntAsDouble(t[j])]
TypesOfFields(c) ==
  LookedUp(c) \cup IF op = "bdh" THEN {AsDoubles(t) : t \in LookedUp(c)} ELSE {}

Init ==
  /\ op \in Ops /\ allgood = "unset" /\ row = 1
  /\ \E s \in Shapes :
       /\ n = s[1] /\ data \in [1 .. s[1] -> Records(s[2])]
       /\ rtypes \in IF Typer THEN TypesOfFields(s[2]) ELSE {<<>>}
       /\ cols = [j \in 1 .. s[2] |-> IF Typer THEN AllocateColumn(rtypes[j], n) ELSE NoColumn]
  /\ phase = IF op \in {"beqs", "bsrch"} THEN "infer" ELSE "fill"

-----------------------------------------------------------------------------
(* Looking for types.                                                      *)

\* the columns that the elements of a row have a type for
TypedByRow(new) ==
  [j \in DOMAIN cols |-> IF Typed(j) \/ data[row][j] = Absent THEN cols[j] ELSE new[j]]

\* mutant: the first row has all the types
BeqsInferFirst ==
  /\ op = "beqs" /\ phase = "infer" /\ row = 1 /\ row <= n
  /\ cols' = TypedByRow([j \in DOMAIN cols |-> BeqsColumn(data[row][j].dt, n)])
  /\ allgood' = "yes"
  /\ row' = row + 1
  /\ UNCHANGED <<op, data, n, rtypes, phase>>

BeqsInfer ==
  /\ op = "beqs" /\ phase = "infer" /\ row <= n /\ allgood # "yes"
  /\ cols' = TypedByRow([j \in DOMAIN cols |-> BeqsColumn(data[row][j].dt, n)])
  /\ allgood' = IF \A j \in DOMAIN cols : cols'[j] # NoColumn THEN "yes" ELSE "no"
  /\ row' = row + 1
  /\ UNCHANGED <<op, data, n, rtypes, phase>>

\* all types are found or all rows were seen; what has no type is numeric.
\* Without rows allgood has never been assigned.
BeqsFallback ==
  /\ op = "beqs" /\ phase = "infer" /\ (row > n \/ allgood = "yes")
  /\ \E good \in IF allgood = "unset" THEN {"yes", "no"} ELSE {allgood} :
       cols' = [j \in DOMAIN cols |->
                  IF Typed(j) \/ good = "yes" THEN cols[j] ELSE Fresh("numeric", n, "NA")]
  /\ row' = 1 /\ phase' = "fill"
  /\ UNCHANGED <<op, data, n, rtypes, allgood>>

BsrchInfer ==
  /\ op = "bsrch" /\ phase = "infer"
  /\ IF row <= n /\ row <= Sample
     THEN /\ cols' = TypedByRow([j \in DOMAIN cols |-> BsrchColumn(data[row][j].dt, n)])
          /\ row' = row + 1 /\ UNCHANGED phase
     ELSE row' = 1 /\ phase' = "fill" /\ UNCHANGED cols
  /\ UNCHANGED <<op, data, n, rtypes, allgood>>

-----------------------------------------------------------------------------
(* Filling.                                                                *)

\* the columns an element may leave
Write(j) ==
  LET e == data[row][j] IN
  IF e = Absent THEN {cols[j]}
  ELSE CASE Typer         -> PopulateDfRow(cols[j], row, e, rtypes[j])
         [] op = "bds"    -> BdsPopulate(cols[j], row, e, n)
         [] op = "beqs"   -> BeqsWrite(cols[j], row, e)
         [] op = "bsrch"  -> BsrchWrite(cols[j], row, e)

FillRow ==
  /\ phase = "fill" /\ row <= n
  /\ \A j \in DOMAIN cols : Write(j) # {}
  /\ cols' = [j \in DOMAIN cols |-> CHOOSE c \in Write(j) : TRUE]
  /\ row' = row + 1
  /\ UNCHANGED <<op, data, n, rtypes, allgood, phase>>

\* one element that cannot be written ends the call without a frame
FillStops ==
  /\ phase = "fill" /\ row <= n
  /\ \E j \in DOMAIN cols : Write(j) = {}
  /\ phase' = "stopped"
  /\ UNCHANGED <<op, data, n, rtypes, cols, allgood, row>>

Return ==
  /\ phase = "fill" /\ row > n /\ phase' = "done"
  /\ UNCHANGED <<op, data, n, rtypes, cols, allgood, row>>

Next == BeqsInfer \/ BeqsFallback \/ BsrchInfer \/ FillRow \/ FillStops \/ Return

Spec == Init /\ [][Next]_vars

-----------------------------------------------------------------------------
(* Properties.                                                             *)

Elems(j) == {data[i][j] : i \in 1 .. n} \ {Absent}
HasValue(i, j) == data[i][j] # Absent /\ data[i][j].is # "null"

\* the column shows a cell as what was written into it
Shown(i, j) == cols[j].cells[i] = cols[j].class

\* elements written by the same accessor but as different classes
Mixed(j) ==
  op \in {"bds", "beqs"} /\ \E e, f \in Elems(j) :
    LET class(dt) == IF op = "bds" THEN BdsClass(dt) ELSE BeqsClass(dt)
    IN /\ "none" \notin {class(e.dt), class(f.dt)} /\ class(e.dt) # class(f.dt)
       /\ Storage[class(e.dt)] = Storage[class(f.dt)]

\* Every value of the response is in the frame that is returned, at its row and
\* as what it is or its text, whatever the column was typed by and turned into
\* meanwhile; except that bds() and beqs() misread a column that mixes what R
\* stores alike, and that bds() has no place for a large INT64
\* (bds.cpp:59,194; bsrch.cpp:94).
ValuesShown ==
  phase = "done" => \A i \in 1 .. n, j \in DOMAIN cols :
    HasValue(i, j) =>
      \/ Shown(i, j)
      \/ Mixed(j)
      \/ op = "bds" /\ data[i][j].dt = "INT64" /\ data[i][j].is \in {"over", "under"}

\* Where the response has no value the frame has NA; except for the empty text of
\* bdp(), bdh() and bds(), the zeros of a correlation id and those of a date of
\* beqs() (beqs.cpp:100, bds.cpp:160, blpapi_utils.cpp:335).
AbsentIsNA ==
  phase = "done" => \A i \in 1 .. n, j \in DOMAIN cols :
    Typed(j) /\ ~HasValue(i, j) =>
      \/ cols[j].cells[i] = "NA"
      \/ op \in {"bdp", "bdh", "bds"} /\ cols[j].cells[i] = "blank" /\ cols[j].class = "character"
      \/ op = "bds" /\ cols[j].cells[i] = "zero" /\ \E e \in Elems(j) : e.dt = "CORRELATION_ID"
      \/ op = "beqs" /\ cols[j].cells[i] \in {"zero", "garbled"} /\ \E e \in Elems(j) : e.dt = "DATE"

\* Filling starts with a column of every title, typed by one of its elements or
\* by the fallback (beqs.cpp:116); without rows nothing may have been allocated.
FallbackTyped ==
  op \in {"beqs", "bsrch"} /\ phase # "infer" /\ n > 0 => \A j \in DOMAIN cols : Typed(j)

Alike(j) == \A e, f \in Elems(j) : e.dt = f.dt

\* A response whose columns each hold one datatype the function supports, and no
\* null in a grid, becomes a frame: the pass that fills agrees with the one that
\* typed the columns.
AlikeReturns ==
  phase = "stopped" /\ ~Typer => \E j \in DOMAIN cols :
    \/ ~Alike(j)
    \/ \E e \in Elems(j) : IF op = "bds" THEN e.dt = "TIME" \/ BdsClass(e.dt) = "none"
                           ELSE e.is = "null" \/ ~Converts(e, "character")

\* A row never disturbs the rows before it: what they showed they show, as what
\* it was or as text, unless dates and numbers share the column.
EarlierRowsKept ==
  [][phase = "fill" => \A i \in 1 .. row - 1, j \in DOMAIN cols :
       HasValue(i, j) /\ Shown(i, j) => Shown(i, j)' \/ Mixed(j)]_vars
===============================================================================
