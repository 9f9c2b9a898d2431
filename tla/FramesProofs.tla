----------------------------- MODULE FramesProofs ------------------------------
(***************************************************************************)
(* Proofs about Frames, for responses of every size.                       *)
(***************************************************************************)
EXTENDS Frames, TLAPS

Column(m) == [class: Classes, cells: [1 .. m -> Cell]]

\* the state is well formed, with what TypeOK leaves to the shape of a response
ShapeInv ==
  /\ op \in Ops /\ n \in Nat /\ row \in 1 .. n + 1
  /\ allgood \in {"unset", "yes", "no"}
  /\ phase \in {"infer", "fill", "done", "stopped"}
  /\ data \in [1 .. n -> [DOMAIN cols -> Element \cup {Absent}]]
  /\ op = "bsrch" => \A i \in 1 .. n, j \in DOMAIN cols : data[i][j] # Absent
  /\ Typer => rtypes \in [DOMAIN cols -> RTypes \ {"Datetime"}]
  /\ cols \in [DOMAIN cols -> Column(n) \cup {NoColumn}]

\* which columns there are in each pass
PassInv ==
  /\ phase = "infer" => op \in {"beqs", "bsrch"}
  /\ phase = "done" => row = n + 1
  /\ Typer => \A j \in DOMAIN cols : Typed(j)
  /\ op = "beqs" /\ phase = "infer" =>
       /\ row > 1 => allgood # "unset"
       /\ allgood = "yes" => \A j \in DOMAIN cols : Typed(j)
       /\ \A i \in 1 .. row - 1, j \in DOMAIN cols : data[i][j] # Absent => Typed(j)
  /\ op = "bsrch" /\ phase = "infer" /\ row > 1 => \A j \in DOMAIN cols : Typed(j)
  /\ FallbackTyped

Filled(i) == phase # "infer" /\ i < row

\* the class of a column comes from an element of it
ClassOK(j) ==
  Typed(j) =>
    LET class == cols[j].class IN
    /\ Typer => class = WrittenAs[rtypes[j]]
    /\ op = "bds" => \E e \in Elems(j) : BdsClass(e.dt) = class
    /\ op = "beqs" =>
         \/ class = "numeric" /\ (Elems(j) = {} \/ \E e \in Elems(j) : e.dt = "FLOAT64")
         \/ class = "Date" /\ \E e \in Elems(j) : e.dt = "DATE"
         \/ class = "character" /\ \E e \in Elems(j) : e.dt \notin {"FLOAT64", "DATE"}
    /\ op = "bsrch" =>
         \/ class = "numeric"
         \/ class = "character" /\ \E e \in Elems(j) : e.dt # "FLOAT64"
         \/ class = "Date" /\ data[1][j].dt = "DATETIME" /\ (phase = "infer" \/ row = 1)

\* a cell of a row that is filled
FilledOK(i, j) ==
  Filled(i) =>
    /\ op \in {"beqs", "bsrch"} => data[i][j] = Absent \/ data[i][j].is # "null"
    /\ HasValue(i, j) =>
         /\ Typed(j)
         /\ \/ Shown(i, j)
            \/ Mixed(j)
            \/ op = "bds" /\ data[i][j].dt = "INT64" /\ data[i][j].is \in {"over", "under"}
         /\ op = "beqs" /\ cols[j].class = "numeric" => data[i][j].dt = "FLOAT64"

\* a cell nothing has been written into
EmptyOK(i, j) ==
  Typed(j) /\ op # "bsrch" /\ (Filled(i) => ~HasValue(i, j)) =>
    \/ cols[j].cells[i] = "NA"
    \/ op \in {"bdp", "bdh", "bds"} /\ cols[j].cells[i] = "blank" /\ cols[j].class = "character"
    \/ op = "bds" /\ cols[j].cells[i] = "zero" /\ \E e \in Elems(j) : e.dt = "CORRELATION_ID"
    \/ op = "beqs" /\ cols[j].cells[i] \in {"zero", "garbled"} /\ \E e \in Elems(j) : e.dt = "DATE"

ColumnOK(j) == ClassOK(j) /\ \A i \in 1 .. n : FilledOK(i, j) /\ EmptyOK(i, j)

\* the inductive invariant
FramesInv == ShapeInv /\ PassInv /\ \A j \in DOMAIN cols : ColumnOK(j)

-----------------------------------------------------------------------------
(* Columns.                                                                *)

\* A column has a class, and is not the missing one.
LEMMA ColumnTyped ==
  ASSUME NEW m, NEW c \in Column(m)
  PROVE  c # NoColumn /\ c.class \in Classes
PROOF
<1>1. c.class \in Classes
  BY DEF Column
<1>2. NoColumn.class \notin Classes
  BY DEF NoColumn, Classes
<1> QED BY <1>1, <1>2

\* A new column has its class and its fill in every row.
LEMMA FreshColumn ==
  ASSUME NEW m \in Nat, NEW class \in Classes, NEW cell \in Cell
  PROVE  /\ Fresh(class, m, cell) \in Column(m)
         /\ Fresh(class, m, cell).class = class
         /\ \A i \in 1 .. m : Fresh(class, m, cell).cells[i] = cell
  BY DEF Fresh, Column

\* A raw write changes one cell of a column that R stores as its class.
LEMMA PutOne ==
  ASSUME NEW m \in Nat, NEW col \in Column(m), NEW i \in 1 .. m, NEW class \in Classes, NEW cell \in Cell,
         NEW c \in Put(col, i, class, cell)
  PROVE  /\ c \in Column(m) /\ c.class = col.class /\ Storage[col.class] = Storage[class]
         /\ c.cells = [col.cells EXCEPT ![i] = cell]
  BY DEF Put, Column

\* A grid's write gives its row the class it is written as, and turns the column
\* into one of that class, except that numbers are put among dates as they are.
LEMMA GridWriteOne ==
  ASSUME NEW m \in Nat, NEW col \in Column(m), NEW i \in 1 .. m, NEW e,
         NEW class \in {"numeric", "Date", "character"}, col.class \in {"numeric", "Date", "character"},
         NEW c \in GridWrite(col, i, e, class)
  PROVE  /\ e.is # "null" /\ c \in Column(m) /\ c.cells[i] = class
         /\ c.class = (IF class = "numeric" THEN col.class ELSE class)
         /\ class # "character" => col.class # "character"
         /\ \A k \in 1 .. m \ {i} :
              c.cells[k] = IF class # "character" \/ col.class = "character" \/ col.cells[k] = "NA" THEN col.cells[k]
                           ELSE IF col.cells[k] = col.class THEN "character" ELSE "garbled"
PROOF
<1>1. PICK v \in View(col, class) : c = [v EXCEPT !.cells[i] = class]
  BY DEF GridWrite
<1>2. e.is # "null"
  BY DEF GridWrite
<1>3. Storage["numeric"] = "REAL" /\ Storage["Date"] = "REAL" /\ Storage["character"] = "STR"
  BY DEF Storage
<1>4. /\ v \in Column(m)
      /\ v.class = (IF class = "numeric" THEN col.class ELSE class)
      /\ class # "character" => col.class # "character"
      /\ \A k \in 1 .. m :
           v.cells[k] = IF class # "character" \/ col.class = "character" \/ col.cells[k] = "NA" THEN col.cells[k]
                        ELSE IF col.cells[k] = col.class THEN "character" ELSE "garbled"
  <2>1. CASE class = "character"
    <3>1. v = AsText(col)
      BY <2>1 DEF View
    <3> QED BY <2>1, <3>1 DEF AsText, Column, Cell, Classes
  <2>2. CASE class \in {"numeric", "Date"}
    <3>1. v = [col EXCEPT !.class = IF class = "Date" THEN "Date" ELSE @] /\ Storage[col.class] = Storage[class]
      BY <2>2 DEF View
    <3>2. v.class = (IF class = "Date" THEN "Date" ELSE col.class) /\ v.cells = col.cells /\ v \in Column(m)
      BY <3>1 DEF Column, Classes
    <3> QED BY <2>2, <1>3, <3>1, <3>2
  <2> QED BY <2>1, <2>2
<1>5. c.class = v.class /\ c.cells = [v.cells EXCEPT ![i] = class] /\ c \in Column(m)
  BY <1>1, <1>4 DEF Column, Cell, Classes
<1>6. v.cells \in [1 .. m -> Cell]
  BY <1>4 DEF Column
<1>7. c.cells[i] = class /\ \A k \in 1 .. m \ {i} : c.cells[k] = v.cells[k]
  BY <1>5, <1>6
<1> QED BY <1>2, <1>4, <1>5, <1>7

\* Only a view of text as numbers or dates fails.
LEMMA ViewSome ==
  ASSUME NEW m \in Nat, NEW col \in Column(m), NEW class \in {"numeric", "Date", "character"},
         col.class \in {"numeric", "Date", "character"}, View(col, class) = {}
  PROVE  class # "character" /\ col.class = "character"
PROOF
<1>1. Storage["numeric"] = "REAL" /\ Storage["Date"] = "REAL" /\ Storage["character"] = "STR"
  BY DEF Storage
<1>2. class # "character" /\ Storage[col.class] # Storage[class]
  BY DEF View
<1> QED BY <1>1, <1>2

\* The type of a field is one bdp() and bdh() have a column for.
LEMMA FieldTypes ==
  ASSUME NEW c \in Nat, NEW t \in TypesOfFields(c)
  PROVE  t \in [1 .. c -> RTypes \ {"Datetime"}]
PROOF
<1>1. ASSUME NEW info, NEW r \in FieldInfoToRblpapiT(info)
      PROVE  r \in RTypes \ {"Datetime"} /\ IntAsDouble(r) \in RTypes \ {"Datetime"}
  BY <1>1 DEF FieldInfoToRblpapiT, IntAsDouble, RTypes
<1>2. ASSUME NEW u \in LookedUp(c)
      PROVE  u \in [1 .. c -> RTypes \ {"Datetime"}] /\ AsDoubles(u) \in [1 .. c -> RTypes \ {"Datetime"}]
  <2>1. u \in [1 .. c -> UNION {FieldInfoToRblpapiT(info) : info \in Infos}]
    BY DEF LookedUp
  <2>2. \A j \in 1 .. c : u[j] \in RTypes \ {"Datetime"} /\ IntAsDouble(u[j]) \in RTypes \ {"Datetime"}
    BY <1>1, <2>1
  <2> QED BY <2>1, <2>2 DEF AsDoubles
<1>3. t \in LookedUp(c) \/ \E u \in LookedUp(c) : t = AsDoubles(u)
  BY DEF TypesOfFields
<1> QED BY <1>2, <1>3

\* A column for a field has the class its values are written as.
LEMMA AllocateOne ==
  ASSUME NEW m \in Nat, NEW rtype \in RTypes \ {"Datetime"}
  PROVE  /\ AllocateColumn(rtype, m) \in Column(m)
         /\ AllocateColumn(rtype, m).class = WrittenAs[rtype]
         /\ WrittenAs[rtype] \in Classes
         /\ \A i \in 1 .. m : \/ AllocateColumn(rtype, m).cells[i] = "NA"
                              \/ AllocateColumn(rtype, m).cells[i] = "blank" /\ WrittenAs[rtype] = "character"
PROOF
<1>1. WrittenAs[rtype] \in Classes /\ (rtype = "String" => WrittenAs[rtype] = "character")
  BY DEF WrittenAs, RTypes, Classes
<1>2. CASE rtype = "String"
  <2>1. AllocateColumn(rtype, m) = Fresh("character", m, "blank")
    BY <1>2 DEF AllocateColumn
  <2> QED BY <1>1, <1>2, <2>1, FreshColumn DEF Classes, Cell
<1>3. CASE rtype # "String"
  <2>1. AllocateColumn(rtype, m) = Fresh(WrittenAs[rtype], m, "NA")
    BY <1>3 DEF AllocateColumn
  <2> QED BY <1>1, <2>1, FreshColumn DEF Cell
<1> QED BY <1>2, <1>3

-----------------------------------------------------------------------------
(* The invariant.                                                          *)

\* The inductive invariant holds of every table before a row is looked at.
LEMMA InitInv == Init => FramesInv
PROOF
<1> SUFFICES ASSUME Init PROVE FramesInv
  OBVIOUS
<1>1. PICK s \in Shapes :
        /\ n = s[1] /\ data \in [1 .. s[1] -> Records(s[2])]
        /\ rtypes \in IF Typer THEN TypesOfFields(s[2]) ELSE {<<>>}
        /\ cols = [j \in 1 .. s[2] |-> IF Typer THEN AllocateColumn(rtypes[j], n) ELSE NoColumn]
  BY DEF Init
<1>2. n \in Nat /\ s[2] \in Nat /\ DOMAIN cols = 1 .. s[2]
  BY <1>1, FramesAssumption
<1>3. Typer => rtypes \in [DOMAIN cols -> RTypes \ {"Datetime"}]
  BY <1>1, <1>2, FieldTypes
<1>4. data \in [1 .. n -> [DOMAIN cols -> Element \cup {Absent}]]
  <2>1. ASSUME NEW r \in Records(s[2]) PROVE r \in [1 .. s[2] -> Element \cup {Absent}]
    <3>1. ASSUME NEW j \in 1 .. s[2] PROVE r[j] \in Element \cup {Absent}
      BY FramesAssumption DEF Records
    <3> QED BY <3>1 DEF Records
  <2> QED BY <1>1, <1>2, <2>1
<1>5. op = "bsrch" => \A i \in 1 .. n, j \in DOMAIN cols : data[i][j] # Absent
  BY <1>1, <1>2 DEF Records
<1>6. ASSUME NEW j \in DOMAIN cols
      PROVE  /\ cols[j] \in Column(n) \cup {NoColumn}
             /\ Typed(j) => Typer /\ cols[j] = AllocateColumn(rtypes[j], n)
             /\ Typer => Typed(j)
  BY <1>1, <1>2, <1>3, AllocateOne, ColumnTyped DEF Typed
<1>7. op \in Ops /\ allgood = "unset" /\ row = 1
      /\ phase = IF op \in {"beqs", "bsrch"} THEN "infer" ELSE "fill"
  BY DEF Init
<1>8. ShapeInv
  <2>1. cols \in [DOMAIN cols -> Column(n) \cup {NoColumn}]
    BY <1>1, <1>2, <1>6
  <2>2. row \in 1 .. n + 1 /\ phase \in {"infer", "fill", "done", "stopped"}
    BY <1>2, <1>7
  <2> QED BY <1>2, <1>3, <1>4, <1>5, <1>7, <2>1, <2>2 DEF ShapeInv
<1>9. PassInv
  BY <1>1, <1>2, <1>6, <1>7 DEF PassInv, FallbackTyped
<1>10. ASSUME NEW j \in DOMAIN cols PROVE ColumnOK(j)
  <2>1. ClassOK(j)
    BY <1>2, <1>3, <1>6, AllocateOne DEF ClassOK, Typer
  <2>2. ASSUME NEW i \in 1 .. n PROVE FilledOK(i, j) /\ EmptyOK(i, j)
    <3>1. ~Filled(i)
      BY <1>2, <1>7 DEF Filled
    <3>2. Typed(j) => /\ op \in {"bdp", "bdh"}
                      /\ \/ cols[j].cells[i] = "NA"
                         \/ cols[j].cells[i] = "blank" /\ cols[j].class = "character"
      BY <1>2, <1>3, <1>6, AllocateOne DEF Typer
    <3> QED BY <3>1, <3>2 DEF FilledOK, EmptyOK
  <2> QED BY <2>1, <2>2 DEF ColumnOK
<1> QED BY <1>8, <1>9, <1>10 DEF FramesInv

\* A column that a step leaves alone stays as good as it was while no row is
\* filled by the step.
LEMMA ColumnKept ==
  ASSUME NEW j \in DOMAIN cols, ColumnOK(j), cols'[j] = cols[j], UNCHANGED <<op, data, n, rtypes>>,
         \A i \in 1 .. n : Filled(i)' = Filled(i),
         op = "bsrch" /\ (phase = "infer" \/ row = 1) => phase' = "infer" \/ row' = 1
  PROVE  ColumnOK(j)'
PROOF
<1>1. Elems(j)' = Elems(j) /\ Typed(j)' = Typed(j) /\ Mixed(j)' = Mixed(j) /\ Typer' = Typer
  BY DEF Elems, Typed, Mixed, Typer
<1>2. ClassOK(j)'
  BY <1>1 DEF ColumnOK, ClassOK
<1>3. ASSUME NEW i \in 1 .. n PROVE FilledOK(i, j)' /\ EmptyOK(i, j)'
  <2>1. FilledOK(i, j) /\ EmptyOK(i, j) /\ Filled(i)' = Filled(i)
    BY DEF ColumnOK
  <2>2. HasValue(i, j)' = HasValue(i, j) /\ Shown(i, j)' = Shown(i, j)
    BY DEF HasValue, Shown
  <2>3. FilledOK(i, j)'
    BY <1>1, <2>1, <2>2 DEF FilledOK
  <2>4. EmptyOK(i, j)'
    BY <1>1, <2>1, <2>2 DEF EmptyOK
  <2> QED BY <2>3, <2>4
<1> QED BY <1>2, <1>3 DEF ColumnOK

\* The first pass of a grid gives an untyped column the class of an element.
LEMMA GridColumnOne ==
  ASSUME NEW m \in Nat, NEW dt
  PROVE  /\ BeqsColumn(dt, m) \in Column(m) /\ BsrchColumn(dt, m) \in Column(m)
         /\ BeqsColumn(dt, m).class = BeqsClass(dt) /\ BsrchColumn(dt, m).class = BsrchClass(dt)
         /\ \A i \in 1 .. m : \/ BeqsColumn(dt, m).cells[i] = "NA"
                              \/ dt = "DATE" /\ BeqsColumn(dt, m).cells[i] = "zero"
PROOF
<1>1. BeqsClass(dt) \in Classes /\ BsrchClass(dt) \in Classes
  BY DEF BeqsClass, BsrchClass, Classes
<1>2. "NA" \in Cell /\ "zero" \in Cell
  BY DEF Cell
<1> QED BY <1>1, <1>2, FreshColumn DEF BeqsColumn, BsrchColumn

LEMMA BeqsInferStep ==
  ASSUME FramesInv, BeqsInfer
  PROVE  FramesInv'
PROOF
<1>1. /\ op = "beqs" /\ phase = "infer" /\ row <= n /\ row \in 1 .. n
      /\ row' = row + 1 /\ UNCHANGED <<op, data, n, rtypes, phase>>
      /\ allgood' = IF \A j \in DOMAIN cols : cols'[j] # NoColumn THEN "yes" ELSE "no"
      /\ cols' = [j \in DOMAIN cols |->
                    IF Typed(j) \/ data[row][j] = Absent THEN cols[j] ELSE BeqsColumn(data[row][j].dt, n)]
  BY DEF BeqsInfer, TypedByRow, FramesInv, ShapeInv
<1>2. ShapeInv /\ PassInv /\ DOMAIN cols' = DOMAIN cols
  BY <1>1 DEF FramesInv
<1>3. n \in Nat
  BY <1>2 DEF ShapeInv
<1>4. ASSUME NEW j \in DOMAIN cols
      PROVE  /\ cols'[j] \in Column(n) \cup {NoColumn}
             /\ Typed(j) \/ data[row][j] # Absent => Typed(j)'
  BY <1>1, <1>2, <1>3, GridColumnOne, ColumnTyped DEF ShapeInv, Typed
<1>5. ShapeInv'
  <2>1. cols' \in [DOMAIN cols -> Column(n) \cup {NoColumn}] /\ row' \in 1 .. n + 1 /\ ~Typer'
    BY <1>1, <1>3, <1>4 DEF Typer
  <2> QED BY <1>1, <1>2, <2>1 DEF ShapeInv
<1>6. PassInv'
  <2>1. \A i \in 1 .. row' - 1, j \in DOMAIN cols : data[i][j] # Absent => Typed(j)'
    <3> SUFFICES ASSUME NEW i \in 1 .. row, NEW j \in DOMAIN cols, data[i][j] # Absent PROVE Typed(j)'
      BY <1>1, <1>3
    <3>1. CASE i = row
      BY <1>4, <3>1
    <3>2. CASE i \in 1 .. row - 1
      <4>1. Typed(j)
        BY <1>1, <1>2, <3>2 DEF PassInv
      <4> QED BY <1>4, <4>1
    <3> QED BY <1>1, <3>1, <3>2
  <2>2. allgood' # "unset" /\ (allgood' = "yes" => \A j \in DOMAIN cols : Typed(j)')
    BY <1>1 DEF Typed
  <2> QED BY <1>1, <1>2, <2>1, <2>2 DEF PassInv, Typer, FallbackTyped
<1>7. ASSUME NEW j \in DOMAIN cols PROVE ColumnOK(j)'
  <2>1. ColumnOK(j) /\ \A i \in 1 .. n : ~Filled(i) /\ ~Filled(i)' /\ Filled(i)' = Filled(i)
    BY <1>1 DEF FramesInv, Filled
  <2>2. CASE cols'[j] = cols[j]
    <3>1. UNCHANGED <<op, data, n, rtypes>> /\ op # "bsrch"
      BY <1>1
    <3> QED BY <2>1, <2>2, <3>1, ColumnKept
  <2>3. CASE cols'[j] # cols[j]
    <3> DEFINE e == data[row][j]
    <3>1. cols'[j] = BeqsColumn(e.dt, n) /\ e # Absent
      BY <1>1, <2>3
    <3>2. e \in Elems(j)'
      BY <1>1, <3>1 DEF Elems
    <3> HIDE DEF e
    <3>3. ClassOK(j)'
      BY <1>1, <1>3, <3>1, <3>2, GridColumnOne DEF ClassOK, Typer, BeqsClass
    <3>4. ASSUME NEW i \in 1 .. n PROVE FilledOK(i, j)' /\ EmptyOK(i, j)'
      BY <1>1, <1>3, <2>1, <3>1, <3>2, GridColumnOne DEF FilledOK, EmptyOK
    <3> QED BY <1>1, <3>3, <3>4 DEF ColumnOK
  <2> QED BY <2>2, <2>3
<1> QED BY <1>2, <1>5, <1>6, <1>7 DEF FramesInv

LEMMA BeqsFallbackStep ==
  ASSUME FramesInv, BeqsFallback
  PROVE  FramesInv'
PROOF
<1>1. PICK good \in IF allgood = "unset" THEN {"yes", "no"} ELSE {allgood} :
        cols' = [j \in DOMAIN cols |->
                   IF Typed(j) \/ good = "yes" THEN cols[j] ELSE Fresh("numeric", n, "NA")]
  BY DEF BeqsFallback
<1>2. /\ op = "beqs" /\ phase = "infer" /\ (row > n \/ allgood = "yes")
      /\ row' = 1 /\ phase' = "fill" /\ UNCHANGED <<op, data, n, rtypes, allgood>>
  BY DEF BeqsFallback
<1>3. ShapeInv /\ PassInv /\ n \in Nat /\ row \in 1 .. n + 1 /\ DOMAIN cols' = DOMAIN cols
  BY <1>1 DEF FramesInv, ShapeInv
<1>4. /\ Fresh("numeric", n, "NA") \in Column(n) /\ Fresh("numeric", n, "NA").class = "numeric"
      /\ \A i \in 1 .. n : Fresh("numeric", n, "NA").cells[i] = "NA"
  <2>1. "numeric" \in Classes /\ "NA" \in Cell
    BY DEF Classes, Cell
  <2> QED BY <1>3, <2>1, FreshColumn
<1>5. ASSUME NEW j \in DOMAIN cols
      PROVE  /\ cols'[j] \in Column(n) \cup {NoColumn}
             /\ n > 0 => Typed(j)'
             /\ \/ cols'[j] = cols[j]
                \/ cols'[j] = Fresh("numeric", n, "NA") /\ Elems(j) = {}
  <2>1. CASE Typed(j) \/ good = "yes"
    <3>1. cols'[j] = cols[j]
      BY <1>1, <2>1
    <3>2. n > 0 => Typed(j)
      BY <1>1, <1>2, <1>3, <2>1 DEF PassInv
    <3> QED BY <1>3, <3>1, <3>2 DEF ShapeInv, Typed
  <2>2. CASE ~Typed(j) /\ good # "yes"
    <3>1. cols'[j] = Fresh("numeric", n, "NA")
      BY <1>1, <2>2
    <3>2. \A i \in 1 .. n : data[i][j] = Absent
      BY <1>2, <1>3, <2>2 DEF PassInv
    <3> QED BY <1>4, <3>1, <3>2, ColumnTyped DEF Typed, Elems
  <2> QED BY <2>1, <2>2
<1>6. ShapeInv'
  <2>1. cols' \in [DOMAIN cols -> Column(n) \cup {NoColumn}] /\ row' \in 1 .. n + 1 /\ ~Typer'
    BY <1>1, <1>2, <1>3, <1>5 DEF Typer
  <2> QED BY <1>2, <1>3, <2>1 DEF ShapeInv
<1>7. PassInv'
  BY <1>2, <1>3, <1>5 DEF PassInv, Typer, FallbackTyped
<1>8. ASSUME NEW j \in DOMAIN cols PROVE ColumnOK(j)'
  <2>1. ColumnOK(j) /\ \A i \in 1 .. n : ~Filled(i) /\ ~Filled(i)' /\ Filled(i)' = Filled(i)
    BY <1>2 DEF FramesInv, Filled
  <2>2. CASE cols'[j] = cols[j]
    <3>1. UNCHANGED <<op, data, n, rtypes>> /\ op # "bsrch"
      BY <1>2
    <3> QED BY <2>1, <2>2, <3>1, ColumnKept
  <2>3. CASE cols'[j] = Fresh("numeric", n, "NA") /\ Elems(j) = {}
    <3>1. Elems(j)' = {}
      BY <1>2, <2>3 DEF Elems
    <3>2. ClassOK(j)'
      BY <1>2, <1>4, <2>3, <3>1 DEF ClassOK, Typer
    <3>3. ASSUME NEW i \in 1 .. n PROVE FilledOK(i, j)' /\ EmptyOK(i, j)'
      BY <1>2, <1>4, <2>1, <2>3 DEF FilledOK, EmptyOK
    <3> QED BY <1>2, <3>2, <3>3 DEF ColumnOK
  <2> QED BY <1>5, <2>2, <2>3
<1> QED BY <1>3, <1>6, <1>7, <1>8 DEF FramesInv

LEMMA BsrchInferStep ==
  ASSUME FramesInv, BsrchInfer
  PROVE  FramesInv'
PROOF
<1>1. /\ op = "bsrch" /\ phase = "infer" /\ UNCHANGED <<op, data, n, rtypes, allgood>>
      /\ ShapeInv /\ PassInv /\ n \in Nat /\ row \in 1 .. n + 1
  BY DEF BsrchInfer, FramesInv, ShapeInv
<1>2. \/ /\ row \in 1 .. n /\ row' = row + 1 /\ phase' = "infer"
         /\ cols' = [j \in DOMAIN cols |->
                       IF Typed(j) \/ data[row][j] = Absent THEN cols[j] ELSE BsrchColumn(data[row][j].dt, n)]
      \/ (row > n \/ row > Sample) /\ row' = 1 /\ phase' = "fill" /\ cols' = cols
  BY <1>1, FramesAssumption DEF BsrchInfer, TypedByRow
<1>3. ShapeInv /\ PassInv /\ DOMAIN cols' = DOMAIN cols
  BY <1>1, <1>2
<1>4. \A i \in 1 .. n, j \in DOMAIN cols : data[i][j] # Absent
  BY <1>1 DEF ShapeInv
<1>5. ASSUME NEW j \in DOMAIN cols
      PROVE  /\ cols'[j] \in Column(n) \cup {NoColumn}
             /\ phase' = "infer" => Typed(j)'
             /\ phase' = "fill" /\ n > 0 => Typed(j)'
             /\ \/ cols'[j] = cols[j]
                \/ cols'[j] = BsrchColumn(data[1][j].dt, n) /\ row = 1 /\ phase' = "infer" /\ n > 0
  <2>1. CASE phase' = "infer" /\ row = 1 /\ ~Typed(j)
    <3>1. cols'[j] = BsrchColumn(data[1][j].dt, n) /\ n > 0
      BY <1>1, <1>2, <1>4, <2>1
    <3> QED BY <1>1, <2>1, <3>1, GridColumnOne, ColumnTyped DEF Typed
  <2>2. CASE Typed(j) \/ row > 1
    <3>1. Typed(j)
      BY <1>1, <2>2 DEF PassInv
    <3>2. cols'[j] = cols[j]
      BY <1>2, <3>1
    <3> QED BY <1>1, <3>1, <3>2 DEF ShapeInv, Typed
  <2>3. CASE phase' = "fill" /\ row = 1 /\ ~Typed(j)
    <3>1. n = 0 /\ cols'[j] = cols[j]
      BY <1>1, <1>2, <2>3, FramesAssumption
    <3> QED BY <1>1, <2>3, <3>1 DEF ShapeInv
  <2> QED BY <1>1, <1>2, <2>1, <2>2, <2>3
<1>6. ShapeInv'
  <2>1. cols' \in [DOMAIN cols -> Column(n) \cup {NoColumn}] /\ row' \in 1 .. n + 1 /\ ~Typer'
        /\ phase' \in {"infer", "fill"}
    <3>1. cols' = [j \in DOMAIN cols |-> cols'[j]]
      BY <1>1, <1>2 DEF ShapeInv
    <3> QED BY <1>1, <1>2, <1>5, <3>1 DEF Typer
  <2> QED BY <1>1, <1>3, <2>1 DEF ShapeInv
<1>7. PassInv'
  <2>1. phase' \in {"infer", "fill"}
    BY <1>2
  <2> QED BY <1>1, <1>3, <1>5, <2>1 DEF PassInv, Typer, FallbackTyped
<1>8. ASSUME NEW j \in DOMAIN cols PROVE ColumnOK(j)'
  <2>1. ColumnOK(j) /\ \A i \in 1 .. n : ~Filled(i) /\ ~Filled(i)' /\ Filled(i)' = Filled(i)
    BY <1>1, <1>2 DEF FramesInv, Filled
  <2>2. CASE cols'[j] = cols[j]
    <3>1. UNCHANGED <<op, data, n, rtypes>> /\ (phase' = "infer" \/ row' = 1)
      BY <1>1, <1>2
    <3> QED BY <2>1, <2>2, <3>1, ColumnKept
  <2>3. CASE cols'[j] = BsrchColumn(data[1][j].dt, n) /\ phase' = "infer" /\ n > 0
    <3> DEFINE e == data[1][j]
    <3>1. e \in Elems(j)'
      BY <1>1, <1>4, <2>3 DEF Elems
    <3>2. cols'[j].class = BsrchClass(e.dt)
      BY <1>1, <2>3, GridColumnOne
    <3>3. ClassOK(j)'
      BY <1>1, <2>3, <3>1, <3>2 DEF ClassOK, Typer, BsrchClass
    <3>4. ASSUME NEW i \in 1 .. n PROVE FilledOK(i, j)' /\ EmptyOK(i, j)'
      BY <1>1, <2>1 DEF FilledOK, EmptyOK
    <3> QED BY <1>1, <3>3, <3>4 DEF ColumnOK
  <2> QED BY <1>5, <2>2, <2>3
<1> QED BY <1>3, <1>6, <1>7, <1>8 DEF FramesInv

\* What a row does to the state, whatever the function.
LEMMA FillWrites ==
  ASSUME FramesInv, FillRow
  PROVE  /\ phase = "fill" /\ n \in Nat /\ row \in 1 .. n /\ row' = row + 1
         /\ UNCHANGED <<op, data, n, rtypes, allgood, phase>>
         /\ cols' = [j \in DOMAIN cols |-> cols'[j]] /\ DOMAIN cols' = DOMAIN cols
         /\ \A j \in DOMAIN cols : cols'[j] \in Write(j)
         /\ \A i \in 1 .. n : (Filled(i) <=> i < row) /\ (Filled(i)' <=> i <= row)
PROOF
<1>1. /\ phase = "fill" /\ n \in Nat /\ row \in 1 .. n /\ row' = row + 1
      /\ UNCHANGED <<op, data, n, rtypes, allgood, phase>>
  BY DEF FillRow, FramesInv, ShapeInv
<1>2. /\ cols' = [j \in DOMAIN cols |-> CHOOSE c \in Write(j) : TRUE]
      /\ \A j \in DOMAIN cols : Write(j) # {}
  BY DEF FillRow
<1>3. \A i \in 1 .. n : (Filled(i) <=> i < row) /\ (Filled(i)' <=> i <= row)
  BY <1>1 DEF Filled
<1>4. \A j \in DOMAIN cols : (CHOOSE c \in Write(j) : TRUE) \in Write(j)
  BY <1>2
<1> QED BY <1>1, <1>2, <1>3, <1>4

\* What a row leaves as it was for a column.
LEMMA FillKeeps ==
  ASSUME FramesInv, FillRow, NEW j \in DOMAIN cols
  PROVE  /\ Elems(j)' = Elems(j) /\ Mixed(j)' = Mixed(j) /\ Typer' = Typer
         /\ \A i \in 1 .. n : HasValue(i, j)' = HasValue(i, j)
         /\ \A i \in 1 .. n : data[i][j] # Absent => data[i][j] \in Elems(j) /\ data[i][j] \in Element
         /\ ClassOK(j) /\ \A i \in 1 .. n : FilledOK(i, j) /\ EmptyOK(i, j)
PROOF
<1>1. UNCHANGED <<op, data, n, rtypes>> /\ ShapeInv /\ ColumnOK(j)
  BY FillWrites DEF FramesInv
<1>2. \A i \in 1 .. n : data[i][j] # Absent => data[i][j] \in Elems(j) /\ data[i][j] \in Element
  BY <1>1 DEF ShapeInv, Elems
<1>3. \A i \in 1 .. n : HasValue(i, j)' = HasValue(i, j)
  BY <1>1 DEF HasValue
<1>4. Elems(j)' = Elems(j)
  BY <1>1 DEF Elems
<1>5. Typer' = Typer
  BY <1>1 DEF Typer
<1>6. Mixed(j)' = Mixed(j)
  BY <1>1, <1>4 DEF Mixed
<1> QED BY <1>1, <1>2, <1>3, <1>4, <1>5, <1>6 DEF ColumnOK

\* A row without a value for a column leaves it as good as it was.
LEMMA FillNothing ==
  ASSUME FramesInv, FillRow, NEW j \in DOMAIN cols, cols'[j] = cols[j], ~HasValue(row, j),
         op \in {"beqs", "bsrch"} => data[row][j] = Absent, op # "bsrch"
  PROVE  ColumnOK(j)'
PROOF
<1>1. Typed(j)' = Typed(j) /\ \A i \in 1 .. n : Shown(i, j)' = Shown(i, j)
  BY DEF Typed, Shown
<1>2. ClassOK(j)'
  <2>1. /\ UNCHANGED <<op, rtypes>> /\ cols'[j].class = cols[j].class
        /\ Elems(j)' = Elems(j) /\ Typer' = Typer /\ ClassOK(j)
    BY FillWrites, FillKeeps
  <2> QED BY <1>1, <2>1 DEF ClassOK
<1>3. ASSUME NEW i \in 1 .. n PROVE FilledOK(i, j)' /\ EmptyOK(i, j)'
  <2>1. Filled(i)' => Filled(i) \/ i = row
    BY FillWrites
  <2>2. FilledOK(i, j) /\ EmptyOK(i, j) /\ HasValue(i, j)' = HasValue(i, j)
    BY FillKeeps
  <2>3. FilledOK(i, j)'
    BY <1>1, <2>1, <2>2, FillWrites, FillKeeps DEF FilledOK
  <2>4. EmptyOK(i, j)'
    BY <1>1, <2>1, <2>2, FillWrites, FillKeeps DEF EmptyOK
  <2> QED BY <2>3, <2>4
<1> QED BY <1>2, <1>3, FillWrites DEF ColumnOK

LEMMA FillTyper ==
  ASSUME FramesInv, FillRow, Typer, NEW j \in DOMAIN cols
  PROVE  cols'[j] \in Column(n) /\ ColumnOK(j)'
PROOF
<1> DEFINE e == data[row][j]
           class == WrittenAs[rtypes[j]]
<1>1. cols[j] \in Column(n) /\ cols[j] # NoColumn /\ Typed(j)
  BY DEF FramesInv, ShapeInv, PassInv, Typed
<1>2. cols[j].class = class
  BY <1>1, FillKeeps DEF ClassOK
<1>3. CASE cols'[j] = cols[j] /\ ~HasValue(row, j)
  BY <1>1, <1>3, FillNothing DEF Typer
<1>4. CASE HasValue(row, j)
  <2>1. cols'[j] \in PopulateDfRow(cols[j], row, e, rtypes[j])
    BY <1>4, FillWrites DEF Write, HasValue, Typer
  <2>2. cols'[j] \in Put(cols[j], row, class, class)
    BY <1>4, <2>1 DEF PopulateDfRow, HasValue
  <2>3. class \in Classes /\ class \in Cell
    BY <1>1, <1>2, ColumnTyped DEF Cell
  <2> HIDE DEF class
  <2>4. /\ cols'[j] \in Column(n) /\ cols'[j].class = class
        /\ cols'[j].cells = [cols[j].cells EXCEPT ![row] = class]
    BY <1>1, <1>2, <2>2, <2>3, PutOne, FillWrites
  <2>5. Typed(j)'
    BY <2>4, ColumnTyped DEF Typed
  <2>6. ClassOK(j)'
    BY <1>1, <1>2, <2>4, <2>5, FillKeeps, FillWrites DEF ClassOK, Typer, class
  <2>7. ASSUME NEW i \in 1 .. n PROVE FilledOK(i, j)' /\ EmptyOK(i, j)'
    <3>1. cols[j].cells \in [1 .. n -> Cell]
      BY <1>1 DEF Column
    <3>2. CASE i = row
      <4>1. cols'[j].cells[i] = class
        BY <2>4, <3>1, <3>2, FillWrites
      <4> QED BY <1>4, <2>4, <2>5, <3>2, <4>1, FillKeeps, FillWrites DEF FilledOK, EmptyOK, Shown, Typer
    <3>3. CASE i # row
      <4>1. cols'[j].cells[i] = cols[j].cells[i] /\ (Filled(i)' <=> Filled(i))
        BY <2>4, <3>1, <3>3, FillWrites
      <4>2. FilledOK(i, j) /\ EmptyOK(i, j) /\ HasValue(i, j)' = HasValue(i, j)
        BY FillKeeps
      <4>3. FilledOK(i, j)'
        BY <1>1, <1>2, <2>4, <2>5, <4>1, <4>2, FillKeeps, FillWrites DEF FilledOK, Shown, Typer
      <4>4. EmptyOK(i, j)'
        BY <1>1, <1>2, <2>4, <2>5, <4>1, <4>2, FillKeeps, FillWrites DEF EmptyOK, Typer
      <4> QED BY <4>3, <4>4
    <3> QED BY <3>2, <3>3
  <2> QED BY <2>4, <2>6, <2>7, FillWrites DEF ColumnOK
<1>5. ~HasValue(row, j) => cols'[j] = cols[j]
  <2>1. CASE e = Absent
    BY <2>1, FillWrites DEF Write
  <2>2. CASE e # Absent
    BY <2>2, FillWrites DEF Write, PopulateDfRow, HasValue, Typer
  <2> QED BY <2>1, <2>2
<1> QED BY <1>3, <1>4, <1>5

\* The column bds() writes into: the one there is, or a new one for the element.
LEMMA BdsColumnThere ==
  ASSUME FramesInv, FillRow, op = "bds", NEW j \in DOMAIN cols, data[row][j] # Absent
  PROVE  \E c \in Column(n) :
           /\ cols'[j] \in BdsWrite(c, row, data[row][j])
           /\ Typed(j) => c = cols[j]
           /\ \E f \in Elems(j) : BdsClass(f.dt) = c.class
           /\ \A i \in 1 .. n : ~Typed(j) \/ i >= row \/ ~HasValue(i, j) =>
                \/ c.cells[i] = "NA"
                \/ c.cells[i] = "blank" /\ c.class = "character"
                \/ c.cells[i] = "zero" /\ \E f \in Elems(j) : f.dt = "CORRELATION_ID"
PROOF
<1> DEFINE e == data[row][j]
<1>1. cols'[j] \in BdsPopulate(cols[j], row, e, n) /\ e \in Elems(j)
  BY FillWrites, FillKeeps DEF Write, Typer
<1>2. CASE Typed(j)
  <2>1. cols[j] \in Column(n)
    BY <1>2 DEF FramesInv, ShapeInv, Typed
  <2>2. cols'[j] \in BdsWrite(cols[j], row, e)
    BY <1>1, <1>2 DEF BdsPopulate, Typed
  <2>3. \E f \in Elems(j) : BdsClass(f.dt) = cols[j].class
    BY <1>2, FillKeeps DEF ClassOK
  <2>4. ASSUME NEW i \in 1 .. n, i >= row \/ ~HasValue(i, j)
        PROVE  \/ cols[j].cells[i] = "NA"
               \/ cols[j].cells[i] = "blank" /\ cols[j].class = "character"
               \/ cols[j].cells[i] = "zero" /\ \E f \in Elems(j) : f.dt = "CORRELATION_ID"
    BY <1>2, <2>4, FillKeeps, FillWrites DEF EmptyOK
  <2> QED BY <1>2, <2>1, <2>2, <2>3, <2>4
<1>3. CASE ~Typed(j)
  <2>1. PICK c \in BdsColumn(e.dt, n) : cols'[j] \in BdsWrite(c, row, e)
    BY <1>1, <1>3 DEF BdsPopulate, Typed
  <2>2. c = Fresh(BdsClass(e.dt), n, BdsFill(e.dt)) /\ BdsClass(e.dt) # "none"
    BY <2>1 DEF BdsColumn
  <2>3. BdsClass(e.dt) \in Classes
    BY <2>2 DEF BdsClass, Classes
  <2>4. /\ BdsFill(e.dt) \in Cell
        /\ \/ BdsFill(e.dt) = "NA"
           \/ BdsFill(e.dt) = "blank" /\ BdsClass(e.dt) = "character"
           \/ BdsFill(e.dt) = "zero" /\ e.dt = "CORRELATION_ID"
    BY DEF BdsFill, Cell
  <2>5. /\ c \in Column(n) /\ c.class = BdsClass(e.dt)
        /\ \A i \in 1 .. n : c.cells[i] = BdsFill(e.dt)
    BY <2>2, <2>3, <2>4, FreshColumn, FillWrites
  <2> QED BY <1>1, <1>3, <2>1, <2>4, <2>5
<1> QED BY <1>2, <1>3

LEMMA FillBds ==
  ASSUME FramesInv, FillRow, op = "bds", NEW j \in DOMAIN cols
  PROVE  cols'[j] \in Column(n) \cup {NoColumn} /\ (Typed(j) => Typed(j)') /\ ColumnOK(j)'
PROOF
<1> DEFINE e == data[row][j]
<1>1. CASE e = Absent
  <2>1. cols'[j] = cols[j] /\ ~HasValue(row, j)
    BY <1>1, FillWrites DEF Write, HasValue
  <2> QED BY <2>1, FillNothing DEF FramesInv, ShapeInv, Typed
<1>2. CASE e # Absent
  <2>1. PICK c \in Column(n) :
           /\ cols'[j] \in BdsWrite(c, row, e)
           /\ Typed(j) => c = cols[j]
           /\ \E f \in Elems(j) : BdsClass(f.dt) = c.class
           /\ \A i \in 1 .. n : ~Typed(j) \/ i >= row \/ ~HasValue(i, j) =>
                \/ c.cells[i] = "NA"
                \/ c.cells[i] = "blank" /\ c.class = "character"
                \/ c.cells[i] = "zero" /\ \E f \in Elems(j) : f.dt = "CORRELATION_ID"
    BY <1>2, BdsColumnThere
  <2>2. e \in Elems(j) /\ e \in Element
    BY <1>2, FillKeeps, FillWrites
  <2>3. \/ cols'[j] = c /\ ~HasValue(row, j)
        \/ /\ cols'[j] \in Column(n) /\ cols'[j].class = c.class
           /\ cols'[j].cells = [c.cells EXCEPT ![row] = BdsCell(e)]
           /\ BdsClass(e.dt) # "none" /\ Storage[c.class] = Storage[BdsClass(e.dt)]
    <3>1. CASE e.is = "null"
      BY <2>1, <3>1 DEF BdsWrite, HasValue
    <3>2. CASE e.is # "null"
      <4>1. cols'[j] \in Put(c, row, BdsClass(e.dt), BdsCell(e)) /\ BdsClass(e.dt) # "none"
        BY <2>1, <3>2 DEF BdsWrite
      <4>2. BdsClass(e.dt) \in Classes
        BY <4>1 DEF BdsClass, Classes
      <4>3. BdsCell(e) \in Cell
        BY <4>2 DEF BdsCell, Cell
      <4> QED BY <4>1, <4>2, <4>3, PutOne, FillWrites
    <3> QED BY <3>1, <3>2
  <2>4. cols'[j] \in Column(n) /\ cols'[j].class = c.class /\ Typed(j)'
    BY <2>3, ColumnTyped DEF Typed
  <2>5. ClassOK(j)'
    BY <2>1, <2>4, FillKeeps, FillWrites DEF ClassOK, Typer
  <2>6. c.cells \in [1 .. n -> Cell]
    BY DEF Column
  <2>7. ASSUME NEW i \in 1 .. n, i # row PROVE FilledOK(i, j)' /\ EmptyOK(i, j)'
    <3>1. cols'[j].cells[i] = c.cells[i] /\ (Filled(i)' <=> i < row) /\ (Filled(i) <=> i < row)
      BY <2>3, <2>6, <2>7, FillWrites
    <3>2. FilledOK(i, j) /\ EmptyOK(i, j) /\ HasValue(i, j)' = HasValue(i, j)
      BY FillKeeps
    <3>3. FilledOK(i, j)'
      BY <2>1, <2>4, <3>1, <3>2, FillKeeps, FillWrites DEF FilledOK, Shown
    <3>4. EmptyOK(i, j)'
      BY <2>1, <2>4, <3>1, <3>2, FillKeeps, FillWrites DEF EmptyOK
    <3> QED BY <3>3, <3>4
  <2>8. ASSUME NEW i \in 1 .. n, i = row PROVE FilledOK(i, j)' /\ EmptyOK(i, j)'
    <3>1. /\ Filled(i)' /\ HasValue(i, j)' = HasValue(i, j) /\ UNCHANGED <<data, op>> /\ data[i][j] = e
          /\ cols[j]' = cols'[j]
      BY <2>8, FillWrites, FillKeeps
    <3> HIDE DEF e
    <3>2. CASE ~HasValue(i, j)
      <4>1. cols'[j] = c
        <5>1. e.is = "null"
          BY <1>2, <3>1, <3>2 DEF HasValue
        <5> QED BY <2>1, <5>1 DEF BdsWrite
      <4>2. FilledOK(i, j)'
        BY <2>8, <3>1, <3>2 DEF FilledOK
      <4>3. EmptyOK(i, j)'
        BY <2>1, <2>4, <2>8, <3>1, <3>2, <4>1, FillKeeps DEF EmptyOK
      <4> QED BY <4>2, <4>3
    <3>3. CASE HasValue(i, j)
      <4>1. EmptyOK(i, j)'
        BY <3>1, <3>3 DEF EmptyOK
      <4>2. cols'[j].cells[i] = BdsCell(e) /\ BdsClass(e.dt) # "none" /\ Storage[c.class] = Storage[BdsClass(e.dt)]
        BY <2>3, <2>6, <2>8, <3>3
      <4>3. CASE e.is \in {"over", "under"}
        <5>1. e.dt = "INT64"
          BY <2>2, <4>3 DEF Element
        <5> QED BY <2>4, <3>1, <4>1, <4>3, <5>1 DEF FilledOK
      <4>4. CASE e.is \notin {"over", "under"}
        <5>1. cols'[j].cells[i] = BdsClass(e.dt)
          BY <4>2, <4>4 DEF BdsCell
        <5>2. CASE BdsClass(e.dt) = c.class
          <6>1. Shown(i, j)'
            BY <2>4, <5>1, <5>2 DEF Shown
          <6> QED BY <2>4, <3>1, <4>1, <6>1 DEF FilledOK
        <5>3. CASE BdsClass(e.dt) # c.class
          <6>1. PICK f \in Elems(j) : BdsClass(f.dt) = c.class
            BY <2>1
          <6>2. BdsClass(f.dt) # "none" /\ Storage[BdsClass(e.dt)] = Storage[BdsClass(f.dt)]
            BY <2>1, <4>2, <6>1 DEF Column, Classes
          <6>3. Mixed(j)
            BY <2>2, <4>2, <5>3, <6>1, <6>2 DEF Mixed
          <6> QED BY <2>4, <3>1, <4>1, <6>3, FillKeeps DEF FilledOK
        <5> QED BY <5>2, <5>3
      <4> QED BY <4>3, <4>4
    <3> QED BY <3>2, <3>3
  <2> QED BY <2>4, <2>5, <2>7, <2>8, FillWrites DEF ColumnOK
<1> QED BY <1>1, <1>2

LEMMA FillBeqs ==
  ASSUME FramesInv, FillRow, op = "beqs", NEW j \in DOMAIN cols
  PROVE  cols'[j] \in Column(n) /\ ColumnOK(j)'
PROOF
<1> DEFINE e == data[row][j]
           k == BeqsClass(e.dt)
<1>1. Typed(j) /\ cols[j] \in Column(n) /\ cols[j].class \in {"numeric", "Date", "character"}
  <2>1. Typed(j)
    BY FillWrites DEF FramesInv, PassInv, FallbackTyped
  <2> QED BY <2>1, FillKeeps DEF FramesInv, ShapeInv, Typed, ClassOK
<1>2. CASE e = Absent
  <2>1. cols'[j] = cols[j] /\ ~HasValue(row, j)
    BY <1>2, FillWrites DEF Write, HasValue
  <2> QED BY <1>1, <1>2, <2>1, FillNothing
<1>3. CASE e # Absent
  <2>1. cols'[j] \in BeqsWrite(cols[j], row, e) /\ e \in Elems(j)
    BY <1>3, FillWrites, FillKeeps DEF Write, Typer
  <2>2. /\ k \in {"numeric", "Date", "character"} /\ (k = "numeric" <=> e.dt = "FLOAT64")
        /\ (k = "Date" <=> e.dt = "DATE")
        /\ (CASE e.dt = "FLOAT64" -> "numeric" [] e.dt = "DATE" -> "Date" [] OTHER -> "character") = k
    BY DEF BeqsClass
  <2>3. cols'[j] \in GridWrite(cols[j], row, e, k)
    BY <2>1, <2>2 DEF BeqsWrite
  <2> HIDE DEF k
  <2>4. /\ e.is # "null" /\ cols'[j] \in Column(n) /\ cols'[j].cells[row] = k
        /\ cols'[j].class = (IF k = "numeric" THEN cols[j].class ELSE k)
        /\ k # "character" => cols[j].class # "character"
        /\ \A i \in 1 .. n \ {row} :
             cols'[j].cells[i] =
               IF k # "character" \/ cols[j].class = "character" \/ cols[j].cells[i] = "NA" THEN cols[j].cells[i]
               ELSE IF cols[j].cells[i] = cols[j].class THEN "character" ELSE "garbled"
    BY <1>1, <2>2, <2>3, GridWriteOne, FillWrites
  <2>5. Typed(j)' /\ UNCHANGED op
    BY <2>4, ColumnTyped, FillWrites DEF Typed
  <2>6. ClassOK(j)'
    <3>1. \/ cols'[j].class = cols[j].class
          \/ cols'[j].class = "Date" /\ e.dt = "DATE"
          \/ cols'[j].class = "character" /\ e.dt \notin {"FLOAT64", "DATE"}
      BY <2>2, <2>4
    <3> HIDE DEF e
    <3> QED BY <1>1, <2>1, <2>5, <3>1, FillKeeps DEF ClassOK, Typer
  <2>7. ASSUME NEW f \in Elems(j), NEW g \in Elems(j), f.dt = "DATE", g.dt = "FLOAT64" PROVE Mixed(j)
    BY <2>7 DEF Mixed, BeqsClass, Storage
  <2>8. ASSUME NEW i \in 1 .. n, i # row PROVE FilledOK(i, j)' /\ EmptyOK(i, j)'
    <3>1. (Filled(i)' <=> Filled(i)) /\ UNCHANGED data
      BY <2>8, FillWrites
    <3>2. FilledOK(i, j) /\ EmptyOK(i, j) /\ HasValue(i, j)' = HasValue(i, j)
      BY FillKeeps
    <3>3. ASSUME Filled(i), HasValue(i, j) PROVE Shown(i, j)' \/ Mixed(j)
      <4>1. Shown(i, j) \/ Mixed(j)
        BY <3>2, <3>3 DEF FilledOK
      <4>2. CASE Shown(i, j) /\ k = "Date" /\ cols[j].class = "numeric"
        <5>1. data[i][j].dt = "FLOAT64" /\ data[i][j] \in Elems(j)
          BY <3>2, <3>3, <4>2, FillKeeps DEF FilledOK, HasValue
        <5> QED BY <2>1, <2>2, <2>7, <4>2, <5>1
      <4>3. CASE Shown(i, j) /\ ~(k = "Date" /\ cols[j].class = "numeric")
        BY <1>1, <2>2, <2>4, <2>8, <4>3 DEF Shown
      <4> QED BY <4>1, <4>2, <4>3
    <3>4. cols'[j].class = "numeric" => cols[j].class = "numeric"
      BY <2>2, <2>4
    <3>5. FilledOK(i, j)'
      BY <2>5, <3>1, <3>2, <3>3, <3>4, FillKeeps DEF FilledOK
    <3>6. EmptyOK(i, j)'
      <4>1. SUFFICES ASSUME Filled(i) => ~HasValue(i, j)
            PROVE  \/ cols'[j].cells[i] = "NA"
                   \/ cols'[j].cells[i] \in {"zero", "garbled"} /\ \E f \in Elems(j) : f.dt = "DATE"
        BY <2>5, <3>1, <3>2, FillKeeps DEF EmptyOK
      <4>2. \/ cols[j].cells[i] = "NA"
            \/ cols[j].cells[i] \in {"zero", "garbled"} /\ \E f \in Elems(j) : f.dt = "DATE"
        BY <1>1, <3>2, <4>1 DEF EmptyOK
      <4> QED BY <1>1, <2>4, <2>8, <4>2
    <3> QED BY <3>5, <3>6
  <2>9. ASSUME NEW i \in 1 .. n, i = row PROVE FilledOK(i, j)' /\ EmptyOK(i, j)'
    <3>1. Filled(i)' /\ HasValue(i, j)' = HasValue(i, j) /\ UNCHANGED data /\ data[i][j] = e
      BY <2>9, FillWrites, FillKeeps
    <3> HIDE DEF e
    <3>2. HasValue(i, j) /\ data[i][j].is # "null"
      BY <1>3, <2>4, <3>1 DEF HasValue
    <3>3. cols'[j].cells[i] = k
      BY <2>4, <2>9
    <3>4. Shown(i, j)' \/ Mixed(j)
      <4>1. CASE cols'[j].class = k
        BY <3>3, <4>1 DEF Shown
      <4>2. CASE cols'[j].class # k
        <5>1. k = "numeric" /\ cols[j].class = "Date"
          BY <1>1, <2>2, <2>4, <4>2
        <5>2. \E f \in Elems(j) : f.dt = "DATE"
          BY <1>1, <5>1, FillKeeps DEF ClassOK
        <5> QED BY <2>1, <2>2, <2>7, <5>1, <5>2
      <4> QED BY <4>1, <4>2
    <3>5. cols'[j].class = "numeric" => e.dt = "FLOAT64"
      BY <2>2, <2>4
    <3>6. FilledOK(i, j)'
      BY <2>5, <3>1, <3>2, <3>4, <3>5, FillKeeps DEF FilledOK
    <3>7. EmptyOK(i, j)'
      BY <3>1, <3>2 DEF EmptyOK
    <3> QED BY <3>6, <3>7
  <2> QED BY <2>4, <2>6, <2>8, <2>9, FillWrites DEF ColumnOK
<1> QED BY <1>2, <1>3

LEMMA FillBsrch ==
  ASSUME FramesInv, FillRow, op = "bsrch", NEW j \in DOMAIN cols
  PROVE  cols'[j] \in Column(n) /\ ColumnOK(j)'
PROOF
<1> DEFINE e == data[row][j]
           k == IF e.dt = "FLOAT64" THEN "numeric" ELSE "character"
<1>1. Typed(j) /\ cols[j] \in Column(n) /\ cols[j].class \in {"numeric", "Date", "character"}
  <2>1. Typed(j)
    BY FillWrites DEF FramesInv, PassInv, FallbackTyped
  <2> QED BY <2>1, FillKeeps DEF FramesInv, ShapeInv, Typed, ClassOK
<1>2. e # Absent /\ e \in Elems(j)
  BY FillWrites, FillKeeps DEF FramesInv, ShapeInv
<1>3. cols'[j] \in GridWrite(cols[j], row, e, k)
  BY <1>2, FillWrites DEF Write, Typer, BsrchWrite
<1>4. k \in {"numeric", "character"} /\ (k = "numeric" <=> e.dt = "FLOAT64")
  OBVIOUS
<1>5. k = "numeric" => cols[j].class # "Date"
  <2> SUFFICES ASSUME e.dt = "FLOAT64", cols[j].class = "Date" PROVE FALSE
    BY <1>4
  <2>1. row = 1 /\ data[1][j].dt = "DATETIME"
    BY <1>1, FillKeeps, FillWrites DEF ClassOK
  <2> QED BY <2>1
<1> HIDE DEF k
<1>6. /\ e.is # "null" /\ cols'[j] \in Column(n) /\ cols'[j].cells[row] = k /\ cols'[j].class = k
      /\ k # "character" => cols[j].class # "character"
      /\ \A i \in 1 .. n \ {row} :
           cols'[j].cells[i] =
             IF k # "character" \/ cols[j].class = "character" \/ cols[j].cells[i] = "NA" THEN cols[j].cells[i]
             ELSE IF cols[j].cells[i] = cols[j].class THEN "character" ELSE "garbled"
  BY <1>1, <1>3, <1>4, <1>5, GridWriteOne, FillWrites
<1>7. Typed(j)' /\ UNCHANGED op
  BY <1>6, ColumnTyped, FillWrites DEF Typed
<1>8. ClassOK(j)'
  <2>1. cols'[j].class = "numeric" \/ (cols'[j].class = "character" /\ e.dt # "FLOAT64")
    BY <1>4, <1>6
  <2> HIDE DEF e
  <2> QED BY <1>2, <1>7, <2>1, FillKeeps DEF ClassOK, Typer
<1>9. ASSUME NEW i \in 1 .. n PROVE FilledOK(i, j)' /\ EmptyOK(i, j)'
  <2>1. /\ FilledOK(i, j) /\ HasValue(i, j)' = HasValue(i, j) /\ UNCHANGED data
        /\ ~Mixed(j)
        /\ Filled(i)' => Filled(i) \/ i = row
    BY FillKeeps, FillWrites DEF Mixed
  <2>2. CASE i = row
    <3>1. Shown(i, j)' /\ data[i][j].is # "null"
      BY <1>6, <2>2 DEF Shown
    <3> QED BY <1>7, <2>1, <3>1 DEF FilledOK, EmptyOK
  <2>3. CASE i # row
    <3>1. Shown(i, j) => Shown(i, j)'
      BY <1>1, <1>4, <1>5, <1>6, <2>3 DEF Shown
    <3> QED BY <1>7, <2>1, <2>3, <3>1 DEF FilledOK, EmptyOK
  <2> QED BY <2>2, <2>3
<1> QED BY <1>6, <1>8, <1>9, FillWrites DEF ColumnOK

LEMMA FillRowStep ==
  ASSUME FramesInv, FillRow
  PROVE  FramesInv'
PROOF
<1>1. ShapeInv /\ PassInv
  BY DEF FramesInv
<1>2. op \in {"bdp", "bdh", "bds", "beqs", "bsrch"}
  BY <1>1, FramesAssumption DEF ShapeInv
<1>3. ASSUME NEW j \in DOMAIN cols
      PROVE  cols'[j] \in Column(n) \cup {NoColumn} /\ (Typed(j) => Typed(j)') /\ ColumnOK(j)'
  <2>1. CASE op \in {"bdp", "bdh"}
    BY <2>1, FillTyper, ColumnTyped DEF Typer, Typed
  <2>2. CASE op = "bds"
    BY <2>2, FillBds
  <2>3. CASE op = "beqs"
    BY <2>3, FillBeqs, ColumnTyped DEF Typed
  <2>4. CASE op = "bsrch"
    BY <2>4, FillBsrch, ColumnTyped DEF Typed
  <2> QED BY <1>2, <2>1, <2>2, <2>3, <2>4
<1>4. ShapeInv'
  <2>1. cols' \in [DOMAIN cols -> Column(n) \cup {NoColumn}] /\ row' \in 1 .. n + 1 /\ Typer' = Typer
    BY <1>3, FillWrites DEF Typer
  <2> QED BY <1>1, <2>1, FillWrites DEF ShapeInv
<1>5. PassInv'
  BY <1>1, <1>3, FillWrites DEF PassInv, FallbackTyped, Typer
<1> QED BY <1>3, <1>4, <1>5, FillWrites DEF FramesInv

\* Ending a call, one way or the other, changes nothing but the phase.
LEMMA EndStep ==
  ASSUME FramesInv, FillStops \/ Return
  PROVE  FramesInv'
PROOF
<1>1. /\ phase = "fill" /\ row \in 1 .. n + 1 /\ n \in Nat
      /\ UNCHANGED <<op, data, n, rtypes, cols, allgood, row>> /\ phase' \in {"done", "stopped"}
      /\ phase' = "done" => row > n
  BY DEF FillStops, Return, FramesInv, ShapeInv
<1>2. ShapeInv'
  BY <1>1 DEF FramesInv, ShapeInv, Typer
<1>3. PassInv'
  BY <1>1 DEF FramesInv, PassInv, Typer, Typed, FallbackTyped
<1>4. ASSUME NEW j \in DOMAIN cols PROVE ColumnOK(j)'
  <2>1. ColumnOK(j) /\ \A i \in 1 .. n : Filled(i)' = Filled(i)
    BY <1>1 DEF FramesInv, Filled
  <2>2. cols'[j] = cols[j] /\ UNCHANGED <<op, data, n, rtypes>>
    BY <1>1
  <2>3. phase # "infer" /\ row' = row
    BY <1>1
  <2> QED BY <2>1, <2>2, <2>3, ColumnKept
<1> QED BY <1>1, <1>2, <1>3, <1>4 DEF FramesInv

LEMMA NextInv == FramesInv /\ [Next]_vars => FramesInv'
PROOF
<1> SUFFICES ASSUME FramesInv, [Next]_vars PROVE FramesInv'
  OBVIOUS
<1>1. CASE BeqsInfer
  BY <1>1, BeqsInferStep
<1>2. CASE BeqsFallback
  BY <1>2, BeqsFallbackStep
<1>3. CASE BsrchInfer
  BY <1>3, BsrchInferStep
<1>4. CASE FillRow
  BY <1>4, FillRowStep
<1>5. CASE FillStops \/ Return
  BY <1>5, EndStep
<1>6. CASE UNCHANGED vars
  <2>1. UNCHANGED <<op, data, n, rtypes, cols, allgood, row, phase>>
    BY <1>6 DEF vars
  <2>2. ShapeInv'
    BY <2>1 DEF FramesInv, ShapeInv, Typer
  <2>3. PassInv'
    BY <2>1 DEF FramesInv, PassInv, Typer, Typed, FallbackTyped
  <2>4. ASSUME NEW j \in DOMAIN cols PROVE ColumnOK(j)'
    <3>1. ColumnOK(j) /\ \A i \in 1 .. n : Filled(i)' = Filled(i)
      BY <2>1 DEF FramesInv, Filled
    <3>2. cols'[j] = cols[j] /\ UNCHANGED <<op, data, n, rtypes>>
      BY <2>1
    <3>3. phase' = phase /\ row' = row
      BY <2>1
    <3> QED BY <3>1, <3>2, <3>3, ColumnKept
  <2> QED BY <2>1, <2>2, <2>3, <2>4 DEF FramesInv
<1> QED BY <1>1, <1>2, <1>3, <1>4, <1>5, <1>6 DEF Next

\* The inductive invariant holds in every reachable state.
LEMMA InvCorrect == Spec => []FramesInv
  BY InitInv, NextInv, PTL DEF Spec

-----------------------------------------------------------------------------
(* The properties.                                                         *)

\* Every column has a class of R's, and every one of its cells is accounted for.
THEOREM FramesTypes == Spec => []TypeOK
PROOF
<1>1. FramesInv => TypeOK
  <2> SUFFICES ASSUME FramesInv PROVE TypeOK
    OBVIOUS
  <2>1. ASSUME NEW j \in DOMAIN cols, Typed(j)
        PROVE  cols[j].class \in Classes /\ cols[j].cells \in [1 .. n -> Cell]
    <3>1. cols[j] \in Column(n)
      BY <2>1 DEF FramesInv, ShapeInv, Typed
    <3> QED BY <3>1 DEF Column
  <2> QED BY <2>1 DEF TypeOK, FramesInv, ShapeInv
<1> QED BY <1>1, InvCorrect, PTL

\* Every value of a response is in the frame, at its row and as what it is or as
\* its text, outside the two cases ValuesShown names.
THEOREM ValuesShownCorrect == Spec => []ValuesShown
PROOF
<1>1. FramesInv => ValuesShown
  <2> SUFFICES ASSUME FramesInv, phase = "done", NEW i \in 1 .. n, NEW j \in DOMAIN cols, HasValue(i, j)
      PROVE  \/ Shown(i, j)
             \/ Mixed(j)
             \/ op = "bds" /\ data[i][j].dt = "INT64" /\ data[i][j].is \in {"over", "under"}
    BY DEF ValuesShown
  <2>1. Filled(i) /\ FilledOK(i, j)
    BY DEF FramesInv, PassInv, ShapeInv, ColumnOK, Filled
  <2> QED BY <2>1 DEF FilledOK
<1> QED BY <1>1, InvCorrect, PTL

\* What a response has no value for is NA in the frame, outside the three cases
\* AbsentIsNA names.
THEOREM AbsentIsNACorrect == Spec => []AbsentIsNA
PROOF
<1>1. FramesInv => AbsentIsNA
  <2> SUFFICES ASSUME FramesInv, phase = "done", NEW i \in 1 .. n, NEW j \in DOMAIN cols,
                      Typed(j), ~HasValue(i, j)
      PROVE  \/ cols[j].cells[i] = "NA"
             \/ op \in {"bdp", "bdh", "bds"} /\ cols[j].cells[i] = "blank" /\ cols[j].class = "character"
             \/ op = "bds" /\ cols[j].cells[i] = "zero" /\ \E e \in Elems(j) : e.dt = "CORRELATION_ID"
             \/ op = "beqs" /\ cols[j].cells[i] \in {"zero", "garbled"} /\ \E e \in Elems(j) : e.dt = "DATE"
    BY DEF AbsentIsNA
  <2>1. Filled(i) /\ FilledOK(i, j) /\ EmptyOK(i, j)
    BY DEF FramesInv, PassInv, ShapeInv, ColumnOK, Filled
  <2>2. op # "bsrch"
    BY <2>1 DEF FilledOK, HasValue, FramesInv, ShapeInv
  <2> QED BY <2>1, <2>2 DEF EmptyOK
<1> QED BY <1>1, InvCorrect, PTL

\* No column of a grid with rows is left without a vector when filling starts.
THEOREM FallbackTypedCorrect == Spec => []FallbackTyped
PROOF
<1>1. FramesInv => FallbackTyped
  BY DEF FramesInv, PassInv
<1> QED BY <1>1, InvCorrect, PTL

\* An element bds() cannot write has no column type, or meets a column that
\* another datatype made.
LEMMA BdsStops ==
  ASSUME FramesInv, phase = "fill", row <= n, op = "bds", NEW j \in DOMAIN cols, Write(j) = {}
  PROVE  ~Alike(j) \/ \E e \in Elems(j) : e.dt = "TIME" \/ BdsClass(e.dt) = "none"
PROOF
<1> DEFINE e == data[row][j]
<1>1. n \in Nat /\ row \in 1 .. n /\ ClassOK(j) /\ cols[j] \in Column(n) \cup {NoColumn}
  BY DEF FramesInv, ShapeInv, ColumnOK
<1>2. e # Absent /\ BdsPopulate(cols[j], row, e, n) = {}
  BY DEF Write, Typer
<1>3. e \in Elems(j)
  BY <1>1, <1>2 DEF Elems
<1> HIDE DEF e
<1> SUFFICES ASSUME e.dt # "TIME", BdsClass(e.dt) # "none" PROVE ~Alike(j)
  BY <1>3
<1>4. BdsClass(e.dt) \in Classes
  BY DEF BdsClass, Classes
<1>5. \E c \in Column(n) : /\ BdsWrite(c, row, e) = {}
                           /\ c.class = BdsClass(e.dt) \/ (c = cols[j] /\ Typed(j))
  <2>1. CASE Typed(j)
    BY <1>1, <1>2, <2>1 DEF BdsPopulate, Typed
  <2>2. CASE ~Typed(j)
    <3>1. BdsWrite(Fresh(BdsClass(e.dt), n, BdsFill(e.dt)), row, e) = {}
      BY <1>2, <2>2 DEF BdsPopulate, BdsColumn, Typed
    <3>2. BdsFill(e.dt) \in Cell
      BY DEF BdsFill, Cell
    <3> QED BY <1>1, <1>4, <3>1, <3>2, FreshColumn
  <2> QED BY <2>1, <2>2
<1>6. PICK c \in Column(n) : /\ BdsWrite(c, row, e) = {}
                             /\ c.class = BdsClass(e.dt) \/ (c = cols[j] /\ Typed(j))
  BY <1>5
<1>7. Storage[c.class] # Storage[BdsClass(e.dt)]
  BY <1>6 DEF BdsWrite, Put
<1>8. PICK f \in Elems(j) : BdsClass(f.dt) = c.class
  BY <1>1, <1>6, <1>7 DEF ClassOK
<1> QED BY <1>3, <1>7, <1>8 DEF Alike

\* An element a grid cannot write is null, has no text, or is a number or a date
\* in a column that another datatype turned into text.
LEMMA GridStops ==
  ASSUME FramesInv, phase = "fill", row <= n, op \in {"beqs", "bsrch"}, NEW j \in DOMAIN cols, Write(j) = {}
  PROVE  ~Alike(j) \/ \E e \in Elems(j) : e.is = "null" \/ ~Converts(e, "character")
PROOF
<1> DEFINE e == data[row][j]
           k == CASE e.dt = "FLOAT64" -> "numeric" [] e.dt = "DATE" /\ op = "beqs" -> "Date" [] OTHER -> "character"
<1>1. n \in Nat /\ row \in 1 .. n /\ ClassOK(j) /\ cols[j] \in Column(n) \cup {NoColumn} /\ Typed(j)
  BY DEF FramesInv, ShapeInv, ColumnOK, PassInv, FallbackTyped
<1>2. cols[j] \in Column(n) /\ cols[j].class \in {"numeric", "Date", "character"}
  BY <1>1 DEF Typed, ClassOK
<1>3. e # Absent /\ GridWrite(cols[j], row, e, k) = {}
  <2>1. e # Absent
    BY DEF Write
  <2>2. CASE op = "beqs"
    BY <2>1, <2>2 DEF Write, Typer, BeqsWrite
  <2>3. CASE op = "bsrch"
    BY <2>1, <2>3 DEF Write, Typer, BsrchWrite
  <2> QED BY <2>1, <2>2, <2>3
<1>4. e \in Elems(j)
  BY <1>1, <1>3 DEF Elems
<1>5. /\ k \in {"numeric", "Date", "character"}
      /\ k # "character" => e.dt = "FLOAT64" \/ (e.dt = "DATE" /\ op = "beqs")
  OBVIOUS
<1> HIDE DEF e, k
<1> SUFFICES ASSUME e.is # "null", Converts(e, "character") PROVE ~Alike(j)
  BY <1>4
<1>6. View(cols[j], k) = {}
  BY <1>3 DEF GridWrite
<1>7. k # "character" /\ cols[j].class = "character"
  BY <1>1, <1>2, <1>5, <1>6, ViewSome
<1>8. \E f \in Elems(j) : f.dt # "FLOAT64" /\ (op = "beqs" => f.dt # "DATE")
  BY <1>1, <1>7 DEF ClassOK
<1> QED BY <1>4, <1>5, <1>7, <1>8 DEF Alike

\* A response whose columns each hold one supported datatype becomes a frame.
THEOREM AlikeReturnsCorrect == Spec => []AlikeReturns
PROOF
<1>1. Init => AlikeReturns
  BY DEF Init, AlikeReturns
<1>2. ASSUME FramesInv, AlikeReturns, [Next]_vars PROVE AlikeReturns'
  <2>1. CASE FillStops
    <3> SUFFICES ASSUME ~Typer
        PROVE  \E j \in DOMAIN cols :
                 \/ ~Alike(j)
                 \/ \E e \in Elems(j) : IF op = "bds" THEN e.dt = "TIME" \/ BdsClass(e.dt) = "none"
                                        ELSE e.is = "null" \/ ~Converts(e, "character")
      BY <2>1 DEF FillStops, AlikeReturns, Typer, Alike, Elems
    <3>1. PICK j \in DOMAIN cols : Write(j) = {}
      BY <2>1 DEF FillStops
    <3>2. phase = "fill" /\ row <= n /\ op \in {"bds", "beqs", "bsrch"}
      BY <1>2, <2>1, FramesAssumption DEF FillStops, FramesInv, ShapeInv, Typer
    <3>3. CASE op = "bds"
      BY <1>2, <3>1, <3>2, <3>3, BdsStops
    <3>4. CASE op \in {"beqs", "bsrch"}
      BY <1>2, <3>1, <3>2, <3>4, GridStops
    <3> QED BY <3>2, <3>3, <3>4
  <2>2. CASE ~FillStops /\ ~UNCHANGED vars
    <3>1. phase' # "stopped"
      BY <1>2, <2>2 DEF Next, BeqsInfer, BeqsFallback, BsrchInfer, FillRow, Return
    <3> QED BY <3>1 DEF AlikeReturns
  <2>3. CASE UNCHANGED vars
    BY <1>2, <2>3 DEF vars, AlikeReturns, Typer, Alike, Elems
  <2> QED BY <2>1, <2>2, <2>3
<1> QED BY <1>1, <1>2, InvCorrect, PTL DEF Spec

\* No row of a response disturbs what the rows before it show, unless dates and
\* numbers share the column.
THEOREM EarlierRowsKeptCorrect == Spec => EarlierRowsKept
PROOF
<1>1. ASSUME FramesInv, [Next]_vars, phase = "fill", NEW i \in 1 .. row - 1, NEW j \in DOMAIN cols,
             HasValue(i, j), Shown(i, j)
      PROVE  Shown(i, j)' \/ Mixed(j)
  <2>1. CASE cols' = cols
    BY <1>1, <2>1 DEF Shown
  <2>2. CASE FillRow
    <3>1. i \in 1 .. n /\ i # row /\ Filled(i)' /\ Filled(i)
      BY <1>1, <2>2, FillWrites
    <3>2. CASE op # "bds"
      <4>1. ColumnOK(j)' /\ UNCHANGED <<op, n>> /\ DOMAIN cols' = DOMAIN cols
        BY <1>1, <2>2, FillRowStep, FillWrites DEF FramesInv
      <4>2. FilledOK(i, j)'
        BY <3>1, <4>1 DEF ColumnOK
      <4> QED BY <1>1, <2>2, <3>1, <3>2, <4>1, <4>2, FillKeeps DEF FilledOK
    <3>3. CASE op = "bds" /\ data[row][j] # Absent
      <4>1. Typed(j)
        BY <1>1, <2>2, <3>1, FillKeeps DEF FilledOK
      <4>2. cols[j] \in Column(n) /\ cols'[j] \in BdsWrite(cols[j], row, data[row][j])
        BY <1>1, <2>2, <3>3, <4>1, BdsColumnThere
      <4> DEFINE e == data[row][j]
      <4>3. cols'[j] = cols[j] \/ cols'[j] \in Put(cols[j], row, BdsClass(e.dt), BdsCell(e))
        BY <4>2 DEF BdsWrite
      <4>4. cols'[j].class = cols[j].class /\ cols'[j].cells[i] = cols[j].cells[i]
        BY <3>1, <4>2, <4>3 DEF Put, Column
      <4> QED BY <1>1, <4>4 DEF Shown
    <3>4. CASE op = "bds" /\ data[row][j] = Absent
      <4>1. cols'[j] = cols[j]
        BY <1>1, <2>2, <3>4, FillWrites DEF Write
      <4> QED BY <1>1, <4>1 DEF Shown
    <3> QED BY <3>2, <3>3, <3>4
  <2>3. cols' = cols \/ FillRow
    BY <1>1 DEF Next, BeqsInfer, BeqsFallback, BsrchInfer, FillStops, Return, vars
  <2> QED BY <2>1, <2>2, <2>3
<1>2. FramesInv /\ [Next]_vars =>
        [phase = "fill" => \A i \in 1 .. row - 1, j \in DOMAIN cols :
           HasValue(i, j) /\ Shown(i, j) => Shown(i, j)' \/ Mixed(j)]_vars
  BY <1>1
<1> QED BY <1>2, InvCorrect, PTL DEF Spec, EarlierRowsKept
===============================================================================
