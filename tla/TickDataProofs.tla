---------------------------- MODULE TickDataProofs -----------------------------
(***************************************************************************)
(* What a message becomes, proved for messages of any elements and any     *)
(* depth.  recursiveParse() is a recursive function, and so are the two    *)
(* definitions its properties are stated with: each is first shown to be   *)
(* what its equation says, by an induction on the levels.  An induction is *)
(* stated with the set of the numbers a formula is true of.                *)
(***************************************************************************)
EXTENDS TickData, WellFoundedInduction, TLAPS

\* the order of the natural numbers, as the library's relation
LEMMA NatOrder == IsWellFoundedOn({ss \in Nat \X Nat : ss[1] < ss[2]}, Nat)
BY NatLessThanWellFounded, Zenon DEF OpToRel

LEMMA Least ==
  ASSUME NEW T, T \subseteq Nat, T # {}
  PROVE  \E m \in T : \A k \in T : m <= k
<1> DEFINE R == {ss \in Nat \X Nat : ss[1] < ss[2]}
<1>1. PICK m \in T : \A k \in T : <<k, m>> \notin R
  BY NatOrder, WFMin, Zenon
<1>2. ASSUME NEW k \in T, k < m PROVE FALSE
  <2>1. <<k, m>> \in R
    BY <1>2
  <2> QED BY <1>1, <2>1, Zenon
<1> QED BY <1>2

LEMMA Induction ==
  ASSUME NEW T, 0 \in T, \A k \in Nat : k \in T => k + 1 \in T
  PROVE  \A m \in Nat : m \in T
<1> DEFINE U == Nat \ T
<1> SUFFICES ASSUME U # {} PROVE FALSE
  OBVIOUS
<1>1. PICK m \in U : \A k \in U : m <= k
  BY Least, Zenon
<1>2. m - 1 \in T
  BY <1>1
<1> QED BY <1>1, <1>2

-----------------------------------------------------------------------------
(* The equations.  A function that makes the first d levels true makes     *)
(* another that makes one more true.                                       *)

LEMMA ParseEquation ==
  \A d \in 0 .. MaxDepth : Parse[d] = [e \in Elements[d] |-> ParseElement(Parse[d - 1], e)]
<1> DEFINE Upper(below, d) == [e \in Elements[d] |-> ParseElement(below, e)]
           Eq(g, m) == g[0] = Upper(0, 0) /\ \A d \in 1 .. m : g[d] = Upper(g[d - 1], d)
           T == {m \in Nat : \E g : Eq(g, m)}
<1>1. \A below : Upper(below, 0) = Upper(0, 0)
  BY TickDataAssumption DEF ParseElement
<1> HIDE DEF Upper
<1>2. 0 \in T
  <2>1. Eq([d \in 0 .. 0 |-> Upper(0, 0)], 0)
    OBVIOUS
  <2> QED BY <2>1
<1>3. ASSUME NEW m \in Nat, m \in T PROVE m + 1 \in T
  <2>1. PICK g : Eq(g, m)
    BY <1>3
  <2> DEFINE h == [d \in 0 .. m + 1 |-> IF d = 0 THEN g[0] ELSE Upper(g[d - 1], d)]
  <2>2. Eq(h, m + 1)
    BY <2>1
  <2>3. \E f : Eq(f, m + 1)
    <3> HIDE DEF Eq, h
    <3> QED BY <2>2
  <2> QED BY <2>3
<1>4. MaxDepth \in T
  <2> HIDE DEF T
  <2>1. \A m \in Nat : m \in T
    BY <1>2, <1>3, Induction, Zenon
  <2> QED BY <2>1, TickDataAssumption
<1>5. PICK g : Eq(g, MaxDepth)
  BY <1>4
<1> DEFINE f == [d \in 0 .. MaxDepth |-> g[d]]
<1>6. ASSUME NEW d \in 0 .. MaxDepth PROVE f[d] = Upper(f[d - 1], d)
  BY <1>1, <1>5, TickDataAssumption
<1>7. f = [d \in 0 .. MaxDepth |-> Upper(f[d - 1], d)]
  BY <1>6
<1>8. Parse = [d \in 0 .. MaxDepth |-> Upper(Parse[d - 1], d)]
  BY <1>7, Zenon DEF Parse, Upper
<1> DEFINE F == [d \in 0 .. MaxDepth |-> Upper(Parse[d - 1], d)]
<1>9. \A d \in 0 .. MaxDepth : F[d] = Upper(Parse[d - 1], d)
  OBVIOUS
<1> QED BY <1>8, <1>9, Zenon DEF Upper

LEMMA WithinEquation ==
  \A d \in 0 .. MaxDepth :
    Within[d] = [e \in Elements[d] |-> {e} \cup UNION {Within[d - 1][e.kids[i]] : i \in DOMAIN e.kids}]
<1> DEFINE Upper(below, d) == [e \in Elements[d] |-> {e} \cup UNION {below[e.kids[i]] : i \in DOMAIN e.kids}]
           Eq(g, m) == g[0] = Upper(0, 0) /\ \A d \in 1 .. m : g[d] = Upper(g[d - 1], d)
           T == {m \in Nat : \E g : Eq(g, m)}
<1>1. \A below : Upper(below, 0) = Upper(0, 0)
  BY TickDataAssumption
<1> HIDE DEF Upper
<1>2. 0 \in T
  <2>1. Eq([d \in 0 .. 0 |-> Upper(0, 0)], 0)
    OBVIOUS
  <2> QED BY <2>1
<1>3. ASSUME NEW m \in Nat, m \in T PROVE m + 1 \in T
  <2>1. PICK g : Eq(g, m)
    BY <1>3
  <2> DEFINE h == [d \in 0 .. m + 1 |-> IF d = 0 THEN g[0] ELSE Upper(g[d - 1], d)]
  <2>2. Eq(h, m + 1)
    BY <2>1
  <2>3. \E f : Eq(f, m + 1)
    <3> HIDE DEF Eq, h
    <3> QED BY <2>2
  <2> QED BY <2>3
<1>4. MaxDepth \in T
  <2> HIDE DEF T
  <2>1. \A m \in Nat : m \in T
    BY <1>2, <1>3, Induction, Zenon
  <2> QED BY <2>1, TickDataAssumption
<1>5. PICK g : Eq(g, MaxDepth)
  BY <1>4
<1> DEFINE f == [d \in 0 .. MaxDepth |-> g[d]]
<1>6. ASSUME NEW d \in 0 .. MaxDepth PROVE f[d] = Upper(f[d - 1], d)
  BY <1>1, <1>5, TickDataAssumption
<1>7. f = [d \in 0 .. MaxDepth |-> Upper(f[d - 1], d)]
  BY <1>6
<1>8. Within = [d \in 0 .. MaxDepth |-> Upper(Within[d - 1], d)]
  BY <1>7, Zenon DEF Within, Upper
<1> DEFINE F == [d \in 0 .. MaxDepth |-> Upper(Within[d - 1], d)]
<1>9. \A d \in 0 .. MaxDepth : F[d] = Upper(Within[d - 1], d)
  OBVIOUS
<1> QED BY <1>8, <1>9, Zenon DEF Upper

LEMMA ReachedEquation ==
  /\ Reached[0] = {<<message, data>>}
  /\ \A k \in 1 .. MaxDepth : Reached[k] =
       UNION {{<<Named(p[1].kids, NamesOf(p[1]), name), Named(p[2].values, p[2].names, name)>> :
                 name \in Range(NamesOf(p[1]))} : p \in Reached[k - 1]}
<1> DEFINE Start == {<<message, data>>}
           On(R) == UNION {{<<Named(p[1].kids, NamesOf(p[1]), name), Named(p[2].values, p[2].names, name)>> :
                              name \in Range(NamesOf(p[1]))} : p \in R}
           Eq(g, m) == g[0] = Start /\ \A k \in 1 .. m : g[k] = On(g[k - 1])
           T == {m \in Nat : \E g : Eq(g, m)}
<1> HIDE DEF Start, On
<1>2. 0 \in T
  <2>1. Eq([k \in 0 .. 0 |-> Start], 0)
    OBVIOUS
  <2> QED BY <2>1
<1>3. ASSUME NEW m \in Nat, m \in T PROVE m + 1 \in T
  <2>1. PICK g : Eq(g, m)
    BY <1>3
  <2> DEFINE h == [k \in 0 .. m + 1 |-> IF k = 0 THEN g[0] ELSE On(g[k - 1])]
  <2>2. Eq(h, m + 1)
    BY <2>1
  <2>3. \E f : Eq(f, m + 1)
    <3> HIDE DEF Eq, h
    <3> QED BY <2>2
  <2> QED BY <2>3
<1>4. MaxDepth \in T
  <2> HIDE DEF T
  <2>1. \A m \in Nat : m \in T
    BY <1>2, <1>3, Induction, Zenon
  <2> QED BY <2>1, TickDataAssumption
<1>5. PICK g : Eq(g, MaxDepth)
  BY <1>4
<1> DEFINE f == [k \in 0 .. MaxDepth |-> g[k]]
<1>6. ASSUME NEW k \in 0 .. MaxDepth PROVE f[k] = IF k = 0 THEN Start ELSE On(f[k - 1])
  BY <1>5, TickDataAssumption
<1>7. f = [k \in 0 .. MaxDepth |-> IF k = 0 THEN Start ELSE On(f[k - 1])]
  BY <1>6
<1>8. Reached = [k \in 0 .. MaxDepth |-> IF k = 0 THEN Start ELSE On(Reached[k - 1])]
  BY <1>7, Zenon DEF Reached, Start, On
<1> DEFINE F == [k \in 0 .. MaxDepth |-> IF k = 0 THEN Start ELSE On(Reached[k - 1])]
<1>9. F[0] = Start /\ \A k \in 1 .. MaxDepth : F[k] = On(Reached[k - 1])
  BY TickDataAssumption
<1> QED BY <1>8, <1>9, Zenon DEF Start, On

-----------------------------------------------------------------------------
(* One element, and one level.                                             *)

\* the classes that eleToArray() chooses convert what they are chosen for
LEMMA ClassesConvert ==
  ASSUME NEW e, e.dt # "DATETIME", VectorClass(e.dt) # "NULL"
  PROVE  EleTo(VectorClass(e.dt), e) = IF e.dt \in {"SEQUENCE", "CHOICE"} THEN Raised
                                       ELSE Vector(VectorClass(e.dt), e.values)
BY DEF EleTo, VectorClass, Converts

\* what an element with values of its own becomes
LEMMA LeafParsed ==
  ASSUME NEW e, e.kids = <<>>, e.values # <<>> => 1 \in DOMAIN e.values
  PROVE  /\ ParseValues(e) = Raised <=> Unreadable(e)
         /\ ParseValues(e) # Raised =>
              IF HasNoValue(e) \/ HasNoVector(e) THEN ParseValues(e) = Null ELSE ShowsValues(ParseValues(e), e)
<1> USE DEF ParseValues, EleToArray, Unreadable, HasNoValue, HasNoVector, ShowsValues
<1>1. VectorClass(e.dt) = "NULL" <=> HasNoVector(e)
  BY DEF VectorClass
<1>2. VectorClass(e.dt) # "raised"
  BY DEF VectorClass
<1>3. CASE HasNoValue(e) \/ HasNoVector(e)
  BY <1>1, <1>3 DEF Null, Raised, Vector, Mixed
<1>4. CASE ~HasNoValue(e) /\ ~HasNoVector(e) /\ e.dt = "DATETIME"
  <2>1. ParseValues(e) = EleToDatetime(e)
    BY <1>1, <1>4
  <2>2. \A class \in {"character", "POSIXct"} : EleTo(class, e) = Vector(class, e.values)
    BY <1>4 DEF EleTo, Converts
  <2>3. EleToDatetime(e) = IF Mixed(e) THEN Raised
                           ELSE Vector(IF \A i \in DOMAIN e.values : e.values[i].dated THEN "POSIXct"
                                       ELSE "character", e.values)
    BY <1>4, <2>2 DEF EleToDatetime, Mixed
  <2> QED BY <1>4, <2>1, <2>3 DEF Raised, Vector
<1>5. CASE ~HasNoValue(e) /\ ~HasNoVector(e) /\ e.dt # "DATETIME"
  BY <1>1, <1>2, <1>5, ClassesConvert DEF Mixed, Raised, Vector
<1> QED BY <1>3, <1>4, <1>5

LEMMA Kids ==
  ASSUME NEW d \in 0 .. MaxDepth, NEW e \in Elements[d], e.kids # <<>>
  PROVE  d - 1 \in 0 .. MaxDepth /\ \A i \in DOMAIN e.kids : e.kids[i] \in Elements[d - 1]
BY TickDataAssumption

\* what an element with others within it becomes
LEMMA TreeParsed ==
  ASSUME NEW d \in 0 .. MaxDepth, NEW e \in Elements[d], e.kids # <<>>
  PROVE  /\ Parse[d][e] = Raised <=> \E i \in DOMAIN e.kids : Parse[d - 1][e.kids[i]] = Raised
         /\ Parse[d][e] # Raised =>
              Parse[d][e] = List(NamesOf(e), [i \in DOMAIN e.kids |-> Parse[d - 1][e.kids[i]]])
<1>1. Parse[d][e] = ParseElement(Parse[d - 1], e)
  BY ParseEquation
<1> QED BY <1>1 DEF ParseElement, List, Raised, Vector

LEMMA LeafAtLevel ==
  ASSUME NEW d \in 0 .. MaxDepth, NEW e \in Elements[d], e.kids = <<>>
  PROVE  Parse[d][e] = ParseValues(e)
<1>1. Parse[d][e] = ParseElement(Parse[d - 1], e)
  BY ParseEquation
<1> QED BY <1>1 DEF ParseElement

-----------------------------------------------------------------------------
(* The level of an element, by induction.                                  *)

\* an exception comes from an element within, and any of them raises it
LEMMA RaisedFromWithin ==
  \A d \in 0 .. MaxDepth : \A e \in Elements[d] :
    Parse[d][e] = Raised <=> \E x \in Within[d][e] : Unreadable(x)
<1> DEFINE P(d) == \A e \in Elements[d] : Parse[d][e] = Raised <=> \E x \in Within[d][e] : Unreadable(x)
           T == {d \in Nat : d <= MaxDepth => P(d)}
<1>1. ASSUME NEW d \in 0 .. MaxDepth, NEW e \in Elements[d], e.kids = <<>>
      PROVE  Parse[d][e] = Raised <=> \E x \in Within[d][e] : Unreadable(x)
  <2>1. Within[d][e] = {e} \cup UNION {Within[d - 1][e.kids[i]] : i \in DOMAIN e.kids}
    BY WithinEquation
  <2>2. DOMAIN e.kids = {}
    BY <1>1
  <2>3. Within[d][e] = {e}
    BY <2>1, <2>2
  <2>4. Parse[d][e] = Raised <=> Unreadable(e)
    BY <1>1, LeafAtLevel, LeafParsed, TickDataAssumption
  <2> QED BY <2>3, <2>4
<1>2. ASSUME NEW d \in 0 .. MaxDepth, NEW e \in Elements[d], e.kids # <<>>, P(d - 1)
      PROVE  Parse[d][e] = Raised <=> \E x \in Within[d][e] : Unreadable(x)
  <2>1. Within[d][e] = {e} \cup UNION {Within[d - 1][e.kids[i]] : i \in DOMAIN e.kids}
    BY WithinEquation
  <2>2. ~Unreadable(e)
    BY <1>2 DEF Unreadable
  <2>3. (\E x \in Within[d][e] : Unreadable(x))
          <=> \E i \in DOMAIN e.kids : \E x \in Within[d - 1][e.kids[i]] : Unreadable(x)
    BY <2>1, <2>2
  <2>4. \A i \in DOMAIN e.kids :
          Parse[d - 1][e.kids[i]] = Raised <=> \E x \in Within[d - 1][e.kids[i]] : Unreadable(x)
    BY <1>2, Kids
  <2>5. Parse[d][e] = Raised <=> \E i \in DOMAIN e.kids : Parse[d - 1][e.kids[i]] = Raised
    BY <1>2, TreeParsed
  <2> QED BY <2>3, <2>4, <2>5
<1>3. 0 \in T
  BY <1>1, TickDataAssumption
<1>4. ASSUME NEW d \in Nat, d \in T PROVE d + 1 \in T
  <2>1. SUFFICES ASSUME d + 1 <= MaxDepth PROVE P(d + 1)
    OBVIOUS
  <2>2. d + 1 \in 0 .. MaxDepth /\ P((d + 1) - 1)
    BY <2>1, <1>4, TickDataAssumption
  <2> QED BY <2>2, <1>1, <1>2
<1>5. \A d \in Nat : d \in T
  <2> HIDE DEF T
  <2> QED BY <1>3, <1>4, Induction, Zenon
<1> QED BY <1>5, TickDataAssumption

\* where k names lead: an element k levels down and what it became
LEMMA ReachedParsed ==
  ASSUME message \in Messages, data = RecursiveParse(message), data # Raised
  PROVE  \A k \in 0 .. MaxDepth : \A p \in Reached[k] :
           /\ p[1] \in Elements[MaxDepth - k]
           /\ p[2] = Parse[MaxDepth - k][p[1]]
           /\ p[2] # Raised
<1> DEFINE Q(k, p) == /\ p[1] \in Elements[MaxDepth - k]
                      /\ p[2] = Parse[MaxDepth - k][p[1]]
                      /\ p[2] # Raised
           T == {k \in Nat : k <= MaxDepth => \A p \in Reached[k] : Q(k, p)}
<1>1. 0 \in T
  BY ReachedEquation, TickDataAssumption DEF RecursiveParse
<1>2. ASSUME NEW k \in Nat, k + 1 <= MaxDepth, NEW p, Q(k, p), NEW name \in Range(NamesOf(p[1]))
      PROVE  Q(k + 1, <<Named(p[1].kids, NamesOf(p[1]), name), Named(p[2].values, p[2].names, name)>>)
  <2> DEFINE e == p[1]
             d == MaxDepth - k
             i == CHOOSE i \in DOMAIN NamesOf(e) : NamesOf(e)[i] = name
  <2>1. d \in 0 .. MaxDepth /\ d - 1 = MaxDepth - (k + 1)
    BY <1>2, TickDataAssumption
  <2>2. i \in DOMAIN e.kids
    BY <1>2 DEF Range, NamesOf
  <2>3. e.kids # <<>>
    BY <2>2
  <2>4. e.kids[i] \in Elements[d - 1]
    BY <1>2, <2>1, <2>2, <2>3, Kids
  <2>5. p[2] = List(NamesOf(e), [j \in DOMAIN e.kids |-> Parse[d - 1][e.kids[j]]])
    BY <1>2, <2>1, <2>3, TreeParsed
  <2>6. Parse[d - 1][e.kids[i]] # Raised
    BY <1>2, <2>1, <2>2, <2>3, TreeParsed
  <2>7. Named(e.kids, NamesOf(e), name) = e.kids[i]
    BY DEF Named
  <2>8. Named(p[2].values, p[2].names, name) = Parse[d - 1][e.kids[i]]
    BY <2>2, <2>5 DEF Named, List
  <2> QED BY <2>1, <2>4, <2>6, <2>7, <2>8
<1>3. ASSUME NEW k \in Nat, k \in T PROVE k + 1 \in T
  <2>1. SUFFICES ASSUME k + 1 <= MaxDepth, NEW q \in Reached[k + 1] PROVE Q(k + 1, q)
    OBVIOUS
  <2>2. Reached[k + 1] =
          UNION {{<<Named(p[1].kids, NamesOf(p[1]), name), Named(p[2].values, p[2].names, name)>> :
                    name \in Range(NamesOf(p[1]))} : p \in Reached[k]}
    <3>1. k + 1 \in 1 .. MaxDepth /\ (k + 1) - 1 = k
      BY <2>1, TickDataAssumption
    <3> QED BY <3>1, ReachedEquation
  <2>3. PICK p \in Reached[k] : \E name \in Range(NamesOf(p[1])) :
          q = <<Named(p[1].kids, NamesOf(p[1]), name), Named(p[2].values, p[2].names, name)>>
    BY <2>1, <2>2
  <2>4. Q(k, p)
    BY <1>3, <2>1, TickDataAssumption
  <2> QED BY <1>2, <2>1, <2>3, <2>4
<1>4. \A k \in Nat : k \in T
  <2> HIDE DEF T
  <2> QED BY <1>1, <1>3, Induction, Zenon
<1> QED BY <1>4, TickDataAssumption

-----------------------------------------------------------------------------
(* The theorems.                                                           *)

Inv == message \in Messages /\ data \in {Waiting, RecursiveParse(message)}

\* The message stays what it was, and the data is nothing or what the code made
\* of it (subscribe.cpp:225).
LEMMA ParsedOnce == Spec => []Inv
<1>1. Init => Inv
  BY DEF Init, Inv
<1>2. Inv /\ [Next]_vars => Inv'
  <2> SUFFICES ASSUME Inv, [Next]_vars PROVE Inv'
    OBVIOUS
  <2>1. CASE ParseData
    BY <2>1 DEF ParseData, Inv
  <2>2. CASE UNCHANGED vars
    BY <2>2 DEF vars, Inv
  <2> QED BY <2>1, <2>2 DEF Next
<1> QED BY <1>1, <1>2, PTL DEF Spec

\* Names lead in the data to what they lead to in the message, whatever the
\* message holds and however deep (subscribe.cpp:147-164).
THEOREM DataCorrect == Spec => []DataFollowsMessage
<1>1. Inv => DataFollowsMessage
  <2> SUFFICES ASSUME Inv, data \notin {Waiting, Raised}, NEW k \in 0 .. MaxDepth, NEW p \in Reached[k]
               PROVE  IF p[1].kids # <<>>
                      THEN /\ p[2].class = "list" /\ p[2].names = NamesOf(p[1])
                           /\ DOMAIN p[2].values = DOMAIN p[1].kids
                      ELSE IF HasNoValue(p[1]) \/ HasNoVector(p[1]) THEN p[2] = Null
                      ELSE ShowsValues(p[2], p[1])
    BY DEF DataFollowsMessage
  <2> DEFINE d == MaxDepth - k
  <2>1. d \in 0 .. MaxDepth
    BY TickDataAssumption
  <2>2. p[1] \in Elements[d] /\ p[2] = Parse[d][p[1]] /\ p[2] # Raised
    BY ReachedParsed DEF Inv
  <2>3. CASE p[1].kids # <<>>
    <3>1. p[2] = List(NamesOf(p[1]), [i \in DOMAIN p[1].kids |-> Parse[d - 1][p[1].kids[i]]])
      BY <2>1, <2>2, <2>3, TreeParsed
    <3> QED BY <2>3, <3>1 DEF List
  <2>4. CASE p[1].kids = <<>>
    <3>1. p[2] = ParseValues(p[1])
      BY <2>1, <2>2, <2>4, LeafAtLevel
    <3>2. p[1].values # <<>> => 1 \in DOMAIN p[1].values
      BY <2>1, <2>2, TickDataAssumption
    <3> QED BY <2>2, <2>4, <3>1, <3>2, LeafParsed
  <2> QED BY <2>3, <2>4
<1> QED BY <1>1, ParsedOnce, PTL

\* A message stops subscribe() just where one of its elements cannot be read, at
\* any depth (subscribe.cpp:92-104, 139-142).
THEOREM TickStopsCorrect == Spec => []TickStops
<1>1. Inv => TickStops
  <2> SUFFICES ASSUME Inv, data # Waiting PROVE data = Raised <=> \E e \in Within[MaxDepth][message] : Unreadable(e)
    BY DEF TickStops
  <2>1. MaxDepth \in 0 .. MaxDepth /\ message \in Elements[MaxDepth]
    BY TickDataAssumption DEF Inv
  <2>2. data = Parse[MaxDepth][message]
    BY DEF Inv, RecursiveParse
  <2> QED BY <2>1, <2>2, RaisedFromWithin
<1> QED BY <1>1, ParsedOnce, PTL
===============================================================================
