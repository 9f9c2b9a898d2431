--------------------------- MODULE ConnectionProofs ---------------------------
(***************************************************************************)
(* Theorems about the handles and the objects behind them, for all bounds. *)
(***************************************************************************)
EXTENDS Connection, FiniteSetTheorems, SequenceTheorems, TLAPS

\* A handle with an address points to a live object of its kind, which was not
\* lost, and will delete it; two handles never point to one object; an object
\* that is live and was not lost has a handle.
HandlesInv ==
  /\ \A h \in DOMAIN handles :
       /\ handles[h].final => handles[h].addr # 0
       /\ handles[h].addr # 0 =>
            /\ handles[h].addr \in DOMAIN objs /\ handles[h].addr \notin lost
            /\ objs[handles[h].addr].live /\ handles[h].final
            /\ objs[handles[h].addr].kind = handles[h].tag
  /\ \A h, g \in DOMAIN handles : handles[h].addr # 0 /\ handles[h].addr = handles[g].addr => h = g
  /\ \A o \in DOMAIN objs : objs[o].live /\ o \notin lost => \E h \in DOMAIN handles : handles[h].addr = o

\* The arguments of a call still point to what it read from them.
FrameOK(f, hs) ==
  /\ f.con # 0 => f.con \in DOMAIN hs /\ hs[f.con].tag = "Session"
  /\ f.id # 0 => f.id \in DOMAIN hs /\ hs[f.id].tag = "Identity"
  /\ f.op = "call" =>
       /\ f.con # 0 /\ f.session # 0 /\ hs[f.con].addr = f.session
       /\ f.identity # 0 => f.id # 0 /\ hs[f.id].addr = f.identity

FramesInv ==
  /\ \A i \in DOMAIN stack : FrameOK(stack[i], handles)
  /\ ~running => stack = <<>>

Inv == TypeOK /\ HandlesInv /\ FramesInv

-----------------------------------------------------------------------------
\* The invariant implies the properties.
LEMMA InvProperties ==
  ASSUME Inv
  PROVE  OneOwner /\ NoUseAfterFree
<1> USE DEF Inv
<1>1. \A o \in DOMAIN objs : o \in Nat /\ o # 0
  BY DEF TypeOK
<1>2. OneOwner
  <2> SUFFICES ASSUME NEW o \in DOMAIN objs
               PROVE  IF objs[o].live /\ o \notin lost
                      THEN \E h \in Holders(o) : /\ Holders(o) = {h} /\ handles[h].final
                                                 /\ handles[h].tag = objs[o].kind
                      ELSE Holders(o) = {}
    BY DEF OneOwner
  <2>1. CASE objs[o].live /\ o \notin lost
    <3>1. PICK h \in DOMAIN handles : handles[h].addr = o
      BY <2>1 DEF HandlesInv
    <3>2. Holders(o) = {h}
      BY <1>1, <3>1 DEF HandlesInv, Holders
    <3>3. handles[h].final /\ handles[h].tag = objs[o].kind
      BY <1>1, <3>1 DEF HandlesInv
    <3> QED BY <2>1, <3>2, <3>3
  <2>2. CASE ~(objs[o].live /\ o \notin lost)
    <3>1. Holders(o) = {}
      BY <1>1, <2>2 DEF HandlesInv, Holders
    <3> QED BY <2>2, <3>1
  <2> QED BY <2>1, <2>2
<1>3. NoUseAfterFree
  <2> SUFFICES ASSUME NEW i \in DOMAIN stack, stack[i].op = "call"
               PROVE  /\ stack[i].session \in DOMAIN objs
                      /\ objs[stack[i].session].live /\ objs[stack[i].session].kind = "Session"
                      /\ stack[i].identity # 0 =>
                           /\ stack[i].identity \in DOMAIN objs
                           /\ objs[stack[i].identity].live /\ objs[stack[i].identity].kind = "Identity"
    BY DEF NoUseAfterFree
  <2>1. FrameOK(stack[i], handles)
    BY DEF FramesInv
  <2> QED BY <2>1 DEF FrameOK, HandlesInv
<1> QED BY <1>2, <1>3

LEMMA InitInv == Init => Inv
<1> SUFFICES ASSUME Init PROVE Inv
  OBVIOUS
<1>1. \A S : <<>> \in Seq(S)
  OBVIOUS
<1>2. DOMAIN objs = {} /\ DOMAIN handles = {} /\ DOMAIN stack = {}
  <2>1. DOMAIN <<>> = 1 .. 0
    <3>1. <<>> \in Seq({}) /\ Len(<<>>) = 0
      OBVIOUS
    <3> QED BY <3>1
  <2> QED BY <2>1 DEF Init
<1>3. TypeOK
  <2>1. objs \in Seq(Obj) /\ handles \in Seq(Handle) /\ stack \in Seq(Frame)
    BY <1>1 DEF Init
  <2>2. Len(handles) \in Nat
    BY <2>1
  <2>3. con \in HandleOrNull /\ blpAuth \in HandleOrNull /\ con = 0 /\ blpAuth = 0
    BY <2>2 DEF Init, HandleOrNull
  <2> QED BY <1>2, <2>1, <2>3 DEF Init, TypeOK
<1>4. HandlesInv /\ FramesInv
  BY <1>2 DEF Init, HandlesInv, FramesInv
<1> QED BY <1>3, <1>4 DEF Inv

-----------------------------------------------------------------------------
(* What may happen to the objects and handles.                             *)

\* the handles that were stay, with their tags; what they point to as well,
\* unless it is deleted
Grows ==
  /\ DOMAIN handles \subseteq DOMAIN handles'
  /\ \A h \in DOMAIN handles : handles'[h].tag = handles[h].tag

Untouched == \A h \in DOMAIN handles : handles'[h].addr = handles[h].addr

HeapType == objs \in Seq(Obj) /\ handles \in Seq(Handle) /\ lost \subseteq DOMAIN objs

LEMMA HeapTypes ==
  ASSUME HeapType
  PROVE  /\ DOMAIN handles = 1 .. Len(handles) /\ Len(handles) \in Nat
         /\ DOMAIN objs = 1 .. Len(objs) /\ Len(objs) \in Nat
         /\ HandleOrNull = 0 .. Len(handles)
         /\ \A h \in DOMAIN handles : handles[h] \in Handle
         /\ \A h \in DOMAIN handles : handles[h].addr \in Nat
<1>1. \A h \in DOMAIN handles : handles[h] \in Handle
  BY DEF HeapType
<1>2. \A h \in DOMAIN handles : handles[h].addr \in Nat
  BY <1>1 DEF Handle
<1>3. /\ DOMAIN handles = 1 .. Len(handles) /\ Len(handles) \in Nat
      /\ DOMAIN objs = 1 .. Len(objs) /\ Len(objs) \in Nat
  BY DEF HeapType
<1> QED BY <1>1, <1>2, <1>3 DEF HandleOrNull

\* a new object with its handle
LEMMA NewStep ==
  ASSUME HeapType, HandlesInv, NEW kind \in Kinds, NEW of \in Nat,
         objs' = Append(objs, [kind |-> kind, of |-> of, live |-> TRUE]),
         NewHandle(kind), UNCHANGED lost
  PROVE  /\ HeapType' /\ HandlesInv' /\ Grows /\ Untouched
         /\ Len(handles') \in DOMAIN handles' /\ Len(handles') # 0
         /\ handles'[Len(handles')].tag = kind
<1> DEFINE n == Len(objs) + 1
           o == [kind |-> kind, of |-> of, live |-> TRUE]
           e == [tag |-> kind, addr |-> n, final |-> TRUE]
<1>1. /\ objs' \in Seq(Obj) /\ Len(objs') = n /\ DOMAIN objs' = 1 .. n /\ n \in Nat /\ n # 0
      /\ DOMAIN objs = 1 .. Len(objs) /\ n \notin DOMAIN objs
      /\ objs'[n] = o /\ \A i \in DOMAIN objs : i \in DOMAIN objs' /\ objs'[i] = objs[i]
  <2>1. o \in Obj
    BY DEF Obj
  <2>2. objs \in Seq(Obj) /\ objs' = Append(objs, o)
    BY DEF HeapType
  <2> HIDE DEF o
  <2> QED BY <2>1, <2>2
<1>2. handles' = Append(handles, e)
  BY <1>1 DEF NewHandle
<1>3. e \in Handle
  BY <1>1 DEF Handle
<1>4. o.kind = kind /\ o.live /\ e.tag = kind /\ e.addr = n /\ e.final
  OBVIOUS
<1> HIDE DEF o, e
<1>5. /\ handles' \in Seq(Handle) /\ Len(handles') = Len(handles) + 1
      /\ DOMAIN handles' = 1 .. Len(handles) + 1
      /\ handles'[Len(handles) + 1] = e /\ \A h \in DOMAIN handles : handles'[h] = handles[h]
      /\ Len(handles) \in Nat /\ DOMAIN handles = 1 .. Len(handles)
  BY <1>2, <1>3 DEF HeapType
<1>6. \A h \in DOMAIN handles' : h \in DOMAIN handles \/ h = Len(handles) + 1
  BY <1>5
<1>7. HeapType'
  BY <1>1, <1>5 DEF HeapType
<1>8. \A h \in DOMAIN handles : handles[h].addr # n
  BY <1>1 DEF HandlesInv
<1>9. n \notin lost
  BY <1>1 DEF HeapType
<1>10. \A h \in DOMAIN handles' :
         /\ handles'[h].final => handles'[h].addr # 0
         /\ handles'[h].addr # 0 =>
              /\ handles'[h].addr \in DOMAIN objs' /\ handles'[h].addr \notin lost'
              /\ objs'[handles'[h].addr].live /\ handles'[h].final
              /\ objs'[handles'[h].addr].kind = handles'[h].tag
  <2> SUFFICES ASSUME NEW h \in DOMAIN handles'
               PROVE  /\ handles'[h].final => handles'[h].addr # 0
                      /\ handles'[h].addr # 0 =>
                           /\ handles'[h].addr \in DOMAIN objs' /\ handles'[h].addr \notin lost'
                           /\ objs'[handles'[h].addr].live /\ handles'[h].final
                           /\ objs'[handles'[h].addr].kind = handles'[h].tag
    OBVIOUS
  <2>1. CASE h \in DOMAIN handles
    BY <1>1, <1>5, <2>1 DEF HandlesInv
  <2>2. CASE h = Len(handles) + 1
    BY <1>1, <1>4, <1>5, <1>9, <2>2
  <2> QED BY <1>6, <2>1, <2>2
<1>11. \A h, g \in DOMAIN handles' : handles'[h].addr # 0 /\ handles'[h].addr = handles'[g].addr => h = g
  BY <1>4, <1>5, <1>6, <1>8 DEF HandlesInv
<1>12. \A i \in DOMAIN objs' : objs'[i].live /\ i \notin lost' => \E h \in DOMAIN handles' : handles'[h].addr = i
  <2> SUFFICES ASSUME NEW i \in DOMAIN objs', objs'[i].live, i \notin lost'
               PROVE  \E h \in DOMAIN handles' : handles'[h].addr = i
    OBVIOUS
  <2>1. CASE i = n
    <3>1. Len(handles) + 1 \in DOMAIN handles' /\ handles'[Len(handles) + 1].addr = i
      BY <1>4, <1>5, <2>1
    <3> QED BY <3>1
  <2>2. CASE i # n
    <3>1. i \in DOMAIN objs /\ objs[i].live
      BY <1>1, <2>2
    <3>2. PICK h \in DOMAIN handles : handles[h].addr = i
      BY <3>1 DEF HandlesInv
    <3> QED BY <1>5, <3>2
  <2> QED BY <2>1, <2>2
<1>13. HandlesInv'
  BY <1>10, <1>11, <1>12 DEF HandlesInv
<1>14. Grows /\ Untouched
  BY <1>5 DEF Grows, Untouched
<1> QED BY <1>4, <1>5, <1>7, <1>13, <1>14

\* an object nothing points to
LEMMA LoseStep ==
  ASSUME HeapType, HandlesInv, NEW kind \in Kinds, NEW of \in Nat, Lose(kind, of)
  PROVE  HeapType' /\ HandlesInv' /\ Grows /\ Untouched
<1> DEFINE o == [kind |-> kind, of |-> of, live |-> TRUE]
<1>1. /\ objs' = Append(objs, o) /\ UNCHANGED handles /\ lost' = lost \cup {Len(objs) + 1}
      /\ o \in Obj /\ objs \in Seq(Obj)
  BY DEF Lose, Obj, HeapType
<1> HIDE DEF o
<1>2. /\ objs' \in Seq(Obj) /\ DOMAIN objs' = 1 .. Len(objs) + 1 /\ Len(objs) \in Nat
      /\ DOMAIN objs = 1 .. Len(objs)
      /\ \A i \in DOMAIN objs : i \in DOMAIN objs' /\ objs'[i] = objs[i] /\ i # Len(objs) + 1
  BY <1>1
<1>3. \A i \in DOMAIN objs' : i \in DOMAIN objs \/ i = Len(objs) + 1
  BY <1>2
<1>4. HeapType'
  BY <1>1, <1>2 DEF HeapType
<1>5. HandlesInv'
  BY <1>1, <1>2, <1>3 DEF HandlesInv
<1> QED BY <1>1, <1>4, <1>5 DEF Grows, Untouched

\* a finalizer
LEMMA DeleteStep ==
  ASSUME HeapType, HandlesInv, NEW h \in DOMAIN handles, handles[h].final, Delete(h), UNCHANGED lost
  PROVE  /\ HeapType' /\ HandlesInv' /\ Grows
         /\ \A g \in DOMAIN handles \ {h} : handles'[g].addr = handles[g].addr
<1> DEFINE o == handles[h].addr
<1>1. o # 0 /\ o \in DOMAIN objs
  BY DEF HandlesInv
<1>2. /\ objs' \in Seq(Obj) /\ DOMAIN objs' = DOMAIN objs
      /\ \A i \in DOMAIN objs : /\ objs'[i].kind = objs[i].kind
                                /\ i # o => objs'[i] = objs[i]
                                /\ i = o => ~objs'[i].live
  <2>1. objs[o] \in Obj
    BY <1>1 DEF HeapType
  <2>2. [objs[o] EXCEPT !.live = FALSE] \in Obj /\ [objs[o] EXCEPT !.live = FALSE].kind = objs[o].kind
        /\ [objs[o] EXCEPT !.live = FALSE].live = FALSE
    BY <2>1 DEF Obj
  <2>3. objs' = [objs EXCEPT ![o] = [objs[o] EXCEPT !.live = FALSE]]
    BY DEF Delete
  <2> QED BY <1>1, <2>2, <2>3 DEF HeapType
<1>3. /\ handles' \in Seq(Handle) /\ DOMAIN handles' = DOMAIN handles
      /\ \A g \in DOMAIN handles : /\ g # h => handles'[g] = handles[g]
                                   /\ handles'[g].tag = handles[g].tag
      /\ handles'[h].addr = 0 /\ ~handles'[h].final
  <2>1. handles[h] \in Handle
    BY DEF HeapType
  <2> DEFINE e == [handles[h] EXCEPT !.addr = 0, !.final = FALSE]
  <2>2. e \in Handle /\ e.tag = handles[h].tag /\ e.addr = 0 /\ e.final = FALSE
    BY <2>1 DEF Handle
  <2>3. handles' = [handles EXCEPT ![h] = e]
    BY DEF Delete
  <2> HIDE DEF e
  <2> QED BY <2>2, <2>3 DEF HeapType
<1>4. HeapType'
  BY <1>2, <1>3 DEF HeapType
<1>5. \A g \in DOMAIN handles : g # h => handles[g].addr # o
  BY <1>1 DEF HandlesInv
<1>6. HandlesInv'
  <2>1. \A g \in DOMAIN handles' :
         /\ handles'[g].final => handles'[g].addr # 0
         /\ handles'[g].addr # 0 =>
              /\ handles'[g].addr \in DOMAIN objs' /\ handles'[g].addr \notin lost'
              /\ objs'[handles'[g].addr].live /\ handles'[g].final
              /\ objs'[handles'[g].addr].kind = handles'[g].tag
    BY <1>2, <1>3, <1>5, SMTT(20) DEF HandlesInv
  <2>2. \A f, g \in DOMAIN handles' : handles'[f].addr # 0 /\ handles'[f].addr = handles'[g].addr => f = g
    BY <1>3 DEF HandlesInv
  <2>3. \A i \in DOMAIN objs' : objs'[i].live /\ i \notin lost' => \E g \in DOMAIN handles' : handles'[g].addr = i
    <3> SUFFICES ASSUME NEW i \in DOMAIN objs, objs'[i].live, i \notin lost
                 PROVE  \E g \in DOMAIN handles' : handles'[g].addr = i
      BY <1>2
    <3>1. i # o /\ objs[i].live
      BY <1>2
    <3>2. PICK g \in DOMAIN handles : handles[g].addr = i
      BY <3>1 DEF HandlesInv
    <3> QED BY <1>3, <3>1, <3>2
  <2> QED BY <2>1, <2>2, <2>3 DEF HandlesInv
<1> QED BY <1>3, <1>4, <1>6 DEF Grows

\* a handle read back from a file
LEMMA RestoreStep ==
  ASSUME HeapType, HandlesInv, NEW h \in DOMAIN handles, Restore(h)
  PROVE  /\ HeapType' /\ HandlesInv' /\ Grows /\ Untouched
         /\ Len(handles') \in DOMAIN handles'
<1> DEFINE e == [tag |-> handles[h].tag, addr |-> 0, final |-> FALSE]
<1>1. handles[h] \in Handle
  BY DEF HeapType
<1>2. /\ handles' = Append(handles, e) /\ UNCHANGED <<objs, lost>> /\ e \in Handle
      /\ e.addr = 0 /\ ~e.final
  BY <1>1 DEF Restore, Handle
<1> HIDE DEF e
<1>3. /\ handles' \in Seq(Handle) /\ Len(handles') = Len(handles) + 1
      /\ DOMAIN handles' = 1 .. Len(handles) + 1
      /\ handles'[Len(handles) + 1] = e /\ \A g \in DOMAIN handles : handles'[g] = handles[g]
      /\ Len(handles) \in Nat /\ DOMAIN handles = 1 .. Len(handles)
  BY <1>2 DEF HeapType
<1>4. \A g \in DOMAIN handles' : g \in DOMAIN handles \/ g = Len(handles) + 1
  BY <1>3
<1>5. \A g \in DOMAIN handles : g \in DOMAIN handles'
  BY <1>3
<1>6. HandlesInv'
  BY <1>2, <1>3, <1>4, <1>5 DEF HandlesInv
<1> QED BY <1>2, <1>3, <1>5, <1>6 DEF HeapType, Grows, Untouched

-----------------------------------------------------------------------------
(* The handles of the defaults, the variables and the calls.               *)

\* a handle that may be stored as the default connection or identity
Default(h, tag, hs) == h = 0 \/ (h \in DOMAIN hs /\ hs[h].tag = tag)

\* what a step has to show beside what it does to the objects
LEMMA Together ==
  ASSUME HeapType', HandlesInv',
         held' \subseteq DOMAIN handles',
         Default(con', "Session", handles'), Default(blpAuth', "Identity", handles'),
         stack' \in Seq(Frame), \A i \in DOMAIN stack' : FrameOK(stack'[i], handles'),
         attached' \in BOOLEAN, running' \in BOOLEAN, ~running' => stack' = <<>>
  PROVE  Inv'
<1>1. /\ DOMAIN handles' = 1 .. Len(handles') /\ Len(handles') \in Nat
      /\ HandleOrNull' = 0 .. Len(handles')
  BY DEF HeapType, HandleOrNull
<1>2. con' \in HandleOrNull' /\ blpAuth' \in HandleOrNull'
  BY <1>1 DEF Default
<1>3. \A i \in DOMAIN stack' : stack'[i].con \in HandleOrNull' /\ stack'[i].id \in HandleOrNull'
  <2> SUFFICES ASSUME NEW i \in DOMAIN stack'
               PROVE  stack'[i].con \in HandleOrNull' /\ stack'[i].id \in HandleOrNull'
    OBVIOUS
  <2>1. FrameOK(stack'[i], handles')
    OBVIOUS
  <2> QED BY <1>1, <2>1 DEF FrameOK
<1>4. con' # 0 => handles'[con'].tag = "Session"
  BY DEF Default
<1>5. blpAuth' # 0 => handles'[blpAuth'].tag = "Identity"
  BY DEF Default
<1>6. TypeOK'
  BY <1>2, <1>3, <1>4, <1>5 DEF TypeOK, HeapType
<1>7. FramesInv'
  BY DEF FramesInv
<1> QED BY <1>6, <1>7 DEF Inv

\* what the invariant says of them
LEMMA Apart ==
  ASSUME Inv
  PROVE  /\ HeapType /\ HandlesInv
         /\ held \subseteq DOMAIN handles
         /\ Default(con, "Session", handles) /\ Default(blpAuth, "Identity", handles)
         /\ stack \in Seq(Frame) /\ \A i \in DOMAIN stack : FrameOK(stack[i], handles)
         /\ attached \in BOOLEAN /\ running \in BOOLEAN /\ (~running => stack = <<>>)
         /\ stack # <<>> => running
<1>1. HeapType
  BY DEF Inv, TypeOK, HeapType
<1>2. DOMAIN handles = 1 .. Len(handles) /\ Len(handles) \in Nat /\ HandleOrNull = 0 .. Len(handles)
  BY <1>1, HeapTypes
<1>3. Default(con, "Session", handles)
  BY <1>2 DEF Inv, TypeOK, Default
<1>4. Default(blpAuth, "Identity", handles)
  BY <1>2 DEF Inv, TypeOK, Default
<1> QED BY <1>1, <1>3, <1>4 DEF Inv, TypeOK, FramesInv

\* a step that deletes nothing keeps the defaults and the calls
LEMMA GrowthKeeps ==
  ASSUME Inv, Grows, Untouched
  PROVE  /\ held \subseteq DOMAIN handles'
         /\ Default(con, "Session", handles') /\ Default(blpAuth, "Identity", handles')
         /\ \A i \in DOMAIN stack : FrameOK(stack[i], handles')
<1>1. held \subseteq DOMAIN handles'
  BY Apart DEF Grows
<1>2. Default(con, "Session", handles') /\ Default(blpAuth, "Identity", handles')
  BY Apart DEF Grows, Default
<1>3. ASSUME NEW i \in DOMAIN stack PROVE FrameOK(stack[i], handles')
  <2>1. FrameOK(stack[i], handles)
    BY Apart
  <2> QED BY <2>1 DEF FrameOK, Grows, Untouched
<1> QED BY <1>1, <1>2, <1>3

\* nothing happens to the objects and handles
LEMMA SameHeap ==
  ASSUME Inv, UNCHANGED <<objs, handles, lost>>
  PROVE  HeapType' /\ HandlesInv' /\ Grows /\ Untouched
BY DEF Inv, TypeOK, HeapType, HandlesInv, Grows, Untouched

-----------------------------------------------------------------------------
(* The stack of calls.                                                     *)

\* returning keeps every frame but the last
LEMMA ReturnStack ==
  ASSUME stack \in Seq(Frame), stack # <<>>, Return
  PROVE  /\ stack' \in Seq(Frame)
         /\ \A i \in DOMAIN stack' : i \in DOMAIN stack /\ stack'[i] = stack[i]
<1>1. Len(stack) - 1 \in Nat /\ DOMAIN stack = 1 .. Len(stack)
  OBVIOUS
<1>2. \A i \in 1 .. Len(stack) - 1 : stack[i] \in Frame
  BY <1>1
<1>3. /\ stack' \in Seq(Frame)
      /\ Len(stack') = Len(stack) - 1
      /\ \A i \in 1 .. Len(stack) - 1 : stack'[i] = stack[i]
  BY <1>1, <1>2, SubSeqProperties DEF Return
<1> QED BY <1>1, <1>3

LEMMA SetTopStack ==
  ASSUME stack \in Seq(Frame), stack # <<>>, NEW f \in Frame, SetTop(f)
  PROVE  /\ stack' \in Seq(Frame)
         /\ \A i \in DOMAIN stack' : (i \in DOMAIN stack /\ stack'[i] = stack[i]) \/ stack'[i] = f
BY DEF SetTop

LEMMA PushStack ==
  ASSUME stack \in Seq(Frame), NEW f \in Frame, stack' = Append(stack, f)
  PROVE  /\ stack' \in Seq(Frame)
         /\ \A i \in DOMAIN stack' : (i \in DOMAIN stack /\ stack'[i] = stack[i]) \/ stack'[i] = f
OBVIOUS

\* the innermost call, or .onAttach()
LEMMA TopFrame ==
  ASSUME Inv, stack # <<>>
  PROVE  Top \in Frame /\ FrameOK(Top, handles)
<1>1. Len(stack) \in DOMAIN stack /\ stack[Len(stack)] \in Frame
  BY DEF Inv, TypeOK
<1> QED BY <1>1 DEF Inv, FramesInv, Top

-----------------------------------------------------------------------------
(* The steps.                                                              *)

LEMMA StartStep ==
  ASSUME Inv, Start
  PROVE  /\ HeapType' /\ HandlesInv' /\ Grows /\ Untouched
         /\ Len(handles') \in DOMAIN handles' /\ Len(handles') # 0
         /\ handles'[Len(handles')].tag = "Session"
<1>1. /\ objs' = Append(objs, [kind |-> "Session", of |-> 0, live |-> TRUE])
      /\ NewHandle("Session") /\ UNCHANGED lost
  BY DEF Start
<1>2. HeapType /\ HandlesInv
  BY Apart
<1>3. "Session" \in Kinds /\ 0 \in Nat
  BY DEF Kinds
<1> QED BY <1>1, <1>2, <1>3, NewStep

LEMMA AuthorizeStep ==
  ASSUME Inv, NEW h, Default(h, "Session", handles), Authorize(h)
  PROVE  /\ HeapType' /\ HandlesInv' /\ Grows /\ Untouched
         /\ Len(handles') \in DOMAIN handles' /\ Len(handles') # 0
         /\ handles'[Len(handles')].tag = "Identity"
<1>1. /\ objs' = Append(objs, [kind |-> "Identity", of |-> handles[h].addr, live |-> TRUE])
      /\ NewHandle("Identity") /\ UNCHANGED lost /\ h # 0
  BY DEF Authorize, CheckPointer
<1>2. HeapType /\ HandlesInv
  BY Apart
<1>3. "Identity" \in Kinds
  BY DEF Kinds
<1>4. handles[h].addr \in Nat
  BY <1>1, <1>2, HeapTypes DEF Default
<1> QED BY <1>1, <1>2, <1>3, <1>4, NewStep

LEMMA LostStep ==
  ASSUME Inv, NEW h, Default(h, "Session", handles), CheckPointer(h, "Session"),
         Lose("Identity", handles[h].addr)
  PROVE  HeapType' /\ HandlesInv' /\ Grows /\ Untouched
<1>1. HeapType /\ HandlesInv
  BY Apart
<1>2. handles[h].addr \in Nat
  BY <1>1, HeapTypes DEF Default, CheckPointer
<1>3. "Identity" \in Kinds
  BY DEF Kinds
<1> QED BY <1>1, <1>2, <1>3, LoseStep

LEMMA LostSession ==
  ASSUME Inv, Lose("Session", 0)
  PROVE  HeapType' /\ HandlesInv' /\ Grows /\ Untouched
<1>1. "Session" \in Kinds /\ 0 \in Nat
  BY DEF Kinds
<1> QED BY <1>1, Apart, LoseStep

LEMMA BlpConnectInv ==
  ASSUME Inv, NEW default \in BOOLEAN, BlpConnect(default)
  PROVE  Inv'
<1>1. InR /\ UNCHANGED <<blpAuth, stack, attached, running>>
  BY DEF BlpConnect
<1>2. CASE Start /\ con' = (IF default THEN Len(handles') ELSE con)
           /\ held' \in {held, held \cup {Len(handles')}}
  <2>1. /\ HeapType' /\ HandlesInv' /\ Grows /\ Untouched
        /\ Len(handles') \in DOMAIN handles' /\ Len(handles') # 0
        /\ handles'[Len(handles')].tag = "Session"
    BY <1>2, StartStep
  <2>2. held' \subseteq DOMAIN handles'
    BY <1>2, <2>1, GrowthKeeps
  <2>3. Default(con', "Session", handles')
    BY <1>2, <2>1, GrowthKeeps DEF Default
  <2> QED BY <1>1, <2>1, <2>2, <2>3, Apart, GrowthKeeps, Together
<1>3. CASE Lose("Session", 0) /\ UNCHANGED <<con, held>>
  <2>1. HeapType' /\ HandlesInv' /\ Grows /\ Untouched
    BY <1>3, LostSession
  <2> QED BY <1>1, <1>3, <2>1, Apart, GrowthKeeps, Together
<1> QED BY <1>2, <1>3 DEF BlpConnect

LEMMA BlpAuthenticateInv ==
  ASSUME Inv, NEW h \in held \cup {con}, NEW default \in BOOLEAN, BlpAuthenticate(h, default)
  PROVE  Inv'
<1>1. InR /\ UNCHANGED <<con, stack, attached, running>>
  BY DEF BlpAuthenticate
<1>2. CheckPointer(h, "Session")
  BY DEF BlpAuthenticate, Authorize
<1>3. Default(h, "Session", handles)
  BY <1>2, Apart DEF Default, CheckPointer
<1>4. CASE Authorize(h) /\ blpAuth' = (IF default THEN Len(handles') ELSE blpAuth)
           /\ held' \in {held, held \cup {Len(handles')}}
  <2>1. /\ HeapType' /\ HandlesInv' /\ Grows /\ Untouched
        /\ Len(handles') \in DOMAIN handles' /\ Len(handles') # 0
        /\ handles'[Len(handles')].tag = "Identity"
    BY <1>3, <1>4, AuthorizeStep
  <2>2. held' \subseteq DOMAIN handles'
    BY <1>4, <2>1, GrowthKeeps
  <2>3. Default(blpAuth', "Identity", handles')
    BY <1>4, <2>1, GrowthKeeps DEF Default
  <2> QED BY <1>1, <2>1, <2>2, <2>3, Apart, GrowthKeeps, Together
<1>5. CASE Lose("Identity", handles[h].addr) /\ UNCHANGED <<blpAuth, held>>
  <2>1. HeapType' /\ HandlesInv' /\ Grows /\ Untouched
    BY <1>2, <1>3, <1>5, LostStep
  <2> QED BY <1>1, <1>5, <2>1, Apart, GrowthKeeps, Together
<1> QED BY <1>4, <1>5 DEF BlpAuthenticate

LEMMA CallInv ==
  ASSUME Inv, NEW h \in held \cup {con}, NEW id \in held \cup {blpAuth, 0}, Call(h, id)
  PROVE  Inv'
<1> DEFINE f == [op |-> "call", con |-> h, id |-> id, session |-> handles[h].addr,
                 identity |-> IF id = 0 THEN 0 ELSE handles[id].addr]
<1>1. /\ CheckPointer(h, "Session") /\ (id # 0 => CheckPointer(id, "Identity"))
      /\ stack' = Append(stack, f) /\ running
      /\ UNCHANGED <<objs, handles, held, con, blpAuth, attached, running, lost>>
  BY DEF Call, InR
<1>2. h \in DOMAIN handles /\ (id # 0 => id \in DOMAIN handles)
  BY <1>1, Apart DEF Default, CheckPointer
<1>3. /\ DOMAIN handles = 1 .. Len(handles) /\ Len(handles) \in Nat
      /\ handles[h].addr \in Nat /\ (id # 0 => handles[id].addr \in Nat)
  BY <1>2, Apart, HeapTypes
<1>4. f \in Frame
  BY <1>2, <1>3 DEF Frame
<1>5. FrameOK(f, handles)
  BY <1>1, <1>2, <1>3 DEF FrameOK, CheckPointer
<1> HIDE DEF f
<1>6. stack' \in Seq(Frame) /\ \A i \in DOMAIN stack' : (i \in DOMAIN stack /\ stack'[i] = stack[i]) \/ stack'[i] = f
  BY <1>1, <1>4, Apart, PushStack
<1>7. \A i \in DOMAIN stack' : FrameOK(stack'[i], handles')
  BY <1>1, <1>5, <1>6, Apart
<1> QED BY <1>1, <1>6, <1>7, Apart, SameHeap, Together

\* a call ends and nothing else happens to the calls; the defaults and the
\* variables are those there were, or good ones
LEMMA ReturnInv ==
  ASSUME Inv, stack # <<>>, Return, HeapType', HandlesInv', Grows, Untouched,
         UNCHANGED <<held, running>>, attached' \in BOOLEAN,
         Default(con', "Session", handles'), Default(blpAuth', "Identity", handles')
  PROVE  Inv'
<1>1. /\ stack' \in Seq(Frame)
      /\ \A i \in DOMAIN stack' : i \in DOMAIN stack /\ stack'[i] = stack[i]
  BY Apart, ReturnStack
<1>2. \A i \in DOMAIN stack' : FrameOK(stack'[i], handles')
  BY <1>1, GrowthKeeps
<1> QED BY <1>1, <1>2, Apart, GrowthKeeps, Together

\* the same for a step of .onAttach()
LEMMA AdvanceInv ==
  ASSUME Inv, stack # <<>>, HeapType', HandlesInv', Grows, Untouched,
         NEW f \in Frame, SetTop(f), FrameOK(f, handles'),
         UNCHANGED <<held, attached, running>>,
         Default(con', "Session", handles'), Default(blpAuth', "Identity", handles')
  PROVE  Inv'
<1>1. /\ stack' \in Seq(Frame)
      /\ \A i \in DOMAIN stack' : (i \in DOMAIN stack /\ stack'[i] = stack[i]) \/ stack'[i] = f
  BY Apart, SetTopStack
<1>2. \A i \in DOMAIN stack' : FrameOK(stack'[i], handles')
  BY <1>1, GrowthKeeps
<1> QED BY <1>1, <1>2, Apart, GrowthKeeps, Together

LEMMA UserInv ==
  ASSUME Inv, UserStep
  PROVE  Inv'
<1>1. ASSUME NEW default \in BOOLEAN, BlpConnect(default) PROVE Inv'
  BY <1>1, BlpConnectInv
<1>2. ASSUME NEW h \in held \cup {con}, NEW default \in BOOLEAN, BlpAuthenticate(h, default) PROVE Inv'
  BY <1>2, BlpAuthenticateInv
<1>3. ASSUME NEW h \in held \cup {con}, NEW id \in held \cup {blpAuth, 0}, Call(h, id) PROVE Inv'
  BY <1>3, CallInv
<1>4. CASE CallEnds
  <2>1. /\ stack # <<>> /\ Return
        /\ UNCHANGED <<objs, handles, held, con, blpAuth, attached, running, lost>>
    BY <1>4 DEF CallEnds
  <2> QED BY <2>1, Apart, SameHeap, ReturnInv
<1>5. ASSUME NEW h \in held, Drop(h) PROVE Inv'
  <2>1. held' \subseteq held /\ UNCHANGED <<objs, handles, con, blpAuth, stack, attached, running, lost>>
    BY <1>5 DEF Drop
  <2> QED BY <2>1, Apart, SameHeap, Together
<1>6. ASSUME NEW h \in held, Restore(h) PROVE Inv'
  <2>1. held' = held \cup {Len(handles')} /\ UNCHANGED <<objs, con, blpAuth, stack, attached, running, lost>>
    BY <1>6 DEF Restore
  <2>2. HeapType' /\ HandlesInv' /\ Grows /\ Untouched /\ Len(handles') \in DOMAIN handles'
    BY <1>6, Apart, RestoreStep
  <2> QED BY <2>1, <2>2, Apart, GrowthKeeps, Together
<1>7. CASE Keep(con) \/ Keep(blpAuth)
  <2>1. PICK h \in {con, blpAuth} : Keep(h)
    BY <1>7
  <2>2. h # 0 /\ held' = held \cup {h} /\ UNCHANGED <<objs, handles, con, blpAuth, stack, attached, running, lost>>
    BY <2>1 DEF Keep
  <2>3. h \in DOMAIN handles
    BY <2>1, <2>2, Apart DEF Default
  <2> QED BY <2>2, <2>3, Apart, SameHeap, Together
<1>8. CASE Attach
  <2> DEFINE f == [op |-> "connect", con |-> 0, id |-> 0, session |-> 0, identity |-> 0]
  <2>1. stack' = Append(stack, f) /\ running /\ UNCHANGED <<objs, handles, held, con, blpAuth, attached, running, lost>>
    BY <1>8 DEF Attach, InR
  <2>2. f \in Frame /\ FrameOK(f, handles)
    BY DEF Frame, FrameOK
  <2> HIDE DEF f
  <2>3. stack' \in Seq(Frame) /\ \A i \in DOMAIN stack' : (i \in DOMAIN stack /\ stack'[i] = stack[i]) \/ stack'[i] = f
    BY <2>1, <2>2, Apart, PushStack
  <2>4. \A i \in DOMAIN stack' : FrameOK(stack'[i], handles')
    BY <2>1, <2>2, <2>3, Apart
  <2> QED BY <2>1, <2>3, <2>4, Apart, SameHeap, Together
<1>9. CASE Detach \/ Unload
  <2>1. /\ UNCHANGED <<objs, handles, held, stack, running, lost>> /\ attached' \in BOOLEAN
        /\ con' \in {con, 0} /\ blpAuth' \in {blpAuth, 0}
    BY <1>9 DEF Detach, Unload
  <2>2. Default(con', "Session", handles') /\ Default(blpAuth', "Identity", handles')
    BY <2>1, Apart DEF Default
  <2> QED BY <2>1, <2>2, Apart, SameHeap, Together
<1> QED BY <1>1, <1>2, <1>3, <1>4, <1>5, <1>6, <1>7, <1>8, <1>9 DEF UserStep

LEMMA AttachInv ==
  ASSUME Inv, AttachStep
  PROVE  Inv'
<1>1. stack # <<>> /\ UNCHANGED <<held, running>>
  BY DEF AttachStep, AttachConnect, AttachAuth, AttachAssign, Attaching
<1>2. Top \in Frame /\ FrameOK(Top, handles)
  BY <1>1, TopFrame
<1>3. CASE AttachConnect
  <2>1. UNCHANGED <<blpAuth, attached>> /\ Top.op = "connect"
    BY <1>3 DEF AttachConnect, Attaching
  <2>2. CASE Start /\ con' = Len(handles') /\ SetTop([Top EXCEPT !.op = "auth", !.con = Len(handles')])
    <3> DEFINE f == [Top EXCEPT !.op = "auth", !.con = Len(handles')]
    <3>1. /\ HeapType' /\ HandlesInv' /\ Grows /\ Untouched
          /\ Len(handles') \in DOMAIN handles' /\ Len(handles') # 0
          /\ handles'[Len(handles')].tag = "Session"
      BY <2>2, StartStep
    <3>2. Len(handles') \in Nat
      BY <3>1 DEF HeapType
    <3>3. f \in Frame
      BY <1>2, <3>2 DEF Frame
    <3>4. f.op = "auth" /\ f.con = Len(handles') /\ f.id = Top.id
      BY <1>2 DEF Frame
    <3> HIDE DEF f
    <3>5. FrameOK(f, handles')
      BY <1>2, <3>1, <3>4 DEF FrameOK, Grows
    <3>6. Default(con', "Session", handles')
      BY <2>2, <3>1 DEF Default
    <3>7. SetTop(f)
      BY <2>2 DEF f
    <3> QED BY <1>1, <2>1, <3>1, <3>3, <3>5, <3>6, <3>7, GrowthKeeps, AdvanceInv
  <2>3. CASE SetTop([Top EXCEPT !.op = "auth"]) /\ UNCHANGED <<objs, handles, lost, con>>
    <3> DEFINE f == [Top EXCEPT !.op = "auth"]
    <3>1. f \in Frame /\ f.op = "auth" /\ f.con = Top.con /\ f.id = Top.id
      BY <1>2 DEF Frame
    <3> HIDE DEF f
    <3>2. FrameOK(f, handles')
      BY <1>2, <2>3, <3>1 DEF FrameOK
    <3>3. SetTop(f)
      BY <2>3 DEF f
    <3> QED BY <1>1, <2>1, <2>3, <3>1, <3>2, <3>3, Apart, SameHeap, AdvanceInv
  <2>4. CASE Lose("Session", 0) /\ Return /\ UNCHANGED con
    <3>1. HeapType' /\ HandlesInv' /\ Grows /\ Untouched
      BY <2>4, LostSession
    <3>2. attached' \in BOOLEAN
      BY <2>1, Apart
    <3> QED BY <1>1, <2>1, <2>4, <3>1, <3>2, GrowthKeeps, ReturnInv
  <2> QED BY <1>3, <2>2, <2>3, <2>4 DEF AttachConnect
<1>4. CASE AttachAuth
  <2>1. UNCHANGED <<con, attached>> /\ Top.op = "auth"
    BY <1>4 DEF AttachAuth, Attaching
  <2>2. CASE Authorize(con) /\ blpAuth' = Len(handles') /\ SetTop([Top EXCEPT !.op = "assign", !.id = Len(handles')])
    <3> DEFINE f == [Top EXCEPT !.op = "assign", !.id = Len(handles')]
    <3>1. /\ HeapType' /\ HandlesInv' /\ Grows /\ Untouched
          /\ Len(handles') \in DOMAIN handles' /\ Len(handles') # 0
          /\ handles'[Len(handles')].tag = "Identity"
      BY <2>2, Apart, AuthorizeStep
    <3>2. Len(handles') \in Nat
      BY <3>1 DEF HeapType
    <3>3. f \in Frame
      BY <1>2, <3>2 DEF Frame
    <3>4. f.op = "assign" /\ f.con = Top.con /\ f.id = Len(handles')
      BY <1>2 DEF Frame
    <3> HIDE DEF f
    <3>5. FrameOK(f, handles')
      BY <1>2, <3>1, <3>4 DEF FrameOK, Grows
    <3>6. Default(blpAuth', "Identity", handles')
      BY <2>2, <3>1 DEF Default
    <3>7. SetTop(f)
      BY <2>2 DEF f
    <3> QED BY <1>1, <2>1, <3>1, <3>3, <3>5, <3>6, <3>7, GrowthKeeps, AdvanceInv
  <2>3. CASE SetTop([Top EXCEPT !.op = "assign"]) /\ UNCHANGED <<objs, handles, lost, blpAuth>>
    <3> DEFINE f == [Top EXCEPT !.op = "assign"]
    <3>1. f \in Frame /\ f.op = "assign" /\ f.con = Top.con /\ f.id = Top.id
      BY <1>2 DEF Frame
    <3> HIDE DEF f
    <3>2. FrameOK(f, handles')
      BY <1>2, <2>3, <3>1 DEF FrameOK
    <3>3. SetTop(f)
      BY <2>3 DEF f
    <3> QED BY <1>1, <2>1, <2>3, <3>1, <3>2, <3>3, Apart, SameHeap, AdvanceInv
  <2>4. CASE CheckPointer(con, "Session") /\ Lose("Identity", handles[con].addr) /\ Return /\ UNCHANGED blpAuth
    <3>1. HeapType' /\ HandlesInv' /\ Grows /\ Untouched
      BY <2>4, Apart, LostStep
    <3>2. attached' \in BOOLEAN
      BY <2>1, Apart
    <3> QED BY <1>1, <2>1, <2>4, <3>1, <3>2, GrowthKeeps, ReturnInv
  <2>5. CASE Return /\ UNCHANGED <<objs, handles, lost, blpAuth>>
    <3>1. attached' \in BOOLEAN
      BY <2>1, Apart
    <3> QED BY <1>1, <2>1, <2>5, <3>1, Apart, SameHeap, ReturnInv
  <2> QED BY <1>4, <2>2, <2>3, <2>4, <2>5 DEF AttachAuth
<1>5. CASE AttachAssign
  <2>1. /\ con' = Top.con /\ blpAuth' = Top.id /\ Return
        /\ UNCHANGED <<objs, handles, lost>> /\ attached' \in BOOLEAN
    BY <1>5 DEF AttachAssign
  <2>2. Default(con', "Session", handles') /\ Default(blpAuth', "Identity", handles')
    BY <1>2, <2>1 DEF FrameOK, Default
  <2> QED BY <1>1, <2>1, <2>2, SameHeap, ReturnInv
<1> QED BY <1>3, <1>4, <1>5 DEF AttachStep

\* what is not reachable is not an argument of a running call
LEMMA FinalizeInv ==
  ASSUME Inv, NEW h \in DOMAIN handles, Finalize(h)
  PROVE  Inv'
<1>1. /\ handles[h].final /\ (h \notin Reachable \/ ~running) /\ Delete(h)
      /\ UNCHANGED <<held, con, blpAuth, stack, attached, running, lost>>
  BY DEF Finalize
<1>2. /\ HeapType' /\ HandlesInv' /\ Grows
      /\ \A g \in DOMAIN handles \ {h} : handles'[g].addr = handles[g].addr
  BY <1>1, Apart, DeleteStep
<1>3. held' \subseteq DOMAIN handles'
  BY <1>1, <1>2, Apart DEF Grows
<1>4. Default(con', "Session", handles') /\ Default(blpAuth', "Identity", handles')
  BY <1>1, <1>2, Apart DEF Grows, Default
<1>5. ASSUME NEW i \in DOMAIN stack PROVE FrameOK(stack[i], handles')
  <2>1. FrameOK(stack[i], handles)
    BY Apart
  <2>2. stack # <<>>
    BY Apart
  <2>3. h \notin Reachable
    BY <1>1, <2>2, Apart
  <2>4. h # 0
    BY Apart, HeapTypes
  <2>5. stack[i].con # h /\ stack[i].id # h
    BY <2>3, <2>4 DEF Reachable
  <2> QED BY <1>2, <2>1, <2>5 DEF FrameOK, Grows
<1> QED BY <1>1, <1>2, <1>3, <1>4, <1>5, Apart, Together

LEMMA ExitInv ==
  ASSUME Inv, Exit
  PROVE  Inv'
<1>1. /\ UNCHANGED <<objs, handles, held, con, blpAuth, attached, lost>>
      /\ stack' = <<>> /\ running' = FALSE
  BY DEF Exit
<1>2. stack' \in Seq(Frame) /\ DOMAIN stack' = {}
  <2>1. \A S : <<>> \in Seq(S)
    OBVIOUS
  <2>2. DOMAIN <<>> = {}
    <3>1. <<>> \in Seq({}) /\ Len(<<>>) = 0
      OBVIOUS
    <3> QED BY <3>1
  <2> QED BY <1>1, <2>1, <2>2
<1> QED BY <1>1, <1>2, Apart, SameHeap, Together

\* The inductive invariant: every handle that has an address owns a live
\* object, and the running calls hold handles that still do.
THEOREM InvCorrect == Spec => []Inv
<1>1. Inv /\ [Next]_vars => Inv'
  <2> SUFFICES ASSUME Inv, [Next]_vars PROVE Inv'
    OBVIOUS
  <2>1. CASE UserStep
    BY <2>1, UserInv
  <2>2. CASE AttachStep
    BY <2>2, AttachInv
  <2>3. CASE RStep
    BY <2>3, FinalizeInv, ExitInv DEF RStep
  <2>4. CASE UNCHANGED vars
    <3>1. UNCHANGED <<objs, handles, held, con, blpAuth, stack, attached, running, lost>>
      BY <2>4 DEF vars
    <3> QED BY <3>1, Apart, SameHeap, Together
  <2> QED BY <2>1, <2>2, <2>3, <2>4 DEF Next
<1> QED BY <1>1, InitInv, PTL DEF Spec

\* Every reachable state of the handles, the defaults and the calls is well
\* typed; a default connection is a session, a default identity an identity.
THEOREM ConnectionTypes == Spec => []TypeOK
<1>1. Inv => TypeOK
  BY DEF Inv
<1> QED BY <1>1, InvCorrect, PTL

\* A live object has one handle that will delete it, unless its start or its
\* authorization failed; a deleted one has none.
THEOREM OneOwnerCorrect == Spec => []OneOwner
<1>1. Inv => OneOwner
  BY InvProperties
<1> QED BY <1>1, InvCorrect, PTL

\* The raw pointers of a running call stay valid, whatever its callback does.
THEOREM NoUseAfterFreeCorrect == Spec => []NoUseAfterFree
<1>1. Inv => NoUseAfterFree
  BY InvProperties
<1> QED BY <1>1, InvCorrect, PTL

-----------------------------------------------------------------------------
(* Attaching the package.                                                  *)

\* What .onAttach() has so far: its connection, if it made one, is the default,
\* and its identity, which nothing has deleted, is of the default connection.
Loading(f, c, hs, os) ==
  /\ f.op = "connect" => f.con = 0 /\ f.id = 0
  /\ f.op = "auth" => f.id = 0 /\ f.con \in {0, c}
  /\ f.op = "assign" =>
       /\ f.con \in {0, c}
       /\ f.id # 0 => hs[f.id].addr # 0 /\ c # 0 /\ os[hs[f.id].addr].of = hs[c].addr

\* The user's code runs only in calls, and .onAttach() makes none.
LoadInv ==
  \A i \in DOMAIN stack : IF i < Len(stack) THEN stack[i].op = "call"
                                            ELSE Loading(stack[i], con, handles, objs)

LEMMA CallsBelow ==
  ASSUME Inv, LoadInv, InR
  PROVE  \A i \in DOMAIN stack : stack[i].op = "call"
<1> SUFFICES ASSUME NEW i \in DOMAIN stack PROVE stack[i].op = "call"
  OBVIOUS
<1>1. stack \in Seq(Frame) /\ DOMAIN stack = 1 .. Len(stack) /\ Len(stack) \in Nat
  BY Apart
<1>2. stack # <<>>
  BY <1>1
<1>3. Top.op = "call"
  BY <1>2 DEF InR
<1>4. i < Len(stack) \/ i = Len(stack)
  BY <1>1
<1> QED BY <1>3, <1>4 DEF LoadInv, Top

LEMMA OnlyCalls ==
  ASSUME \A i \in DOMAIN stack' : stack'[i].op = "call"
  PROVE  LoadInv'
BY DEF LoadInv, Loading

\* when a frame is gone, those that are left are calls
LEMMA ReturnLoad ==
  ASSUME Inv, LoadInv, stack # <<>>, Return
  PROVE  LoadInv'
<1>1. stack \in Seq(Frame) /\ DOMAIN stack = 1 .. Len(stack) /\ Len(stack) \in Nat
  BY Apart
<1>2. Len(stack) - 1 \in Nat /\ \A i \in 1 .. Len(stack) - 1 : stack[i] \in Frame
  BY <1>1
<1>3. stack' \in Seq(Frame) /\ Len(stack') = Len(stack) - 1
      /\ \A i \in 1 .. Len(stack) - 1 : stack'[i] = stack[i]
  BY <1>1, <1>2, SubSeqProperties DEF Return
<1>4. DOMAIN stack' = 1 .. Len(stack) - 1
  BY <1>3
<1>5. ASSUME NEW i \in DOMAIN stack' PROVE stack'[i].op = "call"
  <2>1. i \in DOMAIN stack /\ i < Len(stack) /\ stack'[i] = stack[i]
    BY <1>1, <1>3, <1>4
  <2> QED BY <2>1 DEF LoadInv
<1> QED BY <1>5, OnlyCalls

\* a step of .onAttach() changes its own frame
LEMMA AdvanceLoad ==
  ASSUME Inv, LoadInv, stack # <<>>, NEW f \in Frame, SetTop(f), Loading(f, con', handles', objs')
  PROVE  LoadInv'
<1>1. stack \in Seq(Frame) /\ Len(stack) \in DOMAIN stack
  BY Apart
<1>2. /\ DOMAIN stack' = DOMAIN stack /\ Len(stack') = Len(stack)
      /\ \A i \in DOMAIN stack : stack'[i] = IF i = Len(stack) THEN f ELSE stack[i]
  BY <1>1 DEF SetTop
<1>3. \A i \in DOMAIN stack : i < Len(stack) \/ i = Len(stack)
  BY <1>1
<1>4. \A i \in DOMAIN stack : i < Len(stack) => i # Len(stack) /\ stack[i].op = "call"
  BY <1>1 DEF LoadInv
<1>5. \A i \in DOMAIN stack' : IF i < Len(stack') THEN stack'[i].op = "call"
                                                  ELSE Loading(stack'[i], con', handles', objs')
  BY <1>2, <1>3, <1>4
<1> QED BY <1>5 DEF LoadInv

\* the frame of .onAttach()
LEMMA TopLoad ==
  ASSUME Inv, LoadInv, stack # <<>>
  PROVE  Loading(Top, con, handles, objs)
<1>1. Len(stack) \in DOMAIN stack /\ ~(Len(stack) < Len(stack))
  BY Apart
<1> QED BY <1>1 DEF LoadInv, Top

\* the identity that was made for a connection is of it
LEMMA AuthorizeOf ==
  ASSUME Inv, Authorize(con)
  PROVE  /\ con # 0 /\ handles'[Len(handles')].addr # 0
         /\ objs'[handles'[Len(handles')].addr].of = handles[con].addr
         /\ handles'[con].addr = handles[con].addr
<1> DEFINE o == [kind |-> "Identity", of |-> handles[con].addr, live |-> TRUE]
           e == [tag |-> "Identity", addr |-> Len(objs'), final |-> TRUE]
<1>1. /\ objs' = Append(objs, o) /\ handles' = Append(handles, e)
      /\ con # 0 /\ o.of = handles[con].addr /\ e.addr = Len(objs')
  BY DEF Authorize, CheckPointer, NewHandle
<1>2. objs \in Seq(Obj) /\ handles \in Seq(Handle) /\ con \in DOMAIN handles
  BY <1>1, Apart DEF Default, HeapType
<1>3. handles[con].addr \in Nat
  BY <1>2, Apart, HeapTypes
<1>4. o \in Obj
  BY <1>3 DEF Obj, Kinds
<1> HIDE DEF o
<1>5. objs' \in Seq(Obj) /\ Len(objs') = Len(objs) + 1 /\ Len(objs) \in Nat /\ objs'[Len(objs')] = o
  BY <1>1, <1>2, <1>4
<1>6. e \in Handle
  BY <1>5 DEF Handle, Kinds
<1> HIDE DEF e
<1>7. handles'[Len(handles')] = e /\ handles'[con] = handles[con]
  BY <1>1, <1>2, <1>6
<1> QED BY <1>1, <1>5, <1>7

LEMMA FinalizeLoad ==
  ASSUME Inv, LoadInv, NEW h \in DOMAIN handles, Finalize(h)
  PROVE  LoadInv'
<1>1. /\ handles[h].final /\ (h \notin Reachable \/ ~running) /\ Delete(h)
      /\ UNCHANGED <<held, con, blpAuth, stack, attached, running, lost>>
  BY DEF Finalize
<1>2. \A g \in DOMAIN handles \ {h} : handles'[g].addr = handles[g].addr
  BY <1>1, Apart, DeleteStep
<1>3. \A o \in DOMAIN objs : objs'[o].of = objs[o].of
  <2> SUFFICES ASSUME NEW o \in DOMAIN objs PROVE objs'[o].of = objs[o].of
    OBVIOUS
  <2>1. objs \in Seq(Obj) /\ handles[h].addr \in DOMAIN objs
    BY <1>1, Apart DEF HeapType, HandlesInv
  <2>2. objs[o] \in Obj
    BY <2>1
  <2>3. [objs[o] EXCEPT !.live = FALSE].of = objs[o].of
    BY <2>2 DEF Obj
  <2>4. objs'[o] = IF o = handles[h].addr THEN [objs[o] EXCEPT !.live = FALSE] ELSE objs[o]
    BY <1>1, <2>1 DEF Delete
  <2> QED BY <2>3, <2>4
<1>4. ASSUME NEW i \in DOMAIN stack, Loading(stack[i], con, handles, objs)
      PROVE  Loading(stack[i], con', handles', objs')
  <2> DEFINE f == stack[i]
  <2>1. stack # <<>> /\ FrameOK(f, handles)
    BY Apart
  <2>2. h \notin Reachable /\ h # 0
    BY <1>1, <2>1, Apart, HeapTypes
  <2>3. con # h /\ f.id # h
    BY <2>2 DEF Reachable
  <2>4. /\ con # 0 => handles'[con].addr = handles[con].addr
        /\ f.id # 0 => /\ handles'[f.id].addr = handles[f.id].addr
                       /\ handles[f.id].addr # 0 => handles[f.id].addr \in DOMAIN objs
    BY <1>2, <2>1, <2>3, Apart DEF FrameOK, HandlesInv, Default
  <2> HIDE DEF f
  <2>5. Loading(f, con, handles, objs)
    BY <1>4 DEF f
  <2>6. Loading(f, con', handles', objs')
    BY <1>1, <1>3, <2>4, <2>5 DEF Loading
  <2> QED BY <2>6 DEF f
<1> QED BY <1>1, <1>4 DEF LoadInv

LEMMA AttachLoad ==
  ASSUME Inv, LoadInv, AttachStep
  PROVE  LoadInv'
<1>1. stack # <<>>
  BY DEF AttachStep, AttachConnect, AttachAuth, AttachAssign, Attaching
<1>2. Top \in Frame /\ Loading(Top, con, handles, objs)
  BY <1>1, TopFrame, TopLoad
<1>3. CASE Return
  BY <1>1, <1>3, ReturnLoad
<1>4. CASE AttachConnect /\ ~Return
  <2>1. Top.op = "connect" /\ Top.con = 0 /\ Top.id = 0
    BY <1>2, <1>4 DEF AttachConnect, Attaching, Loading
  <2>2. CASE Start /\ con' = Len(handles') /\ SetTop([Top EXCEPT !.op = "auth", !.con = Len(handles')])
    <3> DEFINE f == [Top EXCEPT !.op = "auth", !.con = Len(handles')]
    <3>1. HeapType' /\ Len(handles') \in Nat
      BY <2>2, StartStep DEF HeapType
    <3>2. f \in Frame /\ f.op = "auth" /\ f.con = con' /\ f.id = 0
      BY <1>2, <2>1, <2>2, <3>1 DEF Frame
    <3>3. Loading(f, con', handles', objs')
      BY <3>2 DEF Loading
    <3>4. SetTop(f)
      BY <2>2
    <3> HIDE DEF f
    <3> QED BY <1>1, <3>2, <3>3, <3>4, AdvanceLoad
  <2>3. CASE SetTop([Top EXCEPT !.op = "auth"])
    <3> DEFINE f == [Top EXCEPT !.op = "auth"]
    <3>1. f \in Frame /\ f.op = "auth" /\ f.con = 0 /\ f.id = 0
      BY <1>2, <2>1 DEF Frame
    <3>2. Loading(f, con', handles', objs')
      BY <3>1 DEF Loading
    <3>3. SetTop(f)
      BY <2>3
    <3> HIDE DEF f
    <3> QED BY <1>1, <3>1, <3>2, <3>3, AdvanceLoad
  <2> QED BY <1>4, <2>2, <2>3 DEF AttachConnect
<1>5. CASE AttachAuth /\ ~Return
  <2>1. Top.op = "auth" /\ Top.id = 0 /\ Top.con \in {0, con} /\ con' = con
    BY <1>2, <1>5 DEF AttachAuth, Attaching, Loading
  <2>2. CASE Authorize(con) /\ SetTop([Top EXCEPT !.op = "assign", !.id = Len(handles')])
    <3> DEFINE f == [Top EXCEPT !.op = "assign", !.id = Len(handles')]
    <3>1. Len(handles') \in Nat
      BY <2>2, Apart, AuthorizeStep DEF HeapType
    <3>2. f \in Frame /\ f.op = "assign" /\ f.con = Top.con /\ f.id = Len(handles')
      BY <1>2, <3>1 DEF Frame
    <3>3. SetTop(f)
      BY <2>2
    <3> HIDE DEF f
    <3>4. Loading(f, con', handles', objs')
      BY <2>1, <2>2, <3>2, AuthorizeOf DEF Loading
    <3> QED BY <1>1, <3>2, <3>3, <3>4, AdvanceLoad
  <2>3. CASE SetTop([Top EXCEPT !.op = "assign"])
    <3> DEFINE f == [Top EXCEPT !.op = "assign"]
    <3>1. f \in Frame /\ f.op = "assign" /\ f.con = Top.con /\ f.id = 0
      BY <1>2, <2>1 DEF Frame
    <3>2. Loading(f, con', handles', objs')
      BY <2>1, <3>1 DEF Loading
    <3>3. SetTop(f)
      BY <2>3
    <3> HIDE DEF f
    <3> QED BY <1>1, <3>1, <3>2, <3>3, AdvanceLoad
  <2> QED BY <1>5, <2>2, <2>3 DEF AttachAuth
<1>6. AttachAssign => Return
  BY DEF AttachAssign
<1> QED BY <1>3, <1>4, <1>5, <1>6 DEF AttachStep

\* a step of the user's code: it runs in a call, and starts or ends one
LEMMA UserLoad ==
  ASSUME Inv, LoadInv, UserStep
  PROVE  LoadInv'
<1>1. InR
  BY DEF UserStep, BlpConnect, BlpAuthenticate, Call, CallEnds, Drop, Restore, Keep, Attach, Detach, Unload
<1>2. \A i \in DOMAIN stack : stack[i].op = "call"
  BY <1>1, CallsBelow
<1>3. CASE UNCHANGED stack
  BY <1>2, <1>3, OnlyCalls
<1>4. ASSUME NEW h \in held \cup {con}, NEW id \in held \cup {blpAuth, 0}, Call(h, id) PROVE LoadInv'
  <2> DEFINE f == [op |-> "call", con |-> h, id |-> id, session |-> handles[h].addr,
                   identity |-> IF id = 0 THEN 0 ELSE handles[id].addr]
  <2>1. stack' = Append(stack, f) /\ f.op = "call" /\ stack \in Seq(Frame)
    BY <1>4, Apart DEF Call
  <2> HIDE DEF f
  <2>2. \A i \in DOMAIN stack' : (i \in DOMAIN stack /\ stack'[i] = stack[i]) \/ stack'[i] = f
    BY <2>1
  <2> QED BY <1>2, <2>1, <2>2, OnlyCalls
<1>5. CASE CallEnds
  BY <1>5, ReturnLoad DEF CallEnds
<1>6. CASE Attach
  <2> DEFINE f == [op |-> "connect", con |-> 0, id |-> 0, session |-> 0, identity |-> 0]
  <2>1. /\ stack' = Append(stack, f) /\ f \in Frame /\ f.op = "connect" /\ f.con = 0 /\ f.id = 0
        /\ stack \in Seq(Frame)
    BY <1>6, Apart DEF Attach, Frame
  <2>2. Loading(f, con', handles', objs')
    BY <2>1 DEF Loading
  <2> HIDE DEF f
  <2>3. Len(stack') = Len(stack) + 1 /\ Len(stack) \in Nat /\ stack'[Len(stack) + 1] = f
        /\ DOMAIN stack' = 1 .. Len(stack) + 1 /\ DOMAIN stack = 1 .. Len(stack)
        /\ \A i \in DOMAIN stack : stack'[i] = stack[i]
    BY <2>1
  <2>4. ASSUME NEW i \in DOMAIN stack'
        PROVE  IF i < Len(stack') THEN stack'[i].op = "call" ELSE Loading(stack'[i], con', handles', objs')
    <3>1. CASE i \in DOMAIN stack
      <4>1. stack'[i].op = "call" /\ i < Len(stack')
        BY <1>2, <2>3, <3>1
      <4> QED BY <4>1
    <3>2. CASE i \notin DOMAIN stack
      <4>1. i = Len(stack') /\ ~(i < Len(stack')) /\ stack'[i] = f
        BY <2>3, <3>2
      <4> QED BY <2>2, <4>1
    <3> QED BY <3>1, <3>2
  <2> QED BY <2>4 DEF LoadInv
<1> QED BY <1>3, <1>4, <1>5, <1>6
        DEF UserStep, BlpConnect, BlpAuthenticate, Drop, Restore, Keep, Detach, Unload

LEMMA LoadCorrect == Spec => []LoadInv
<1>1. Init => LoadInv
  <2> SUFFICES ASSUME Init PROVE LoadInv
    OBVIOUS
  <2>1. DOMAIN stack = {}
    <3>1. stack \in Seq({}) /\ Len(stack) = 0
      BY DEF Init
    <3> QED BY <3>1
  <2> QED BY <2>1 DEF LoadInv
<1>2. Inv /\ LoadInv /\ [Next]_vars => LoadInv'
  <2> SUFFICES ASSUME Inv, LoadInv, [Next]_vars PROVE LoadInv'
    OBVIOUS
  <2>1. CASE UserStep
    BY <2>1, UserLoad
  <2>2. CASE AttachStep
    BY <2>2, AttachLoad
  <2>3. ASSUME NEW h \in DOMAIN handles, Finalize(h) PROVE LoadInv'
    BY <2>3, FinalizeLoad
  <2>4. CASE Exit
    <3>1. stack' = <<>>
      BY <2>4 DEF Exit
    <3>2. DOMAIN stack' = {}
      <4>1. stack' \in Seq({}) /\ Len(stack') = 0
        BY <3>1
      <4> QED BY <4>1
    <3> QED BY <3>2, OnlyCalls
  <2>5. CASE UNCHANGED vars
    BY <2>5 DEF vars, LoadInv
  <2> QED BY <2>1, <2>2, <2>3, <2>4, <2>5 DEF Next, RStep
<1> QED BY <1>1, <1>2, InvCorrect, PTL DEF Spec

\* The default identity that attaching the package leaves is of the connection
\* that was the default at its end, which stays the default or is dropped,
\* whatever the defaults were before and the finalizers did.
THEOREM AttachFreshCorrect == Spec => AttachFresh
<1>1. Inv /\ LoadInv /\ [Next]_vars =>
        [attached' /\ ~attached /\ blpAuth' # 0 =>
           /\ con # 0 /\ objs[handles[blpAuth'].addr].of = handles[con].addr
           /\ con' \in {con, 0}]_vars
  <2> SUFFICES ASSUME Inv, LoadInv, [Next]_vars, attached', ~attached, blpAuth' # 0
               PROVE  /\ con # 0 /\ objs[handles[blpAuth'].addr].of = handles[con].addr
                      /\ con' \in {con, 0}
    OBVIOUS
  <2>1. AttachAssign
    BY DEF Next, UserStep, AttachStep, RStep, BlpConnect, BlpAuthenticate, Call, CallEnds, Drop, Restore,
           Keep, Attach, Detach, Unload, AttachConnect, AttachAuth, Finalize, Exit, vars
  <2>2. /\ stack # <<>> /\ Top.op = "assign"
        /\ con' = Top.con /\ blpAuth' = Top.id /\ UNCHANGED <<objs, handles>>
    BY <2>1 DEF AttachAssign, Attaching
  <2>3. Loading(Top, con, handles, objs)
    BY <2>2, TopLoad
  <2> QED BY <2>2, <2>3 DEF Loading
<1> QED BY <1>1, InvCorrect, LoadCorrect, PTL DEF Spec, AttachFresh

-----------------------------------------------------------------------------
(* An identity and the connection it is of.                                *)

\* An identity was made after its connection.
OfInv == \A o \in DOMAIN objs : objs[o].of < o

\* a new object is of one that was there
LEMMA OfGrows ==
  ASSUME HeapType, OfInv, NEW o \in Obj, o.of <= Len(objs), objs' = Append(objs, o)
  PROVE  /\ OfInv' /\ Len(objs') = Len(objs) + 1 /\ Len(objs) \in Nat
         /\ DOMAIN objs = 1 .. Len(objs)
         /\ \A i \in DOMAIN objs : objs'[i] = objs[i]
<1>1. objs \in Seq(Obj) /\ Len(objs) \in Nat /\ o.of \in Nat
  BY DEF HeapType, Obj
<1>2. /\ Len(objs') = Len(objs) + 1 /\ DOMAIN objs' = 1 .. Len(objs) + 1
      /\ DOMAIN objs = 1 .. Len(objs) /\ objs'[Len(objs) + 1] = o
      /\ \A i \in DOMAIN objs : objs'[i] = objs[i]
  BY <1>1
<1>3. \A i \in DOMAIN objs' : i \in DOMAIN objs \/ i = Len(objs) + 1
  BY <1>1, <1>2
<1>4. o.of < Len(objs) + 1
  BY <1>1
<1> QED BY <1>1, <1>2, <1>3, <1>4 DEF OfInv

\* what steps do to the objects that are there
LEMMA OfStep ==
  ASSUME Inv, OfInv, [Next]_vars
  PROVE  /\ OfInv' /\ DOMAIN objs \subseteq DOMAIN objs'
         /\ \A i \in DOMAIN objs : objs'[i].of = objs[i].of
<1> DEFINE Kept == \A i \in DOMAIN objs : i \in DOMAIN objs' /\ objs'[i].of = objs[i].of
<1>0. HeapType /\ HandlesInv /\ objs \in Seq(Obj) /\ Len(objs) \in Nat
  BY Apart DEF HeapType
<1>1. ASSUME NEW o \in Obj, o.of <= Len(objs), objs' = Append(objs, o) PROVE OfInv' /\ Kept
  <2>1. DOMAIN objs' = 1 .. Len(objs) + 1
    BY <1>0, <1>1
  <2> QED BY <1>0, <1>1, <2>1, OfGrows
<1>2. ASSUME NEW a \in Nat, a <= Len(objs), NEW k \in Kinds,
             objs' = Append(objs, [kind |-> k, of |-> a, live |-> TRUE])
      PROVE  OfInv' /\ Kept
  <2> DEFINE o == [kind |-> k, of |-> a, live |-> TRUE]
  <2>1. o \in Obj /\ o.of <= Len(objs) /\ objs' = Append(objs, o)
    BY <1>2 DEF Obj
  <2> HIDE DEF o
  <2> QED BY <1>1, <2>1
<1>3. CASE Start
  <2>1. objs' = Append(objs, [kind |-> "Session", of |-> 0, live |-> TRUE])
    BY <1>3 DEF Start
  <2>2. "Session" \in Kinds /\ 0 <= Len(objs)
    BY <1>0 DEF Kinds
  <2> QED BY <1>2, <2>1, <2>2
<1>4. CASE Lose("Session", 0)
  <2>1. objs' = Append(objs, [kind |-> "Session", of |-> 0, live |-> TRUE])
    BY <1>4 DEF Lose
  <2>2. "Session" \in Kinds /\ 0 <= Len(objs)
    BY <1>0 DEF Kinds
  <2> QED BY <1>2, <2>1, <2>2
<1>5. ASSUME NEW h \in held \cup {con}, CheckPointer(h, "Session"),
             Authorize(h) \/ Lose("Identity", handles[h].addr)
      PROVE  OfInv' /\ Kept
  <2>1. h \in DOMAIN handles /\ handles[h].addr # 0
    BY <1>5, Apart DEF CheckPointer, Default
  <2>2. handles[h].addr \in Nat /\ handles[h].addr <= Len(objs)
    BY <1>0, <2>1, HeapTypes DEF HandlesInv
  <2>3. objs' = Append(objs, [kind |-> "Identity", of |-> handles[h].addr, live |-> TRUE])
    BY <1>5 DEF Authorize, Lose
  <2>4. "Identity" \in Kinds
    BY DEF Kinds
  <2> QED BY <1>2, <2>2, <2>3, <2>4
<1>6. ASSUME NEW h \in DOMAIN handles, Finalize(h) PROVE OfInv' /\ Kept
  <2>1. /\ handles[h].addr \in DOMAIN objs
        /\ objs' = [objs EXCEPT ![handles[h].addr].live = FALSE]
    BY <1>0, <1>6 DEF Finalize, Delete, HandlesInv
  <2>2. objs[handles[h].addr] \in Obj
    BY <1>0, <2>1
  <2>3. [objs[handles[h].addr] EXCEPT !.live = FALSE].of = objs[handles[h].addr].of
    BY <2>2 DEF Obj
  <2>4. DOMAIN objs' = DOMAIN objs /\ \A i \in DOMAIN objs : objs'[i].of = objs[i].of
    BY <2>1, <2>3
  <2> QED BY <2>4 DEF OfInv
<1>7. CASE UNCHANGED objs
  BY <1>7 DEF OfInv
<1>8. CASE UserStep
  BY <1>3, <1>4, <1>5, <1>7, <1>8
     DEF UserStep, BlpConnect, BlpAuthenticate, Authorize, Call, CallEnds, Drop, Restore, Keep, Attach, Detach, Unload
<1>9. CASE AttachStep
  BY <1>3, <1>4, <1>5, <1>7, <1>9
     DEF AttachStep, AttachConnect, AttachAuth, AttachAssign, Authorize
<1>10. OfInv' /\ Kept
  BY <1>6, <1>7, <1>8, <1>9 DEF Next, RStep, Exit, vars
<1> QED BY <1>10

\* while R runs the defaults keep what they point to
LEMMA DefaultsKept ==
  ASSUME Inv, [Next]_vars, running', NEW h \in {con, blpAuth}, h # 0
  PROVE  h \in DOMAIN handles /\ handles'[h].addr = handles[h].addr
<1>1. h \in DOMAIN handles /\ h \in Reachable
  BY Apart DEF Default, Reachable
<1>2. CASE Grows /\ Untouched
  BY <1>1, <1>2 DEF Untouched
<1>3. ASSUME NEW g \in DOMAIN handles, Finalize(g) PROVE handles'[h].addr = handles[h].addr
  <2>1. /\ handles[g].final /\ Delete(g) /\ UNCHANGED lost
        /\ running' = running /\ (g \notin Reachable \/ ~running)
    BY <1>3 DEF Finalize
  <2>2. g # h
    <3>1. running
      BY <2>1
    <3>2. g \notin Reachable
      BY <2>1, <3>1
    <3> QED BY <1>1, <3>2
  <2> QED BY <1>1, <2>1, <2>2, Apart, DeleteStep
<1>4. CASE UNCHANGED handles
  BY <1>1, <1>4
<1>5. ASSUME NEW g \in held \cup {con}, Authorize(g) PROVE Grows /\ Untouched
  <2>1. Default(g, "Session", handles)
    BY <1>5, Apart DEF Authorize, CheckPointer, Default
  <2> QED BY <1>5, <2>1, AuthorizeStep
<1>6. ASSUME NEW g \in held, Restore(g) PROVE Grows /\ Untouched
  BY <1>6, Apart, RestoreStep
<1>7. CASE UserStep
  BY <1>2, <1>4, <1>5, <1>6, <1>7, StartStep
     DEF UserStep, BlpConnect, BlpAuthenticate, Lose, Call, CallEnds, Drop, Keep, Attach, Detach, Unload
<1>8. CASE AttachStep
  BY <1>2, <1>4, <1>5, <1>8, StartStep
     DEF AttachStep, AttachConnect, AttachAuth, AttachAssign, Lose
<1> QED BY <1>1, <1>3, <1>4, <1>7, <1>8 DEF Next, RStep, Exit, vars

\* what becomes the default connection is new
LEMMA NewConnection ==
  ASSUME Inv, LoadInv, [Next]_vars, con' # 0, con' # con
  PROVE  handles'[con'].addr = Len(objs) + 1
<1>1. CASE Start /\ con' = Len(handles')
  <2> DEFINE e == [tag |-> "Session", addr |-> Len(objs'), final |-> TRUE]
  <2>1. /\ objs' = Append(objs, [kind |-> "Session", of |-> 0, live |-> TRUE])
        /\ handles' = Append(handles, e)
    BY <1>1 DEF Start, NewHandle
  <2>2. objs \in Seq(Obj) /\ handles \in Seq(Handle)
    BY Apart DEF HeapType
  <2>3. Len(objs') = Len(objs) + 1
    BY <2>1, <2>2
  <2>4. e.addr = Len(objs) + 1
    BY <2>3
  <2> HIDE DEF e
  <2>5. handles'[Len(handles')] = e
    BY <2>1, <2>2
  <2> QED BY <1>1, <2>4, <2>5
<1>2. CASE UserStep
  BY <1>1, <1>2
     DEF UserStep, BlpConnect, BlpAuthenticate, Call, CallEnds, Drop, Restore, Keep, Attach, Detach, Unload
<1>3. ASSUME AttachAssign PROVE FALSE
  <2>1. stack # <<>> /\ Top.op = "assign" /\ con' = Top.con
    BY <1>3 DEF AttachAssign, Attaching
  <2>2. Loading(Top, con, handles, objs)
    BY <2>1, TopLoad
  <2> QED BY <2>1, <2>2 DEF Loading
<1>4. CASE AttachStep
  BY <1>1, <1>3, <1>4 DEF AttachStep, AttachConnect, AttachAuth
<1> QED BY <1>2, <1>4 DEF Next, RStep, Finalize, Exit, vars

\* While R runs the default identity is there.
ThereInv == running /\ blpAuth # 0 => handles[blpAuth].addr # 0

LEMMA ThereStep ==
  ASSUME Inv, LoadInv, ThereInv, [Next]_vars
  PROVE  ThereInv'
<1> SUFFICES ASSUME running', blpAuth' # 0 PROVE handles'[blpAuth'].addr # 0
  BY DEF ThereInv
<1>0. running
  BY DEF Next, UserStep, AttachStep, RStep, BlpConnect, BlpAuthenticate, Call, CallEnds, Drop, Restore,
         Keep, Attach, Detach, Unload, AttachConnect, AttachAuth, AttachAssign, Finalize, Exit, vars
<1>1. CASE blpAuth' = blpAuth
  BY <1>0, <1>1, DefaultsKept DEF ThereInv
<1>2. ASSUME NEW h, Authorize(h), blpAuth' = Len(handles') PROVE handles'[blpAuth'].addr # 0
  <2> DEFINE e == [tag |-> "Identity", addr |-> Len(objs'), final |-> TRUE]
             o == [kind |-> "Identity", of |-> handles[h].addr, live |-> TRUE]
  <2>1. handles' = Append(handles, e) /\ objs' = Append(objs, o)
    BY <1>2 DEF Authorize, NewHandle
  <2>2. objs \in Seq(Obj) /\ handles \in Seq(Handle)
    BY Apart DEF HeapType
  <2> HIDE DEF o
  <2>3. Len(objs') = Len(objs) + 1 /\ Len(objs) \in Nat
    BY <2>1, <2>2
  <2>4. e.addr # 0
    BY <2>3
  <2> HIDE DEF e
  <2>5. handles'[Len(handles')] = e
    BY <2>1, <2>2
  <2> QED BY <1>2, <2>4, <2>5
<1>3. CASE AttachAssign
  <2>1. stack # <<>> /\ Top.op = "assign" /\ blpAuth' = Top.id /\ UNCHANGED handles
    BY <1>3 DEF AttachAssign, Attaching
  <2>2. Loading(Top, con, handles, objs)
    BY <2>1, TopLoad
  <2> QED BY <2>1, <2>2 DEF Loading
<1>4. CASE UserStep
  BY <1>1, <1>2, <1>4
     DEF UserStep, BlpConnect, BlpAuthenticate, Call, CallEnds, Drop, Restore, Keep, Attach, Detach, Unload
<1>5. CASE AttachStep
  BY <1>1, <1>2, <1>3, <1>5 DEF AttachStep, AttachConnect, AttachAuth
<1> QED BY <1>1, <1>4, <1>5 DEF Next, RStep, Finalize, Exit, vars

LEMMA MadeCorrect == Spec => [](OfInv /\ ThereInv)
<1>1. Init => OfInv /\ ThereInv
  <2>1. DOMAIN <<>> = {}
    <3>1. <<>> \in Seq({}) /\ Len(<<>>) = 0
      OBVIOUS
    <3> QED BY <3>1
  <2> QED BY <2>1 DEF Init, OfInv, ThereInv
<1>2. Inv /\ LoadInv /\ OfInv /\ ThereInv /\ [Next]_vars => OfInv' /\ ThereInv'
  BY OfStep, ThereStep
<1> QED BY <1>1, <1>2, InvCorrect, LoadCorrect, PTL DEF Spec

\* A default identity that is not of the default connection stays so, whatever
\* connections come after it, until another identity is stored.
THEOREM StaleStaysCorrect == Spec => StaleStays
<1>1. Inv /\ LoadInv /\ OfInv /\ ThereInv /\ [Next]_vars =>
        [running' /\ blpAuth' = blpAuth /\ Stale => Stale']_vars
  <2> SUFFICES ASSUME Inv, LoadInv, OfInv, ThereInv, [Next]_vars,
                      running', blpAuth' = blpAuth, Stale, con' # 0
               PROVE  objs'[handles'[blpAuth].addr].of # handles'[con'].addr
    BY DEF Stale, IdentityOf
  <2> DEFINE a == handles[blpAuth].addr
  <2>1. blpAuth \in DOMAIN handles /\ handles'[blpAuth].addr = a
    BY DefaultsKept DEF Stale
  <2>2. running
    BY DEF Next, UserStep, AttachStep, RStep, BlpConnect, BlpAuthenticate, Call, CallEnds, Drop, Restore,
           Keep, Attach, Detach, Unload, AttachConnect, AttachAuth, AttachAssign, Finalize, Exit, vars
  <2>3. a \in DOMAIN objs
    BY <2>1, <2>2, Apart DEF ThereInv, HandlesInv, Stale
  <2>4. objs'[a].of = objs[a].of
    BY <2>3, OfStep
  <2>5. CASE con' = con
    <3>1. handles'[con].addr = handles[con].addr
      BY <2>5, DefaultsKept
    <3> QED BY <2>1, <2>4, <2>5, <3>1 DEF Stale, IdentityOf
  <2>6. CASE con' # con
    <3>1. handles'[con'].addr = Len(objs) + 1
      BY <2>6, NewConnection
    <3>2. a \in 1 .. Len(objs) /\ Len(objs) \in Nat
      BY <2>3, Apart, HeapTypes
    <3>3. objs[a].of \in Nat /\ objs[a].of < a
      <4>1. objs[a] \in Obj
        BY <2>3, Apart DEF HeapType
      <4> QED BY <2>3, <4>1 DEF OfInv, Obj
    <3> QED BY <2>1, <2>4, <3>1, <3>2, <3>3
  <2> QED BY <2>5, <2>6
<1> QED BY <1>1, InvCorrect, LoadCorrect, MadeCorrect, PTL DEF Spec, StaleStays

-----------------------------------------------------------------------------
(* The life of the objects: each step of the handles, of a call or of the  *)
(* garbage collector is a step of ObjectLife.                              *)

LEMMA InUseIs ==
  \A x : x \in InUse <=> /\ x # 0
                         /\ \E i \in DOMAIN stack : /\ stack[i].op = "call"
                                                    /\ x \in {stack[i].session, stack[i].identity}
BY DEF InUse

\* the frames of calls stay, and those that come or go are of .onAttach()
LEMMA SameCalls ==
  ASSUME \A i \in DOMAIN stack : stack[i].op = "call" => i \in DOMAIN stack' /\ stack'[i] = stack[i],
         \A i \in DOMAIN stack' : stack'[i].op = "call" => i \in DOMAIN stack /\ stack[i] = stack'[i]
  PROVE  InUse' = InUse
BY DEF InUse

LEMMA SameStack ==
  ASSUME UNCHANGED stack
  PROVE  InUse' = InUse
BY DEF InUse

LEMMA PushedCalls ==
  ASSUME stack \in Seq(Frame), NEW f \in Frame, stack' = Append(stack, f)
  PROVE  /\ DOMAIN stack' = 1 .. Len(stack) + 1 /\ DOMAIN stack = 1 .. Len(stack)
         /\ stack'[Len(stack) + 1] = f /\ Len(stack) \in Nat
         /\ \A i \in DOMAIN stack : i \in DOMAIN stack' /\ stack'[i] = stack[i]
OBVIOUS

LEMMA ReturnedCalls ==
  ASSUME stack \in Seq(Frame), stack # <<>>, Return
  PROVE  /\ DOMAIN stack' = 1 .. Len(stack) - 1 /\ DOMAIN stack = 1 .. Len(stack)
         /\ \A i \in DOMAIN stack' : i \in DOMAIN stack /\ stack'[i] = stack[i]
<1>1. Len(stack) - 1 \in Nat /\ DOMAIN stack = 1 .. Len(stack)
  OBVIOUS
<1>2. \A i \in 1 .. Len(stack) - 1 : stack[i] \in Frame
  BY <1>1
<1>3. stack' \in Seq(Frame) /\ Len(stack') = Len(stack) - 1
  BY <1>1, <1>2, SubSeqProperties DEF Return
<1> QED BY <1>1, <1>3, ReturnStack

\* .onAttach() is no call: its frame may change or go
LEMMA AttachCalls ==
  ASSUME Inv, AttachStep
  PROVE  InUse' = InUse
<1>1. /\ stack # <<>> /\ Top.op # "call" /\ stack \in Seq(Frame) /\ running /\ running' = running
      /\ Len(stack) \in DOMAIN stack /\ DOMAIN stack = 1 .. Len(stack) /\ Len(stack) \in Nat
  BY Apart DEF AttachStep, AttachConnect, AttachAuth, AttachAssign, Attaching
<1>2. \A i \in DOMAIN stack : stack[i].op = "call" => i # Len(stack)
  BY <1>1 DEF Top
<1>3. CASE Return
  <2>1. /\ DOMAIN stack' = 1 .. Len(stack) - 1
        /\ \A i \in DOMAIN stack' : i \in DOMAIN stack /\ stack'[i] = stack[i]
    BY <1>1, <1>3, ReturnedCalls
  <2>2. \A i \in DOMAIN stack : i # Len(stack) => i \in DOMAIN stack'
    BY <1>1, <2>1
  <2> QED BY <1>2, <2>1, <2>2, SameCalls
<1>4. ASSUME NEW f \in Frame, f.op # "call", SetTop(f) PROVE InUse' = InUse
  <2>1. /\ DOMAIN stack' = DOMAIN stack
        /\ \A i \in DOMAIN stack : stack'[i] = IF i = Len(stack) THEN f ELSE stack[i]
    BY <1>1, <1>4 DEF SetTop
  <2> QED BY <1>2, <1>4, <2>1, SameCalls
<1>5. CASE ~Return
  <2>1. PICK f : SetTop(f) /\ f \in {[Top EXCEPT !.op = "auth", !.con = Len(handles')], [Top EXCEPT !.op = "auth"],
                                     [Top EXCEPT !.op = "assign", !.id = Len(handles')], [Top EXCEPT !.op = "assign"]}
    BY <1>5 DEF AttachStep, AttachConnect, AttachAuth, AttachAssign
  <2>2. Top \in Frame /\ Len(handles') \in Nat
    BY <1>1, TopFrame, AttachInv DEF Inv, TypeOK
  <2>3. f \in Frame /\ f.op # "call"
    BY <2>1, <2>2 DEF Frame
  <2> QED BY <1>4, <2>1, <2>3
<1> QED BY <1>3, <1>5

\* a new object has an owner, or is lost
LEMMA Allocated ==
  ASSUME Inv, NEW o, o.live = TRUE, Len(objs) < MaxObjs, o \in Obj, objs' = Append(objs, o),
         lost' \in {lost, lost \cup {Len(objs) + 1}}, InUse' = InUse, running, running' = running
  PROVE  Life!LifeNext
<1> DEFINE n == Len(objs) + 1
<1>1. /\ objs \in Seq(Obj) /\ Len(objs) \in Nat /\ DOMAIN objs = 1 .. Len(objs) /\ lost \subseteq DOMAIN objs
      /\ MaxObjs \in Nat
  BY ConnectionAssumption, Apart DEF HeapType
<1>2. /\ DOMAIN objs' = DOMAIN objs \cup {n} /\ objs'[n] = o /\ n \notin DOMAIN objs
      /\ \A i \in DOMAIN objs : objs'[i] = objs[i]
  BY <1>1
<1>3. n \in 1 .. MaxObjs
  BY <1>1
<1>4. n \notin Owned \cup lost \cup Deleted
  BY <1>1, <1>2 DEF Owned, Deleted
<1>5. Deleted' = Deleted
  BY <1>2 DEF Deleted
<1> HIDE DEF n
<1>6. CASE lost' = lost
  <2>1. Owned' = Owned \cup {n}
    BY <1>1, <1>2, <1>6 DEF Owned
  <2>2. Life!Allocate(n)
    BY <1>4, <1>5, <1>6, <2>1 DEF Life!Allocate
  <2> QED BY <1>3, <2>2 DEF Life!LifeNext
<1>7. CASE lost' = lost \cup {n}
  <2>1. Owned' = Owned
    BY <1>2, <1>7 DEF Owned
  <2>2. Life!Allocate(n)
    BY <1>4, <1>5, <1>7, <2>1 DEF Life!Allocate
  <2> QED BY <1>3, <2>2 DEF Life!LifeNext
<1> QED BY <1>6, <1>7 DEF n

LEMMA StartLife ==
  ASSUME Inv, Start \/ Lose("Session", 0), InUse' = InUse, running, running' = running
  PROVE  Life!LifeNext
<1> DEFINE o == [kind |-> "Session", of |-> 0, live |-> TRUE]
<1>1. o \in Obj /\ o.live = TRUE
  BY DEF Obj, Kinds
<1>2. objs' = Append(objs, o) /\ Len(objs) < MaxObjs /\ lost' \in {lost, lost \cup {Len(objs) + 1}}
  BY DEF Start, Lose, Room
<1> HIDE DEF o
<1> QED BY <1>1, <1>2, Allocated

LEMMA AuthorizeLife ==
  ASSUME Inv, NEW h, Default(h, "Session", handles), CheckPointer(h, "Session"),
         Authorize(h) \/ Lose("Identity", handles[h].addr), InUse' = InUse, running, running' = running
  PROVE  Life!LifeNext
<1> DEFINE o == [kind |-> "Identity", of |-> handles[h].addr, live |-> TRUE]
<1>1. handles[h].addr \in Nat
  BY Apart, HeapTypes DEF Default, CheckPointer
<1>2. o \in Obj /\ o.live = TRUE
  BY <1>1 DEF Obj, Kinds
<1>3. objs' = Append(objs, o) /\ Len(objs) < MaxObjs /\ lost' \in {lost, lost \cup {Len(objs) + 1}}
  BY DEF Authorize, Lose, Room
<1> HIDE DEF o
<1> QED BY <1>2, <1>3, Allocated

\* nothing happens to the objects, and nothing is used that was not
LEMMA NothingNew ==
  ASSUME UNCHANGED <<objs, lost, running>>, InUse' \subseteq InUse
  PROVE  Life!LifeNext
<1>1. Owned' = Owned /\ Deleted' = Deleted
  BY DEF Owned, Deleted
<1> QED BY <1>1 DEF Life!LifeNext, Life!CallReturns

\* a call begins: its handles have an address, so their objects have an owner
LEMMA CallLife ==
  ASSUME Inv, NEW h \in held \cup {con}, NEW id \in held \cup {blpAuth, 0}, Call(h, id)
  PROVE  Life!LifeNext
<1> DEFINE f == [op |-> "call", con |-> h, id |-> id, session |-> handles[h].addr,
                 identity |-> IF id = 0 THEN 0 ELSE handles[id].addr]
<1>1. /\ CheckPointer(h, "Session") /\ (id # 0 => CheckPointer(id, "Identity"))
      /\ stack' = Append(stack, f) /\ running /\ UNCHANGED <<objs, running, lost>>
  BY DEF Call, InR
<1>2. h \in DOMAIN handles /\ (id # 0 => id \in DOMAIN handles)
  BY <1>1, Apart DEF Default, CheckPointer
<1>3. /\ DOMAIN handles = 1 .. Len(handles) /\ Len(handles) \in Nat
      /\ handles[h].addr \in Nat /\ (id # 0 => handles[id].addr \in Nat)
  BY <1>2, Apart, HeapTypes
<1>4. f \in Frame /\ f.op = "call"
  BY <1>2, <1>3 DEF Frame
<1>5. f.session \in Owned /\ (f.identity # 0 => f.identity \in Owned)
  BY <1>1, <1>2, Apart DEF CheckPointer, HandlesInv, Owned
<1> HIDE DEF f
<1>6. /\ DOMAIN stack' = 1 .. Len(stack) + 1 /\ DOMAIN stack = 1 .. Len(stack)
      /\ stack'[Len(stack) + 1] = f /\ Len(stack) \in Nat
      /\ \A i \in DOMAIN stack : i \in DOMAIN stack' /\ stack'[i] = stack[i]
  BY <1>1, <1>4, Apart, PushedCalls
<1>7. InUse \subseteq InUse'
  BY <1>6 DEF InUse
<1>8. InUse' \ InUse \subseteq Owned
  <2> SUFFICES ASSUME NEW x \in InUse', x \notin InUse PROVE x \in Owned
    OBVIOUS
  <2>1. PICK i \in DOMAIN stack' : stack'[i].op = "call" /\ x \in {stack'[i].session, stack'[i].identity}
    BY DEF InUse
  <2>2. x # 0
    BY DEF InUse
  <2>3. i \notin DOMAIN stack
    BY <1>6, <2>1, <2>2 DEF InUse
  <2>4. stack'[i] = f
    BY <1>6, <2>3
  <2> QED BY <1>5, <2>1, <2>2, <2>4
<1>9. Owned' = Owned /\ Deleted' = Deleted
  BY <1>1 DEF Owned, Deleted
<1> QED BY <1>1, <1>7, <1>8, <1>9 DEF Life!LifeNext, Life!CallBegins

\* a finalizer runs: its handle is no argument of a call, and no other handle
\* has the address
LEMMA FinalizeLife ==
  ASSUME Inv, NEW h \in DOMAIN handles, Finalize(h)
  PROVE  Life!LifeNext
<1> DEFINE o == handles[h].addr
<1>1. /\ handles[h].final /\ (h \notin Reachable \/ ~running) /\ Delete(h)
      /\ UNCHANGED <<stack, running, lost>>
  BY DEF Finalize
<1>2. objs \in Seq(Obj) /\ o # 0 /\ o \in DOMAIN objs /\ o \notin lost /\ objs[o].live
  BY <1>1, Apart DEF HeapType, HandlesInv
<1>3. /\ DOMAIN objs' = DOMAIN objs
      /\ \A i \in DOMAIN objs : objs'[i].live = (i # o /\ objs[i].live)
  <2>1. \A i \in DOMAIN objs : objs[i] \in Obj
    BY <1>2
  <2>2. \A i \in DOMAIN objs : objs'[i] = IF i = o THEN [objs[i] EXCEPT !.live = FALSE] ELSE objs[i]
    BY <1>1, <1>2 DEF Delete
  <2>3. \A i \in DOMAIN objs : [objs[i] EXCEPT !.live = FALSE].live = FALSE /\ objs[i].live \in BOOLEAN
    BY <2>1 DEF Obj
  <2>4. DOMAIN objs' = DOMAIN objs
    BY <1>1, <1>2 DEF Delete
  <2> QED BY <2>2, <2>3, <2>4
<1>4. o \notin InUse
  <2> SUFFICES ASSUME NEW i \in DOMAIN stack, stack[i].op = "call", o \in {stack[i].session, stack[i].identity}
               PROVE  FALSE
    BY InUseIs
  <2>1. FrameOK(stack[i], handles) /\ running
    BY Apart
  <2>2. PICK g \in {stack[i].con, stack[i].id} : g # 0 /\ handles[g].addr = o
    BY <1>2, <2>1 DEF FrameOK
  <2>3. g \in DOMAIN handles
    BY <2>1, <2>2 DEF FrameOK
  <2>4. g = h
    BY <1>2, <2>2, <2>3, Apart DEF HandlesInv
  <2>5. g \in Reachable
    BY <2>2 DEF Reachable
  <2> QED BY <1>1, <2>1, <2>4, <2>5
<1>5. Owned' = Owned \ {o} /\ Deleted' = Deleted \cup {o} /\ o \in Owned
  BY <1>1, <1>2, <1>3 DEF Owned, Deleted
<1>6. InUse' = InUse
  BY <1>1, SameStack
<1>7. Life!Free(o)
  BY <1>1, <1>4, <1>5, <1>6 DEF Life!Free
<1> QED BY <1>5, <1>7 DEF Life!LifeNext

LEMMA UserLife ==
  ASSUME Inv, UserStep
  PROVE  Life!LifeNext
<1>1. InR /\ running /\ running' = running
  BY DEF UserStep, BlpConnect, BlpAuthenticate, Call, CallEnds, Drop, Restore, Keep, Attach, Detach, Unload, InR
<1>2. ASSUME NEW default \in BOOLEAN, BlpConnect(default) PROVE Life!LifeNext
  <2>1. (Start \/ Lose("Session", 0)) /\ UNCHANGED stack
    BY <1>2 DEF BlpConnect
  <2> QED BY <1>1, <2>1, SameStack, StartLife
<1>3. ASSUME NEW h \in held \cup {con}, NEW default \in BOOLEAN, BlpAuthenticate(h, default)
      PROVE  Life!LifeNext
  <2>1. (Authorize(h) \/ Lose("Identity", handles[h].addr)) /\ CheckPointer(h, "Session") /\ UNCHANGED stack
    BY <1>3 DEF BlpAuthenticate, Authorize
  <2>2. Default(h, "Session", handles)
    BY <2>1, Apart DEF Default, CheckPointer
  <2> QED BY <1>1, <2>1, <2>2, SameStack, AuthorizeLife
<1>4. ASSUME NEW h \in held \cup {con}, NEW id \in held \cup {blpAuth, 0}, Call(h, id)
      PROVE  Life!LifeNext
  BY <1>4, CallLife
<1>5. CASE CallEnds
  <2>1. stack # <<>> /\ Return /\ UNCHANGED <<objs, lost, running>> /\ stack \in Seq(Frame)
    BY <1>5, Apart DEF CallEnds
  <2>2. \A i \in DOMAIN stack' : i \in DOMAIN stack /\ stack'[i] = stack[i]
    BY <2>1, ReturnStack
  <2>3. InUse' \subseteq InUse
    BY <2>2 DEF InUse
  <2> QED BY <2>1, <2>3, NothingNew
<1>6. CASE Attach
  <2> DEFINE f == [op |-> "connect", con |-> 0, id |-> 0, session |-> 0, identity |-> 0]
  <2>1. /\ stack' = Append(stack, f) /\ f \in Frame /\ f.op # "call"
        /\ UNCHANGED <<objs, lost, running>> /\ stack \in Seq(Frame)
    BY <1>6, Apart DEF Attach, Frame
  <2> HIDE DEF f
  <2>2. /\ DOMAIN stack' = 1 .. Len(stack) + 1 /\ DOMAIN stack = 1 .. Len(stack)
        /\ stack'[Len(stack) + 1] = f /\ Len(stack) \in Nat
        /\ \A i \in DOMAIN stack : i \in DOMAIN stack' /\ stack'[i] = stack[i]
    BY <2>1, PushedCalls
  <2>3. \A i \in DOMAIN stack' : stack'[i].op = "call" => i \in DOMAIN stack /\ stack[i] = stack'[i]
    BY <2>1, <2>2
  <2>4. InUse' = InUse
    BY <2>2, <2>3, SameCalls
  <2> QED BY <2>1, <2>4, NothingNew
<1>7. CASE UNCHANGED <<objs, lost, stack>>
  BY <1>1, <1>7, SameStack, NothingNew
<1> QED BY <1>2, <1>3, <1>4, <1>5, <1>6, <1>7 DEF UserStep, Drop, Restore, Keep, Detach, Unload

LEMMA AttachLife ==
  ASSUME Inv, AttachStep
  PROVE  Life!LifeNext
<1>1. running /\ running' = running
  BY Apart DEF AttachStep, AttachConnect, AttachAuth, AttachAssign, Attaching
<1>2. InUse' = InUse
  BY AttachCalls
<1>3. CASE UNCHANGED <<objs, lost>>
  BY <1>1, <1>2, <1>3, NothingNew
<1>4. CASE Start \/ Lose("Session", 0)
  BY <1>1, <1>2, <1>4, StartLife
<1>5. CASE CheckPointer(con, "Session") /\ (Authorize(con) \/ Lose("Identity", handles[con].addr))
  BY <1>1, <1>2, <1>5, Apart, AuthorizeLife
<1>6. Authorize(con) => CheckPointer(con, "Session")
  BY DEF Authorize
<1> QED BY <1>3, <1>4, <1>5, <1>6 DEF AttachStep, AttachConnect, AttachAuth, AttachAssign

LEMMA ExitLife ==
  ASSUME Inv, Exit
  PROVE  Life!LifeNext
<1>1. running /\ running' = FALSE /\ UNCHANGED <<objs, lost>> /\ stack' = <<>>
  BY DEF Exit
<1>2. DOMAIN stack' = {}
  <2>1. stack' \in Seq({}) /\ Len(stack') = 0
    BY <1>1
  <2> QED BY <2>1
<1>3. InUse' = {} /\ Owned' = Owned /\ Deleted' = Deleted
  BY <1>1, <1>2 DEF InUse, Owned, Deleted
<1> QED BY <1>1, <1>3 DEF Life!LifeNext, Life!ProcessEnds

\* The objects live as ObjectLife says: whatever the user, a callback, the
\* garbage collector and the end of the process do in whatever order, an
\* object is deleted at most once, never under a call that uses it, and no call
\* starts with a deleted one.
THEOREM LifeRefinementCorrect == Spec => LifeRefinement
<1>1. Init => Life!LifeInit
  <2> SUFFICES ASSUME Init PROVE Life!LifeInit
    OBVIOUS
  <2>1. DOMAIN objs = {} /\ DOMAIN stack = {}
    <3>1. objs \in Seq({}) /\ Len(objs) = 0 /\ stack \in Seq({}) /\ Len(stack) = 0
      BY DEF Init
    <3> QED BY <3>1
  <2> QED BY <2>1 DEF Init, Life!LifeInit, Owned, Deleted, InUse
<1>2. Inv /\ [Next]_vars => [Life!LifeNext]_(Life!lifeVars)
  <2> SUFFICES ASSUME Inv, [Next]_vars PROVE [Life!LifeNext]_(Life!lifeVars)
    OBVIOUS
  <2>1. CASE Next
    BY <2>1, UserLife, AttachLife, FinalizeLife, ExitLife DEF Next, RStep
  <2>2. CASE UNCHANGED vars
    BY <2>2 DEF vars, Life!lifeVars, Owned, Deleted, InUse
  <2> QED BY <2>1, <2>2
<1> QED BY <1>1, <1>2, InvCorrect, PTL DEF Spec, LifeRefinement, Life!LifeSpec

-----------------------------------------------------------------------------
(* The end of the process, but for its fairness.                           *)

\* the finalizers that are left
ToRun == {h \in DOMAIN handles : handles[h].final}

LEMMA FinalizerGone ==
  ASSUME Inv, NEW h \in DOMAIN handles, Finalize(h)
  PROVE  Cardinality(ToRun') < Cardinality(ToRun)
<1>1. handles \in Seq(Handle) /\ Len(handles) \in Nat /\ DOMAIN handles = 1 .. Len(handles)
  BY Apart DEF HeapType
<1>2. h \in ToRun
  BY DEF Finalize, ToRun
<1>3. /\ DOMAIN handles' = DOMAIN handles
      /\ \A g \in DOMAIN handles : handles'[g].final = (g # h /\ handles[g].final)
  <2>1. handles' = [handles EXCEPT ![h].addr = 0, ![h].final = FALSE]
    BY DEF Finalize, Delete
  <2>2. \A g \in DOMAIN handles : handles[g] \in Handle
    BY <1>1
  <2>3. \A g \in DOMAIN handles :
          handles'[g] = IF g = h THEN [handles[g] EXCEPT !.addr = 0, !.final = FALSE] ELSE handles[g]
    BY <1>1, <2>1, <2>2
  <2>4. \A g \in DOMAIN handles :
          [handles[g] EXCEPT !.addr = 0, !.final = FALSE].final = FALSE /\ handles[g].final \in BOOLEAN
    BY <2>2 DEF Handle
  <2> QED BY <2>1, <2>3, <2>4
<1>4. ToRun' = ToRun \ {h}
  BY <1>3 DEF ToRun
<1>5. IsFiniteSet(ToRun)
  <2>1. IsFiniteSet(1 .. Len(handles))
    BY <1>1, FS_Interval
  <2>2. ToRun \subseteq 1 .. Len(handles)
    BY <1>1 DEF ToRun
  <2> QED BY <2>1, <2>2, FS_Subset
<1>6. /\ Cardinality(ToRun \ {h}) = Cardinality(ToRun) - 1
      /\ Cardinality(ToRun) \in Nat
  BY <1>2, <1>5, FS_RemoveElement, FS_CardinalityType
<1> QED BY <1>4, <1>6

\* When no finalizer is left all that was not lost is deleted, and once the
\* process is ending all that happens is that a finalizer runs, which leaves one
\* less (finalizers.h:26-31).
THEOREM ExitProgress ==
  Spec => /\ [](ToRun = {} => \A o \in DOMAIN objs : objs[o].live => o \in lost)
          /\ [][~running => ~running' /\ Cardinality(ToRun') < Cardinality(ToRun)]_vars
<1>1. Inv => (ToRun = {} => \A o \in DOMAIN objs : objs[o].live => o \in lost)
  <2> SUFFICES ASSUME Inv, ToRun = {}, NEW o \in DOMAIN objs, objs[o].live, o \notin lost PROVE FALSE
    OBVIOUS
  <2>1. PICK h \in DOMAIN handles : handles[h].addr = o
    BY Apart DEF HandlesInv
  <2>2. o # 0
    BY Apart, HeapTypes
  <2>3. handles[h].final
    BY <2>1, <2>2, Apart DEF HandlesInv
  <2> QED BY <2>3 DEF ToRun
<1>2. Inv /\ [Next]_vars => [~running => ~running' /\ Cardinality(ToRun') < Cardinality(ToRun)]_vars
  <2> SUFFICES ASSUME Inv, Next, ~running PROVE ~running' /\ Cardinality(ToRun') < Cardinality(ToRun)
    OBVIOUS
  <2>1. stack = <<>>
    BY Apart
  <2>2. ~UserStep
    BY DEF UserStep, BlpConnect, BlpAuthenticate, Call, CallEnds, Drop, Restore, Keep, Attach, Detach, Unload, InR
  <2>3. ~AttachStep
    BY <2>1 DEF AttachStep, AttachConnect, AttachAuth, AttachAssign, Attaching
  <2>4. PICK h \in DOMAIN handles : Finalize(h)
    BY <2>2, <2>3 DEF Next, RStep, Exit
  <2>5. running' = running
    BY <2>4 DEF Finalize
  <2> QED BY <2>4, <2>5, FinalizerGone
<1> QED BY <1>1, <1>2, InvCorrect, PTL DEF Spec
===============================================================================
