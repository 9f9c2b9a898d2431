-------------------------- MODULE SubscriptionProofs --------------------------
(***************************************************************************)
(* Theorems about subscribe(), for all lists of securities and bounds: who *)
(* owns what is open, who hears a message and under which topic, what an   *)
(* interrupt ends, and how a message may be lost.                          *)
(***************************************************************************)
EXTENDS Subscription, SequenceTheorems, TLAPS

-----------------------------------------------------------------------------
(* The stack of calls.                                                     *)

\* returning keeps every frame but the last
LEMMA ReturnStack ==
  ASSUME stack \in Seq(Frame), stack # <<>>, Return
  PROVE  /\ stack' \in Seq(Frame)
         /\ Len(stack') = Len(stack) - 1 /\ DOMAIN stack' = 1 .. Len(stack) - 1
         /\ \A i \in DOMAIN stack' : i \in DOMAIN stack /\ stack'[i] = stack[i]
<1>1. Len(stack) - 1 \in Nat /\ DOMAIN stack = 1 .. Len(stack)
  OBVIOUS
<1>2. \A i \in 1 .. Len(stack) - 1 : stack[i] \in Frame
  BY <1>1
<1>3. /\ stack' \in Seq(Frame)
      /\ Len(stack') = Len(stack) - 1
      /\ \A i \in 1 .. Len(stack) - 1 : stack'[i] = stack[i]
  BY <1>1, <1>2, SubSeqProperties DEF Return
<1> QED BY <1>1, <1>3

\* changing the innermost frame keeps the others
LEMMA SetTopStack ==
  ASSUME stack \in Seq(Frame), stack # <<>>, NEW f \in Frame, SetTop(f)
  PROVE  /\ stack' \in Seq(Frame)
         /\ Len(stack') = Len(stack) /\ DOMAIN stack' = DOMAIN stack
         /\ Len(stack) \in DOMAIN stack
         /\ \A i \in DOMAIN stack : stack'[i] = IF i = Len(stack) THEN f ELSE stack[i]
BY DEF SetTop

\* a call puts its frame on top
LEMMA PushStack ==
  ASSUME stack \in Seq(Frame), NEW f \in Frame, stack' = Append(stack, f)
  PROVE  /\ stack' \in Seq(Frame)
         /\ Len(stack') = Len(stack) + 1 /\ DOMAIN stack' = 1 .. Len(stack) + 1
         /\ DOMAIN stack = 1 .. Len(stack)
         /\ \A i \in DOMAIN stack : stack'[i] = stack[i]
         /\ stack'[Len(stack) + 1] = f
OBVIOUS

LEMMA PushAsked ==
  ASSUME asked \in Seq(Lists), NEW l \in Lists, asked' = Append(asked, l)
  PROVE  /\ asked' \in Seq(Lists) /\ Len(asked) \in Nat /\ Len(asked') = Len(asked) + 1
         /\ DOMAIN asked' = 1 .. Len(asked) + 1 /\ DOMAIN asked = 1 .. Len(asked)
         /\ \A s \in DOMAIN asked : s \in DOMAIN asked' /\ asked'[s] = asked[s]
         /\ asked'[Len(asked) + 1] = l
OBVIOUS

LEMMA TopType ==
  ASSUME TypeOK, stack # <<>>
  PROVE  Top \in Frame /\ Len(stack) \in DOMAIN stack /\ Top = stack[Len(stack)]
BY DEF TypeOK, Top

\* taking an event
LEMMA TailQueue ==
  ASSUME queue \in Seq(Event), queue # <<>>, queue' = Tail(queue)
  PROVE  /\ queue' \in Seq(Event) /\ Head(queue) \in Event /\ Head(queue) = queue[1]
         /\ 1 \in DOMAIN queue
         /\ DOMAIN queue = 1 .. Len(queue)
         /\ DOMAIN queue' = 1 .. Len(queue) - 1
         /\ \A i \in DOMAIN queue' : i + 1 \in DOMAIN queue /\ queue'[i] = queue[i + 1]
OBVIOUS

\* queueing one
LEMMA AppendQueue ==
  ASSUME queue \in Seq(Event), NEW e \in Event, queue' = Append(queue, e)
  PROVE  /\ queue' \in Seq(Event)
         /\ DOMAIN queue' = 1 .. Len(queue) + 1
         /\ DOMAIN queue = 1 .. Len(queue)
         /\ \A i \in DOMAIN queue : queue'[i] = queue[i]
         /\ queue'[Len(queue) + 1] = e
OBVIOUS

-----------------------------------------------------------------------------
(* The frames of subscribe() calls are distinct, those of accessors hold   *)
(* no message.                                                             *)
FramesInv ==
  /\ \A i \in DOMAIN stack :
       /\ stack[i].kind = "rpc" => stack[i].phase = "wait"
       /\ stack[i].kind = "subscribe" => stack[i].id \in DOMAIN asked
       /\ stack[i].next >= 1
  /\ \A i, j \in DOMAIN stack :
       stack[i].kind = "subscribe" /\ stack[j].kind = "subscribe" /\ i # j
         => stack[i].id # stack[j].id
  /\ \A x \in live \cup cancelled : x.call \in DOMAIN asked /\ x \in Subs(x.call)
  /\ \A k \in DOMAIN told : told[k].call \in DOMAIN asked

\* Where the messages are: what was told comes before what is queued, the
\* messages the running calls hold are each held once and told by nobody.
OrderInv ==
  /\ \A i \in DOMAIN queue : queue[i].type = "SUBSCRIPTION" =>
       /\ queue[i].lo >= 1 /\ queue[i].hi <= Len(about)
       /\ \A j \in DOMAIN queue : queue[j].type = "SUBSCRIPTION" /\ i < j =>
            queue[i].hi < queue[j].lo
       /\ queue[i].lo <= queue[i].hi
       /\ \A k \in DOMAIN told : told[k].n < queue[i].lo
       /\ \A f \in DOMAIN stack : stack[f].last < queue[i].lo
  /\ \A k \in DOMAIN told : told[k].n <= Len(about)
  /\ \A f \in DOMAIN stack : stack[f].last <= Len(about)
  /\ \A f, g \in DOMAIN stack : f # g =>
       stack[f].last < stack[g].next \/ stack[g].last < stack[f].next
  /\ \A f \in DOMAIN stack, k \in DOMAIN told :
       /\ told[k].n < stack[f].next \/ stack[f].last < told[k].n
       /\ stack[f].kind = "subscribe" /\ told[k].call = stack[f].id => told[k].n < stack[f].next

\* the elements of the sequences, by their fields
LEMMA ElementTypes ==
  ASSUME TypeOK
  PROVE  /\ \A k \in DOMAIN told : told[k].n \in Nat /\ told[k].call \in Nat
         /\ \A i \in DOMAIN queue : queue[i].lo \in Nat /\ queue[i].hi \in Nat
         /\ \A f \in DOMAIN stack : /\ stack[f] \in Frame
                                     /\ stack[f].next \in Nat /\ stack[f].last \in Nat
         /\ \A n \in DOMAIN about : about[n] \in Sub
         /\ Len(about) \in Nat /\ Len(asked) \in Nat /\ DOMAIN asked = 1 .. Len(asked)
         /\ DOMAIN about = 1 .. Len(about) /\ DOMAIN told = 1 .. Len(told) /\ Len(told) \in Nat
<1>1. \A k \in DOMAIN told : told[k] \in Told
  BY DEF TypeOK
<1>2. \A i \in DOMAIN queue : queue[i] \in Event
  BY DEF TypeOK
<1>3. \A f \in DOMAIN stack : stack[f] \in Frame
  BY DEF TypeOK
<1>4. \A k \in DOMAIN told : told[k].n \in Nat /\ told[k].call \in Nat
  BY <1>1 DEF Told
<1>5. \A i \in DOMAIN queue : queue[i].lo \in Nat /\ queue[i].hi \in Nat
  BY <1>2 DEF Event
<1>6. \A f \in DOMAIN stack : stack[f].next \in Nat /\ stack[f].last \in Nat
  BY <1>3 DEF Frame
<1>7. \A n \in DOMAIN about : about[n] \in Sub
  BY DEF TypeOK
<1>8. /\ Len(about) \in Nat /\ Len(asked) \in Nat /\ DOMAIN asked = 1 .. Len(asked)
      /\ DOMAIN about = 1 .. Len(about) /\ DOMAIN told = 1 .. Len(told) /\ Len(told) \in Nat
  BY DEF TypeOK
<1> QED BY <1>3, <1>4, <1>5, <1>6, <1>7, <1>8

Inv == TypeOK /\ FramesInv /\ OrderInv /\ InOrderOnce /\ LiveOwned

LEMMA InitInv == ASSUME SubscriptionAssumption, Init PROVE Inv
<1>1. TypeOK
  <2>1. \A S : <<>> \in Seq(S)
    OBVIOUS
  <2>2. /\ asked \in Seq(Lists) /\ about \in Seq(Sub) /\ queue \in Seq(Event)
        /\ stack \in Seq(Frame) /\ told \in Seq(Told)
    BY <2>1 DEF Init
  <2>3. /\ live \subseteq Sub /\ cancelled \subseteq Sub /\ nreq \in Nat /\ owed \subseteq 1 .. nreq
        /\ intr \in BOOLEAN /\ raised \subseteq 1 .. Len(asked)
    BY DEF Init
  <2> QED BY <2>2, <2>3 DEF TypeOK
<1>2. DOMAIN told = {} /\ DOMAIN queue = {} /\ DOMAIN stack = {}
  <2>1. told \in Seq(Told) /\ queue \in Seq(Event) /\ stack \in Seq(Frame)
    BY <1>1 DEF TypeOK
  <2>2. Len(told) = 0 /\ Len(queue) = 0 /\ Len(stack) = 0
    BY DEF Init
  <2>3. DOMAIN told = 1 .. 0 /\ DOMAIN queue = 1 .. 0 /\ DOMAIN stack = 1 .. 0
    BY <2>1, <2>2
  <2> QED BY <2>3
<1>3. FramesInv /\ OrderInv /\ InOrderOnce /\ LiveOwned
  BY <1>2 DEF Init, FramesInv, OrderInv, InOrderOnce, LiveOwned
<1> QED BY <1>1, <1>3 DEF Inv

-----------------------------------------------------------------------------
(* What each kind of step does to the order of the messages.               *)

\* taking events and ending calls only removes holders of messages
LEMMA OrderLess ==
  ASSUME TypeOK, OrderInv, stack \in Seq(Frame),
         UNCHANGED <<about, told>>,
         queue' = queue \/ (queue # <<>> /\ queue' = Tail(queue)),
         stack' = stack \/ (stack # <<>> /\ Return)
  PROVE  OrderInv'
<1>1. \A i \in DOMAIN stack' : i \in DOMAIN stack /\ stack'[i] = stack[i]
  BY ReturnStack
<1>2. CASE queue' = queue
  BY <1>1, <1>2 DEF OrderInv
<1>3. CASE queue # <<>> /\ queue' = Tail(queue)
  <2>1. \A i \in DOMAIN queue' : i \in Int /\ i + 1 \in DOMAIN queue /\ queue'[i] = queue[i + 1]
    <3>1. \A i \in DOMAIN queue' : i + 1 \in DOMAIN queue /\ queue'[i] = queue[i + 1]
      BY <1>3, TailQueue DEF TypeOK
    <3>2. Len(queue) \in Nat
      BY DEF TypeOK
    <3>3. DOMAIN queue' = 1 .. Len(queue) - 1
      BY <1>3, TailQueue DEF TypeOK
    <3>4. \A i \in DOMAIN queue' : i \in Int
      BY <3>2, <3>3
    <3> QED BY <3>1, <3>4
  <2>2. \A i, j \in DOMAIN queue' : i < j => i + 1 < j + 1
    BY <2>1
  <2>3. ASSUME NEW i \in DOMAIN queue', queue'[i].type = "SUBSCRIPTION"
        PROVE  /\ queue'[i].lo >= 1 /\ queue'[i].hi <= Len(about') /\ queue'[i].lo <= queue'[i].hi
               /\ \A k \in DOMAIN told : told[k].n < queue'[i].lo
               /\ \A f \in DOMAIN stack : stack[f].last < queue'[i].lo
               /\ \A j \in DOMAIN queue' : queue'[j].type = "SUBSCRIPTION" /\ i < j =>
                    queue'[i].hi < queue'[j].lo
    BY <2>1, <2>2, <2>3 DEF OrderInv
  <2>4. /\ \A k \in DOMAIN told : told[k].n <= Len(about)
        /\ \A f \in DOMAIN stack' : stack'[f].last <= Len(about)
        /\ \A f, g \in DOMAIN stack' : f # g =>
             stack'[f].last < stack'[g].next \/ stack'[g].last < stack'[f].next
        /\ \A f \in DOMAIN stack', k \in DOMAIN told :
             /\ told[k].n < stack'[f].next \/ stack'[f].last < told[k].n
             /\ stack'[f].kind = "subscribe" /\ told[k].call = stack'[f].id
                  => told[k].n < stack'[f].next
    BY <1>1 DEF OrderInv
  <2>5. UNCHANGED <<about, told>>
    OBVIOUS
  <2> QED BY <1>1, <2>3, <2>4, <2>5 DEF OrderInv
<1> QED BY <1>2, <1>3

\* a new frame holds nothing
LEMMA OrderPush ==
  ASSUME TypeOK, FramesInv, OrderInv, NEW f \in Frame,
         UNCHANGED <<about, told, queue>>, stack' = Append(stack, f),
         f.next = 1, f.last = 0,
         f.kind = "subscribe" => f.id \notin DOMAIN asked
  PROVE  OrderInv'
<1>1. /\ DOMAIN stack' = 1 .. Len(stack) + 1 /\ DOMAIN stack = 1 .. Len(stack)
      /\ \A i \in DOMAIN stack : stack'[i] = stack[i] /\ stack[i] \in Frame
      /\ stack'[Len(stack) + 1] = f
  BY PushStack DEF TypeOK
<1>2. \A g \in DOMAIN stack' : g \in DOMAIN stack \/ g = Len(stack) + 1
  BY <1>1 DEF TypeOK
<1>3. \A k \in DOMAIN told : told[k].n \in Nat
  BY ElementTypes
<1>4. \A i \in DOMAIN queue : queue[i].lo \in Nat /\ queue[i].hi \in Nat
  BY ElementTypes
<1>5. \A g \in DOMAIN stack : stack[g].next \in Nat /\ stack[g].last \in Nat /\ stack[g].next >= 1
  BY ElementTypes DEF FramesInv
<1>6. Len(about) \in Nat
  BY DEF TypeOK
<1>7. \A i \in DOMAIN queue' : queue'[i].type = "SUBSCRIPTION" =>
        \A g \in DOMAIN stack' : stack'[g].last < queue'[i].lo
  BY <1>1, <1>2, <1>4 DEF OrderInv
<1>8. \A g \in DOMAIN stack' : stack'[g].last <= Len(about')
  BY <1>1, <1>2, <1>6 DEF OrderInv
<1>9. \A g, h \in DOMAIN stack' : g # h =>
        stack'[g].last < stack'[h].next \/ stack'[h].last < stack'[g].next
  BY <1>1, <1>2, <1>5 DEF OrderInv
<1>10. \A g \in DOMAIN stack', k \in DOMAIN told' :
        /\ told'[k].n < stack'[g].next \/ stack'[g].last < told'[k].n
        /\ stack'[g].kind = "subscribe" /\ told'[k].call = stack'[g].id => told'[k].n < stack'[g].next
  <2> SUFFICES ASSUME NEW g \in DOMAIN stack', NEW k \in DOMAIN told'
               PROVE  /\ told'[k].n < stack'[g].next \/ stack'[g].last < told'[k].n
                      /\ stack'[g].kind = "subscribe" /\ told'[k].call = stack'[g].id
                           => told'[k].n < stack'[g].next
    OBVIOUS
  <2>1. CASE g \in DOMAIN stack
    BY <1>1, <2>1 DEF OrderInv
  <2>2. CASE g = Len(stack) + 1
    BY <1>1, <1>3, <2>2 DEF FramesInv
  <2> QED BY <1>2, <2>1, <2>2
<1> QED BY <1>7, <1>8, <1>9, <1>10 DEF OrderInv

\* the innermost frame goes through the messages it holds
LEMMA OrderAdvance ==
  ASSUME TypeOK, FramesInv, OrderInv, stack # <<>>, NEW f \in Frame,
         UNCHANGED <<about, told, queue>>, SetTop(f),
         f.next \in {Top.next, Top.next + 1}, f.last = Top.last,
         f.kind = Top.kind, f.id = Top.id
  PROVE  OrderInv'
<1>1. /\ Len(stack) \in DOMAIN stack /\ DOMAIN stack' = DOMAIN stack
      /\ \A i \in DOMAIN stack : stack[i] \in Frame /\ stack[i].next \in Nat /\ stack[i].last \in Nat
      /\ \A i \in DOMAIN stack : i # Len(stack) => stack'[i] = stack[i]
      /\ stack'[Len(stack)] = f /\ Top = stack[Len(stack)]
  BY SetTopStack, TopType, ElementTypes DEF TypeOK
<1>2. \A k \in DOMAIN told : told[k].n \in Nat
  BY ElementTypes
<1>3. \A i \in DOMAIN stack : /\ stack'[i].last = stack[i].last
                              /\ stack'[i].kind = stack[i].kind /\ stack'[i].id = stack[i].id
                              /\ stack[i].next \in Nat /\ stack'[i].next \in {stack[i].next, stack[i].next + 1}
                              /\ stack[i].last \in Nat
  BY <1>1
<1>4. \A g, h \in DOMAIN stack' : g # h =>
        stack'[g].last < stack'[h].next \/ stack'[h].last < stack'[g].next
  BY <1>1, <1>3, SMTT(20) DEF OrderInv
<1>5. \A g \in DOMAIN stack', k \in DOMAIN told' :
        /\ told'[k].n < stack'[g].next \/ stack'[g].last < told'[k].n
        /\ stack'[g].kind = "subscribe" /\ told'[k].call = stack'[g].id => told'[k].n < stack'[g].next
  BY <1>1, <1>2, <1>3 DEF OrderInv
<1> QED BY <1>1, <1>3, <1>4, <1>5 DEF OrderInv

\* a subscribe() that takes an event holds the messages of it
LEMMA OrderTake ==
  ASSUME TypeOK, FramesInv, OrderInv, stack # <<>>, queue # <<>>, NEW f \in Frame,
         UNCHANGED <<about, told>>, queue' = Tail(queue), SetTop(f),
         Head(queue).type = "SUBSCRIPTION",
         f.next = Head(queue).lo, f.last = Head(queue).hi,
         f.kind = Top.kind, f.id = Top.id
  PROVE  OrderInv'
<1>1. /\ Len(stack) \in DOMAIN stack /\ DOMAIN stack' = DOMAIN stack
      /\ \A i \in DOMAIN stack : stack'[i] = IF i = Len(stack) THEN f ELSE stack[i]
      /\ Top = stack[Len(stack)]
  BY SetTopStack, TopType DEF TypeOK
<1>2. 1 \in DOMAIN queue /\ Head(queue) = queue[1]
  BY TailQueue DEF TypeOK
<1>3. \A i \in DOMAIN queue' : /\ i + 1 \in DOMAIN queue /\ queue'[i] = queue[i + 1]
                               /\ i \in Int /\ 1 < i + 1
  <2>1. Len(queue) \in Nat
    BY DEF TypeOK
  <2>2. DOMAIN queue' = 1 .. Len(queue) - 1
    BY TailQueue DEF TypeOK
  <2>3. \A i \in DOMAIN queue' : i + 1 \in DOMAIN queue /\ queue'[i] = queue[i + 1]
    BY TailQueue DEF TypeOK
  <2> QED BY <2>1, <2>2, <2>3
<1>4. \A i, j \in DOMAIN queue' : i < j => i + 1 < j + 1
  BY <1>3
<1>5. /\ f.next >= 1 /\ f.last <= Len(about) /\ f.next <= f.last
      /\ f.next \in Nat /\ f.last \in Nat
      /\ \A k \in DOMAIN told : told[k].n < f.next
      /\ \A g \in DOMAIN stack : stack[g].last < f.next
      /\ \A i \in DOMAIN queue' : queue'[i].type = "SUBSCRIPTION" => f.last < queue'[i].lo
  BY <1>2, <1>3, ElementTypes DEF OrderInv
<1>6. \A i \in DOMAIN queue' : queue'[i].type = "SUBSCRIPTION" =>
       /\ queue'[i].lo >= 1 /\ queue'[i].hi <= Len(about')
       /\ \A j \in DOMAIN queue' : queue'[j].type = "SUBSCRIPTION" /\ i < j =>
            queue'[i].hi < queue'[j].lo
       /\ queue'[i].lo <= queue'[i].hi
       /\ \A k \in DOMAIN told' : told'[k].n < queue'[i].lo
       /\ \A g \in DOMAIN stack' : stack'[g].last < queue'[i].lo
  BY <1>1, <1>3, <1>4, <1>5 DEF OrderInv
<1>7. /\ \A k \in DOMAIN told' : told'[k].n <= Len(about')
      /\ \A g \in DOMAIN stack' : stack'[g].last <= Len(about')
  BY <1>1, <1>5 DEF OrderInv
<1>8. \A g, h \in DOMAIN stack' : g # h =>
        stack'[g].last < stack'[h].next \/ stack'[h].last < stack'[g].next
  BY <1>1, <1>5 DEF OrderInv
<1>9. \A g \in DOMAIN stack', k \in DOMAIN told' :
        /\ told'[k].n < stack'[g].next \/ stack'[g].last < told'[k].n
        /\ stack'[g].kind = "subscribe" /\ told'[k].call = stack'[g].id => told'[k].n < stack'[g].next
  BY <1>1, <1>5 DEF OrderInv
<1> QED BY <1>6, <1>7, <1>8, <1>9 DEF OrderInv

\* the backend queues an event: its messages are the newest
LEMMA OrderQueue ==
  ASSUME TypeOK, OrderInv, UNCHANGED <<told, stack>>,
         NEW e \in Event, queue' = Append(queue, e),
         Len(about') \in Nat, Len(about') >= Len(about),
         e.type = "SUBSCRIPTION" => /\ e.lo = Len(about) + 1 /\ e.hi = Len(about')
                                    /\ Len(about') > Len(about)
  PROVE  OrderInv'
<1>1. /\ DOMAIN queue' = 1 .. Len(queue) + 1 /\ DOMAIN queue = 1 .. Len(queue)
      /\ \A i \in DOMAIN queue : queue'[i] = queue[i]
      /\ queue'[Len(queue) + 1] = e
      /\ Len(queue) \in Nat
  BY AppendQueue DEF TypeOK
<1>2. \A i \in DOMAIN queue' : i \in DOMAIN queue \/ i = Len(queue) + 1
  BY <1>1
<1>3. \A i, j \in DOMAIN queue' : i < j => i \in DOMAIN queue
  BY <1>1
<1>4. e.lo \in Nat /\ e.hi \in Nat
  BY DEF Event
<1>5. \A i \in DOMAIN queue : queue[i].type = "SUBSCRIPTION" => queue[i].hi <= Len(about)
  BY DEF OrderInv
<1>6. \A i \in DOMAIN queue' : queue'[i].type = "SUBSCRIPTION" =>
       /\ queue'[i].lo >= 1 /\ queue'[i].hi <= Len(about')
       /\ queue'[i].lo <= queue'[i].hi
       /\ \A k \in DOMAIN told' : told'[k].n < queue'[i].lo
       /\ \A g \in DOMAIN stack' : stack'[g].last < queue'[i].lo
  <2> SUFFICES ASSUME NEW i \in DOMAIN queue', queue'[i].type = "SUBSCRIPTION"
               PROVE  /\ queue'[i].lo >= 1 /\ queue'[i].hi <= Len(about')
                      /\ queue'[i].lo <= queue'[i].hi
                      /\ \A k \in DOMAIN told : told[k].n < queue'[i].lo
                      /\ \A g \in DOMAIN stack : stack[g].last < queue'[i].lo
    OBVIOUS
  <2>1. CASE i \in DOMAIN queue
    <3>1. queue'[i] = queue[i] /\ queue[i].type = "SUBSCRIPTION"
      BY <1>1, <2>1
    <3>2. /\ queue[i].lo >= 1 /\ queue[i].hi <= Len(about)
          /\ queue[i].lo <= queue[i].hi
          /\ \A k \in DOMAIN told : told[k].n < queue[i].lo
          /\ \A g \in DOMAIN stack : stack[g].last < queue[i].lo
      BY <2>1, <3>1 DEF OrderInv
    <3>3. queue[i].hi \in Nat /\ Len(about) \in Nat
      BY <2>1, ElementTypes
    <3>4. queue[i].hi <= Len(about')
      BY <1>1, <3>2, <3>3
    <3> QED BY <3>1, <3>2, <3>4
  <2>2. CASE i = Len(queue) + 1
    BY <1>1, <1>4, <2>2, ElementTypes DEF OrderInv
  <2> QED BY <1>2, <2>1, <2>2
<1>7. \A i, j \in DOMAIN queue' :
        queue'[i].type = "SUBSCRIPTION" /\ queue'[j].type = "SUBSCRIPTION" /\ i < j
          => queue'[i].hi < queue'[j].lo
  <2> SUFFICES ASSUME NEW i \in DOMAIN queue', NEW j \in DOMAIN queue', i < j,
                      queue'[i].type = "SUBSCRIPTION", queue'[j].type = "SUBSCRIPTION"
               PROVE  queue'[i].hi < queue'[j].lo
    OBVIOUS
  <2>1. i \in DOMAIN queue /\ queue'[i] = queue[i] /\ queue[i].hi <= Len(about) /\ queue[i].hi \in Nat
    BY <1>1, <1>3, <1>5, ElementTypes
  <2>2. CASE j \in DOMAIN queue
    BY <1>1, <2>1, <2>2 DEF OrderInv
  <2>3. CASE j = Len(queue) + 1
    BY <1>1, <2>1, <2>3, ElementTypes
  <2> QED BY <1>2, <2>2, <2>3
<1>8. /\ \A k \in DOMAIN told' : told'[k].n <= Len(about')
      /\ \A g \in DOMAIN stack' : stack'[g].last <= Len(about')
  BY ElementTypes DEF OrderInv
<1> QED BY <1>6, <1>7, <1>8 DEF OrderInv

\* a message is told: it was held by one frame, and is not any more
LEMMA OrderHear ==
  ASSUME TypeOK, FramesInv, OrderInv, InOrderOnce, stack # <<>>,
         Top.next <= Top.last, Top.kind = "subscribe",
         NEW f \in Frame, SetTop(f), UNCHANGED <<about, queue>>,
         f.next = Top.next + 1, f.last = Top.last, f.kind = Top.kind, f.id = Top.id,
         NEW e \in Told, e.n = Top.next, e.call = Top.id, told' = Append(told, e)
  PROVE  OrderInv' /\ InOrderOnce'
<1>1. /\ Len(stack) \in DOMAIN stack /\ DOMAIN stack' = DOMAIN stack
      /\ \A i \in DOMAIN stack : stack'[i] = IF i = Len(stack) THEN f ELSE stack[i]
      /\ Top = stack[Len(stack)]
      /\ Top.next \in Nat /\ Top.last \in Nat
  BY SetTopStack, TopType, ElementTypes DEF TypeOK
<1>2. /\ DOMAIN told' = 1 .. Len(told) + 1
      /\ \A k \in DOMAIN told : told'[k] = told[k]
      /\ told'[Len(told) + 1] = e
  <2>1. told \in Seq(Told)
    BY DEF TypeOK
  <2> QED BY <2>1
<1>3. \A k \in DOMAIN told' : k \in DOMAIN told \/ k = Len(told) + 1
  BY <1>2, ElementTypes
<1>4. \A k \in DOMAIN told : /\ told[k].n \in Nat /\ told[k].n # e.n
                             /\ told[k].call = e.call => told[k].n < e.n
  BY <1>1, ElementTypes, SMTT(20) DEF OrderInv
<1>5. InOrderOnce'
  <2> SUFFICES ASSUME NEW i \in DOMAIN told', NEW j \in DOMAIN told', i < j
               PROVE  /\ told'[i].n # told'[j].n
                      /\ told'[i].call = told'[j].call => told'[i].n < told'[j].n
    BY DEF InOrderOnce
  <2>1. i \in DOMAIN told
    BY <1>2, ElementTypes
  <2>2. CASE j \in DOMAIN told
    BY <1>2, <2>1, <2>2 DEF InOrderOnce
  <2>3. CASE j = Len(told) + 1
    BY <1>2, <1>4, <2>1, <2>3
  <2> QED BY <1>3, <2>2, <2>3
<1>6. \A i \in DOMAIN queue' : queue'[i].type = "SUBSCRIPTION" =>
       /\ \A k \in DOMAIN told' : told'[k].n < queue'[i].lo
       /\ \A g \in DOMAIN stack' : stack'[g].last < queue'[i].lo
  <2>1. \A i \in DOMAIN queue : queue[i].type = "SUBSCRIPTION" =>
          e.n < queue[i].lo /\ f.last < queue[i].lo
    BY <1>1, ElementTypes DEF OrderInv
  <2> QED BY <1>1, <1>2, <1>3, <2>1 DEF OrderInv
<1>7. /\ \A k \in DOMAIN told' : told'[k].n <= Len(about')
      /\ \A g \in DOMAIN stack' : stack'[g].last <= Len(about')
  <2>1. Top.last <= Len(about) /\ e.n <= Len(about)
    BY <1>1, ElementTypes DEF OrderInv
  <2> QED BY <1>1, <1>2, <1>3, <2>1 DEF OrderInv
<1>8. \A g, h \in DOMAIN stack' : g # h =>
        stack'[g].last < stack'[h].next \/ stack'[h].last < stack'[g].next
  <2> SUFFICES ASSUME NEW g \in DOMAIN stack, NEW h \in DOMAIN stack, g # h
               PROVE  stack'[g].last < stack'[h].next \/ stack'[h].last < stack'[g].next
    BY <1>1
  <2>1. stack[g].last < stack[h].next \/ stack[h].last < stack[g].next
    BY DEF OrderInv
  <2>2. /\ stack[g].next \in Nat /\ stack[h].next \in Nat
        /\ stack[g].last \in Nat /\ stack[h].last \in Nat
    BY ElementTypes
  <2>3. \A i \in {g, h} : /\ stack'[i].last = stack[i].last
                          /\ stack'[i].next \in {stack[i].next, stack[i].next + 1}
    BY <1>1
  <2> QED BY <2>1, <2>2, <2>3
<1>9. \A g \in DOMAIN stack', k \in DOMAIN told' :
        /\ told'[k].n < stack'[g].next \/ stack'[g].last < told'[k].n
        /\ stack'[g].kind = "subscribe" /\ told'[k].call = stack'[g].id => told'[k].n < stack'[g].next
  <2> SUFFICES ASSUME NEW g \in DOMAIN stack, NEW k \in DOMAIN told'
               PROVE  /\ told'[k].n < stack'[g].next \/ stack'[g].last < told'[k].n
                      /\ stack'[g].kind = "subscribe" /\ told'[k].call = stack'[g].id
                           => told'[k].n < stack'[g].next
    BY <1>1
  <2>1. CASE k \in DOMAIN told /\ g # Len(stack)
    BY <1>1, <1>2, <2>1 DEF OrderInv
  <2>2. CASE k \in DOMAIN told /\ g = Len(stack)
    BY <1>1, <1>2, <1>4, <2>2, ElementTypes, SMTT(20) DEF OrderInv
  <2>3. CASE k = Len(told) + 1 /\ g = Len(stack)
    BY <1>1, <1>2, <2>3
  <2>4. CASE k = Len(told) + 1 /\ g # Len(stack)
    <3>1. stack[g].last < Top.next \/ Top.last < stack[g].next
      BY <1>1, <2>4 DEF OrderInv
    <3>2. stack[g].kind = "subscribe" => stack[g].id # Top.id
      BY <1>1, <2>4 DEF FramesInv
    <3>3. stack[g].next \in Nat /\ stack[g].last \in Nat
      BY ElementTypes
    <3> QED BY <1>1, <1>2, <2>4, <3>1, <3>2, <3>3
  <2> QED BY <1>3, <2>1, <2>2, <2>3, <2>4
<1>10. \A i \in DOMAIN queue' : queue'[i].type = "SUBSCRIPTION" =>
       /\ queue'[i].lo >= 1 /\ queue'[i].hi <= Len(about')
       /\ \A j \in DOMAIN queue' : queue'[j].type = "SUBSCRIPTION" /\ i < j =>
            queue'[i].hi < queue'[j].lo
       /\ queue'[i].lo <= queue'[i].hi
  BY DEF OrderInv
<1> QED BY <1>5, <1>6, <1>7, <1>8, <1>9, <1>10 DEF OrderInv

-----------------------------------------------------------------------------
(* What each kind of step does to the frames and to who owns what is open. *)

\* a call ends, or none does
LEMMA FramesLess ==
  ASSUME TypeOK, FramesInv, UNCHANGED <<asked, told>>,
         stack' = stack \/ (stack # <<>> /\ Return),
         live' \cup cancelled' \subseteq live \cup cancelled
  PROVE  FramesInv'
<1>1. \A i \in DOMAIN stack' : i \in DOMAIN stack /\ stack'[i] = stack[i]
  BY ReturnStack DEF TypeOK
<1>2. \A s : Subs(s)' = Subs(s)
  BY DEF Subs
<1> QED BY <1>1, <1>2 DEF FramesInv

\* the innermost frame goes on
LEMMA FramesSet ==
  ASSUME TypeOK, FramesInv, UNCHANGED <<asked, live, cancelled>>,
         stack # <<>>, NEW f \in Frame, SetTop(f),
         f.kind = Top.kind, f.id = Top.id, f.next >= 1, f.kind = "subscribe",
         told' = told \/ \E e \in Told : e.call = Top.id /\ told' = Append(told, e)
  PROVE  FramesInv' /\ Running' = Running
<1>1. /\ Len(stack) \in DOMAIN stack /\ DOMAIN stack' = DOMAIN stack
      /\ \A i \in DOMAIN stack : stack'[i] = IF i = Len(stack) THEN f ELSE stack[i]
      /\ Top = stack[Len(stack)]
  BY SetTopStack, TopType DEF TypeOK
<1>2. \A s : Subs(s)' = Subs(s)
  BY DEF Subs
<1>3. \A k \in DOMAIN told' : told'[k].call \in DOMAIN asked
  <2>1. \A k \in DOMAIN told : told[k].call \in DOMAIN asked
    BY DEF FramesInv
  <2>2. ASSUME NEW e \in Told, e.call = Top.id, told' = Append(told, e)
        PROVE  \A k \in DOMAIN told' : told'[k].call \in DOMAIN asked
    <3>1. told \in Seq(Told)
      BY DEF TypeOK
    <3>2. \A k \in DOMAIN told' : (k \in DOMAIN told /\ told'[k] = told[k]) \/ told'[k] = e
      BY <2>2, <3>1
    <3>3. e.call \in DOMAIN asked
      BY <1>1, <2>2 DEF FramesInv
    <3> QED BY <2>1, <3>2, <3>3
  <2> QED BY <2>1, <2>2
<1>4. FramesInv'
  <2>1. \A i \in DOMAIN stack' :
         /\ stack'[i].kind = "rpc" => stack'[i].phase = "wait"
         /\ stack'[i].kind = "subscribe" => stack'[i].id \in DOMAIN asked'
         /\ stack'[i].next >= 1
    <3>1. /\ f.kind = "subscribe" /\ f.next >= 1 /\ f.id \in DOMAIN asked
          /\ Len(stack) \in DOMAIN stack
      BY <1>1 DEF FramesInv
    <3>2. \A i \in DOMAIN stack : stack'[i] = f \/ stack'[i] = stack[i]
      BY <1>1
    <3> QED BY <1>1, <3>1, <3>2 DEF FramesInv
  <2>2. \A i, j \in DOMAIN stack' :
         stack'[i].kind = "subscribe" /\ stack'[j].kind = "subscribe" /\ i # j
           => stack'[i].id # stack'[j].id
    <3>1. \A i \in DOMAIN stack : stack'[i].kind = stack[i].kind /\ stack'[i].id = stack[i].id
      BY <1>1
    <3> QED BY <1>1, <3>1 DEF FramesInv
  <2>3. \A x \in live' \cup cancelled' : x.call \in DOMAIN asked' /\ x \in Subs(x.call)'
    BY <1>2 DEF FramesInv
  <2> QED BY <1>3, <2>1, <2>2, <2>3 DEF FramesInv
<1>5. \A i \in DOMAIN stack : stack'[i].kind = stack[i].kind /\ stack'[i].id = stack[i].id
  BY <1>1
<1>6. Running' = Running
  BY <1>1, <1>5 DEF Running
<1> QED BY <1>4, <1>6

\* the call that ends is the only one that stops running
LEMMA RunningLess ==
  ASSUME TypeOK, stack # <<>>, Return
  PROVE  Running \subseteq Running' \cup {Top.id}
<1>1. /\ DOMAIN stack' = 1 .. Len(stack) - 1 /\ DOMAIN stack = 1 .. Len(stack) /\ Len(stack) \in Nat
      /\ \A i \in DOMAIN stack' : stack'[i] = stack[i]
  BY ReturnStack DEF TypeOK
<1>2. \A i \in DOMAIN stack : i \in DOMAIN stack' \/ i = Len(stack)
  BY <1>1
<1> QED BY <1>1, <1>2 DEF Running, Top

\* an accessor that ends takes no subscribe() with it
LEMMA RunningRpc ==
  ASSUME TypeOK, stack # <<>>, Top.kind = "rpc", Return
  PROVE  Running \subseteq Running'
<1>1. /\ DOMAIN stack' = 1 .. Len(stack) - 1 /\ DOMAIN stack = 1 .. Len(stack) /\ Len(stack) \in Nat
      /\ \A i \in DOMAIN stack' : stack'[i] = stack[i]
  BY ReturnStack DEF TypeOK
<1>2. \A i \in DOMAIN stack : i \in DOMAIN stack' \/ i = Len(stack)
  BY <1>1
<1> QED BY <1>1, <1>2 DEF Running, Top

-----------------------------------------------------------------------------
(* The steps.                                                              *)

\* the ids of a call, and its subscriptions
LEMMA SubsCids ==
  ASSUME TypeOK, NEW s \in DOMAIN asked
  PROVE  /\ \A x \in Subs(s) : x.call = s /\ x.cid \in CidsOf(s)
         /\ \A i \in CidsOf(s) : [call |-> s, cid |-> i] \in Subs(s)
<1>1. asked[s] \in Seq(STRING)
  BY SubscriptionAssumption DEF SubscriptionAssumption, TypeOK
<1>2. Len(asked[s]) \in Nat /\ DOMAIN asked[s] = 1 .. Len(asked[s])
  BY <1>1
<1>3. \A i \in DOMAIN asked[s] : i - 1 \in CidsOf(s)
  BY <1>2 DEF CidsOf
<1>4. \A i \in CidsOf(s) : i + 1 \in DOMAIN asked[s] /\ (i + 1) - 1 = i
  BY <1>2 DEF CidsOf
<1> QED BY <1>3, <1>4 DEF Subs

\* the handler of an interrupt
LEMMA UnsubscribeInv ==
  ASSUME Inv, stack # <<>>, Top.kind = "subscribe", Unsubscribe,
         UNCHANGED <<asked, about, nreq, owed, told>>,
         queue' = queue \/ (queue # <<>> /\ queue' = Tail(queue))
  PROVE  Inv'
<1> USE DEF Inv
<1>1. Return /\ UNCHANGED raised /\ intr' = FALSE
  BY DEF Unsubscribe
<1>2. live' \cup cancelled' \subseteq live \cup cancelled
  BY DEF Unsubscribe
<1>3. TypeOK'
  <2>1. stack' \in Seq(Frame)
    BY <1>1, ReturnStack DEF TypeOK
  <2>2. queue' \in Seq(Event)
    BY TailQueue DEF TypeOK
  <2> QED BY <1>1, <2>1, <2>2 DEF TypeOK, Unsubscribe
<1>4. FramesInv' /\ OrderInv'
  BY <1>1, <1>2, FramesLess, OrderLess DEF TypeOK
<1>5. LiveOwned'
  <2> SUFFICES ASSUME NEW x \in live' PROVE x.call \in Running' \cup raised'
    BY DEF LiveOwned
  <2>1. x \in live /\ x.cid \notin CidsOf(Top.id) /\ x \in Subs(x.call)
    BY DEF Unsubscribe, FramesInv
  <2>2. x.call \in Running \cup raised /\ x.call # Top.id
    <3>1. Top.id \in DOMAIN asked
      BY TopType DEF FramesInv
    <3> QED BY <2>1, <3>1, SubsCids DEF LiveOwned
  <2> QED BY <1>1, <2>2, RunningLess
<1>6. InOrderOnce'
  BY DEF InOrderOnce
<1> QED BY <1>3, <1>4, <1>5, <1>6

\* an error leaves a subscribe() with what it has open
LEMMA LeakInv ==
  ASSUME Inv, stack # <<>>, Top.kind = "subscribe", Leak, intr' \in BOOLEAN,
         UNCHANGED <<asked, about, queue, nreq, owed, told>>
  PROVE  Inv'
<1> USE DEF Inv
<1>1. Return /\ UNCHANGED <<live, cancelled>> /\ raised' = raised \cup {Top.id}
  BY DEF Leak
<1>2. Top.id \in DOMAIN asked
  BY TopType DEF FramesInv
<1>3. TypeOK'
  <2>1. stack' \in Seq(Frame)
    BY <1>1, ReturnStack DEF TypeOK
  <2> QED BY <1>1, <1>2, <2>1, ElementTypes DEF TypeOK
<1>4. FramesInv' /\ OrderInv'
  BY <1>1, FramesLess, OrderLess DEF TypeOK
<1>5. LiveOwned'
  BY <1>1, RunningLess DEF LiveOwned
<1>6. InOrderOnce'
  BY DEF InOrderOnce
<1> QED BY <1>3, <1>4, <1>5, <1>6

\* an accessor takes an event, ends, or both
LEMMA RpcInv ==
  ASSUME Inv, stack # <<>>, Top.kind = "rpc", stack' = stack \/ Return, intr' \in BOOLEAN,
         queue' = queue \/ (queue # <<>> /\ queue' = Tail(queue)),
         UNCHANGED <<asked, live, cancelled, about, nreq, owed, raised, told>>
  PROVE  Inv'
<1> USE DEF Inv
<1>1. TypeOK'
  <2>1. stack' \in Seq(Frame)
    BY ReturnStack DEF TypeOK
  <2>2. queue' \in Seq(Event)
    BY TailQueue DEF TypeOK
  <2> QED BY <2>1, <2>2 DEF TypeOK
<1>2. FramesInv' /\ OrderInv'
  BY FramesLess, OrderLess DEF TypeOK
<1>3. LiveOwned'
  <2>1. CASE stack' = stack
    BY <2>1 DEF LiveOwned, Running
  <2>2. CASE Return
    BY <2>2, RunningRpc DEF LiveOwned
  <2> QED BY <2>1, <2>2
<1>4. InOrderOnce'
  BY DEF InOrderOnce
<1> QED BY <1>1, <1>2, <1>3, <1>4

\* the innermost subscribe() moves its iterator, or changes its phase
LEMMA AdvanceInv ==
  ASSUME Inv, stack # <<>>, NEW f \in Frame, SetTop(f), Top.kind = "subscribe",
         f.next \in {Top.next, Top.next + 1}, f.last = Top.last,
         f.kind = Top.kind, f.id = Top.id,
         UNCHANGED <<asked, live, cancelled, about, queue, nreq, owed, intr, raised, told>>
  PROVE  Inv'
<1> USE DEF Inv
<1>1. f.next >= 1
  BY TopType, ElementTypes DEF FramesInv
<1>2. TypeOK'
  <2>1. stack' \in Seq(Frame)
    BY SetTopStack DEF TypeOK
  <2> QED BY <2>1 DEF TypeOK
<1>3. FramesInv' /\ Running' = Running
  BY <1>1, FramesSet
<1>4. OrderInv'
  BY OrderAdvance
<1> QED BY <1>2, <1>3, <1>4 DEF InOrderOnce, LiveOwned

LEMMA TopicType ==
  ASSUME SubscriptionAssumption, Inv, NEW s \in DOMAIN asked, NEW n \in DOMAIN about
  PROVE  Topic(s, n) \in Topics \cup {"none"}
<1>1. asked[s] \in Lists /\ about[n].cid \in Nat
  <2>1. about[n] \in Sub
    BY ElementTypes DEF Inv
  <2>2. asked[s] \in Lists
    BY DEF Inv, TypeOK
  <2> QED BY <2>1, <2>2 DEF Sub
<1>2. asked[s] \in Seq(STRING)
  BY <1>1 DEF SubscriptionAssumption
<1>3. CASE about[n].cid < Len(asked[s])
  <2>1. about[n].cid + 1 \in DOMAIN asked[s]
    BY <1>1, <1>2, <1>3
  <2>2. asked[s][about[n].cid + 1] \in Topics
    BY <1>1, <2>1 DEF Topics
  <2> QED BY <1>3, <2>2 DEF Topic
<1>4. CASE ~(about[n].cid < Len(asked[s]))
  BY <1>4 DEF Topic
<1> QED BY <1>3, <1>4

LEMMA HearInv ==
  ASSUME SubscriptionAssumption, Inv, Hear
  PROVE  Inv'
<1> USE DEF Inv
<1> DEFINE f == [Top EXCEPT !.phase = "fun", !.next = @ + 1]
           e == [n |-> Top.next, call |-> Top.id, topic |-> Topic(Top.id, Top.next)]
<1>1. /\ stack # <<>> /\ Top.phase = "iter" /\ Top.next <= Top.last
      /\ SetTop(f) /\ told' = Append(told, e)
      /\ UNCHANGED <<asked, live, cancelled, about, queue, nreq, owed, intr, raised>>
  BY DEF Hear, Iterating
<1>2. Top \in Frame /\ Len(stack) \in DOMAIN stack /\ Top = stack[Len(stack)]
  BY <1>1, TopType
<1>3. Top.kind = "subscribe" /\ Top.id \in DOMAIN asked /\ Top.next >= 1
  <2>1. /\ Top.kind = "rpc" => Top.phase = "wait"
        /\ Top.kind = "subscribe" => Top.id \in DOMAIN asked
        /\ Top.next >= 1
    BY <1>2 DEF FramesInv
  <2>2. Top.kind \in {"subscribe", "rpc"}
    BY <1>2 DEF Frame
  <2> QED BY <1>1, <2>1, <2>2
<1>4. f \in Frame /\ f.next = Top.next + 1 /\ f.last = Top.last /\ f.kind = Top.kind /\ f.id = Top.id
  <2>1. Top.next \in Nat /\ Top.next + 1 \in Nat
    BY <1>2 DEF Frame
  <2> QED BY <1>2, <2>1 DEF Frame
<1>5. Top.next \in DOMAIN about /\ Top.next \in Nat /\ f.next >= 1
  BY <1>1, <1>2, <1>3, <1>4, ElementTypes, SMTT(20) DEF OrderInv
<1>6. e \in Told /\ e.n = Top.next /\ e.call = Top.id
  BY <1>2, <1>3, <1>5, TopicType DEF Told, Frame
<1> HIDE DEF f, e
<1>7. TypeOK'
  <2>1. stack' \in Seq(Frame)
    BY <1>1, <1>4, SetTopStack DEF TypeOK
  <2>2. told' \in Seq(Told)
    BY <1>1, <1>6 DEF TypeOK
  <2> QED BY <1>1, <2>1, <2>2 DEF TypeOK
<1>8. FramesInv' /\ Running' = Running
  BY <1>1, <1>3, <1>4, <1>5, <1>6, FramesSet
<1>9. OrderInv' /\ InOrderOnce'
  BY <1>1, <1>3, <1>4, <1>6, OrderHear
<1>10. LiveOwned'
  BY <1>1, <1>8 DEF LiveOwned
<1> QED BY <1>7, <1>8, <1>9, <1>10

LEMMA SubscribeEventInv ==
  ASSUME Inv, SubscribeEvent
  PROVE  Inv'
<1> USE DEF Inv
<1>1. /\ stack # <<>> /\ Top.kind = "subscribe" /\ Top.phase = "wait"
      /\ queue # <<>> /\ queue' = Tail(queue)
      /\ UNCHANGED <<asked, about, nreq, owed, told>>
  BY DEF SubscribeEvent, Waits
<1>2. CASE Unsubscribe
  BY <1>1, <1>2, UnsubscribeInv
<1>3. ASSUME Head(queue).type = "SUBSCRIPTION", UNCHANGED <<live, cancelled, intr, raised>>,
             SetTop([Top EXCEPT !.phase = "iter", !.next = Head(queue).lo, !.last = Head(queue).hi])
      PROVE  Inv'
  <2> DEFINE f == [Top EXCEPT !.phase = "iter", !.next = Head(queue).lo, !.last = Head(queue).hi]
  <2>1. Top \in Frame
    BY <1>1, TopType
  <2>2. Head(queue) \in Event /\ Head(queue) = queue[1] /\ 1 \in DOMAIN queue /\ queue' \in Seq(Event)
    BY <1>1, TailQueue DEF TypeOK
  <2>3. Head(queue).lo \in Nat /\ Head(queue).hi \in Nat /\ Head(queue).lo >= 1
    BY <1>3, <2>2, ElementTypes DEF OrderInv
  <2>4. /\ f \in Frame /\ f.next = Head(queue).lo /\ f.last = Head(queue).hi
        /\ f.kind = Top.kind /\ f.id = Top.id /\ f.next >= 1 /\ SetTop(f)
    BY <1>3, <2>1, <2>3 DEF Frame
  <2> HIDE DEF f
  <2>5. TypeOK'
    <3>1. stack' \in Seq(Frame)
      BY <1>1, <2>4, SetTopStack DEF TypeOK
    <3> QED BY <1>1, <1>3, <2>2, <3>1 DEF TypeOK
  <2>6. FramesInv' /\ Running' = Running
    BY <1>1, <1>3, <2>4, FramesSet
  <2>7. OrderInv'
    BY <1>1, <1>3, <2>4, OrderTake
  <2> QED BY <1>1, <1>3, <2>5, <2>6, <2>7 DEF LiveOwned, InOrderOnce
<1>4. ASSUME stack' = stack, UNCHANGED <<live, cancelled, intr, raised>>
      PROVE  Inv'
  <2>1. TypeOK'
    BY <1>1, <1>4, TailQueue DEF TypeOK
  <2>2. FramesInv' /\ OrderInv'
    BY <1>1, <1>4, FramesLess, OrderLess DEF TypeOK
  <2> QED BY <1>1, <1>4, <2>1, <2>2 DEF LiveOwned, Running, InOrderOnce
<1> QED BY <1>2, <1>3, <1>4 DEF SubscribeEvent

\* a new subscribe()
LEMMA SubscribeInv ==
  ASSUME SubscriptionAssumption, Inv, NEW l \in Lists, Subscribe(l)
  PROVE  Inv'
<1> USE DEF Inv
<1> DEFINE f == [kind |-> "subscribe", id |-> Len(asked) + 1, phase |-> "wait", next |-> 1, last |-> 0]
           new == {[call |-> Len(asked) + 1, cid |-> i - 1] : i \in DOMAIN l}
<1>1. /\ asked' = Append(asked, l) /\ live' = live \cup new /\ stack' = Append(stack, f)
      /\ UNCHANGED <<cancelled, about, queue, nreq, owed, intr, raised, told>>
  BY DEF Subscribe
<1>2. f \in Frame /\ f.next = 1 /\ f.last = 0 /\ f.kind = "subscribe" /\ f.id = Len(asked) + 1
      /\ f.phase = "wait"
  BY ElementTypes DEF Frame
<1>3. l \in Seq(STRING)
  BY DEF SubscriptionAssumption
<1>4. new \subseteq Sub
  BY <1>3, ElementTypes DEF Sub
<1>5. /\ asked' \in Seq(Lists) /\ Len(asked') = Len(asked) + 1
      /\ DOMAIN asked' = 1 .. Len(asked) + 1 /\ DOMAIN asked = 1 .. Len(asked)
      /\ \A s \in DOMAIN asked : s \in DOMAIN asked' /\ asked'[s] = asked[s]
      /\ asked'[Len(asked) + 1] = l
  BY <1>1, PushAsked DEF TypeOK
<1>6. /\ DOMAIN stack' = 1 .. Len(stack) + 1 /\ DOMAIN stack = 1 .. Len(stack)
      /\ \A i \in DOMAIN stack : stack'[i] = stack[i]
      /\ stack'[Len(stack) + 1] = f /\ stack' \in Seq(Frame) /\ Len(stack) \in Nat
  BY <1>1, <1>2, PushStack, SMTT(20) DEF TypeOK
<1>7. \A i \in DOMAIN stack' : i \in DOMAIN stack \/ i = Len(stack) + 1
  BY <1>6
<1>8. \A x \in new : x.call = Len(asked) + 1 /\ x \in Subs(x.call)'
  <2> SUFFICES ASSUME NEW x \in new PROVE x.call = Len(asked) + 1 /\ x \in Subs(x.call)'
    OBVIOUS
  <2>1. PICK i \in DOMAIN l : x = [call |-> Len(asked) + 1, cid |-> i - 1]
    OBVIOUS
  <2>2. x.call = Len(asked) + 1 /\ x = [call |-> x.call, cid |-> i - 1]
    BY <2>1
  <2>3. asked'[x.call] = l
    BY <1>5, <2>2
  <2> QED BY <2>2, <2>3 DEF Subs
<1>9. \A s \in DOMAIN asked : Subs(s)' = Subs(s)
  BY <1>5 DEF Subs
<1>10. Len(asked) + 1 \notin DOMAIN asked /\ Len(asked) + 1 \in DOMAIN asked'
  BY <1>5, ElementTypes
<1> HIDE DEF f, new
<1>11. TypeOK'
  <2>1. raised' \subseteq 1 .. Len(asked')
    BY <1>1, <1>5, ElementTypes DEF TypeOK
  <2>2. live' \subseteq Sub
    BY <1>1, <1>4 DEF TypeOK
  <2> QED BY <1>1, <1>5, <1>6, <2>1, <2>2 DEF TypeOK
<1>12. FramesInv'
  <2>1. \A i \in DOMAIN stack' :
         /\ stack'[i].kind = "rpc" => stack'[i].phase = "wait"
         /\ stack'[i].kind = "subscribe" => stack'[i].id \in DOMAIN asked'
         /\ stack'[i].next >= 1
    <3> SUFFICES ASSUME NEW i \in DOMAIN stack'
                 PROVE  /\ stack'[i].kind = "rpc" => stack'[i].phase = "wait"
                        /\ stack'[i].kind = "subscribe" => stack'[i].id \in DOMAIN asked'
                        /\ stack'[i].next >= 1
      OBVIOUS
    <3>1. CASE i \in DOMAIN stack
      <4>1. stack'[i] = stack[i]
        BY <1>6, <3>1
      <4>2. /\ stack[i].kind = "rpc" => stack[i].phase = "wait"
            /\ stack[i].kind = "subscribe" => stack[i].id \in DOMAIN asked
            /\ stack[i].next >= 1
        BY <3>1 DEF FramesInv
      <4> QED BY <1>5, <4>1, <4>2
    <3>2. CASE i = Len(stack) + 1
      BY <1>2, <1>6, <1>10, <3>2
    <3> QED BY <1>7, <3>1, <3>2
  <2>2. ASSUME NEW i \in DOMAIN stack', NEW j \in DOMAIN stack', i # j,
               stack'[i].kind = "subscribe", stack'[j].kind = "subscribe"
        PROVE  stack'[i].id # stack'[j].id
    <3>1. CASE i \in DOMAIN stack /\ j \in DOMAIN stack
      BY <1>6, <2>2, <3>1 DEF FramesInv
    <3>2. CASE i = Len(stack) + 1
      BY <1>2, <1>6, <1>7, <1>10, <2>2, <3>2 DEF FramesInv
    <3>3. CASE j = Len(stack) + 1
      BY <1>2, <1>6, <1>7, <1>10, <2>2, <3>3 DEF FramesInv
    <3> QED BY <1>7, <3>1, <3>2, <3>3
  <2>3. \A x \in live' \cup cancelled' : x.call \in DOMAIN asked' /\ x \in Subs(x.call)'
    <3>1. \A x \in live \cup cancelled : x.call \in DOMAIN asked /\ x \in Subs(x.call)
      BY DEF FramesInv
    <3>2. \A x \in live' \cup cancelled' : x \in live \cup cancelled \/ x \in new
      BY <1>1
    <3> QED BY <1>5, <1>8, <1>9, <1>10, <3>1, <3>2
  <2>4. \A k \in DOMAIN told' : told'[k].call \in DOMAIN asked'
    BY <1>1, <1>5 DEF FramesInv
  <2> QED BY <2>1, <2>2, <2>3, <2>4 DEF FramesInv
<1>13. OrderInv'
  BY <1>1, <1>2, <1>10, OrderPush
<1>14. LiveOwned'
  <2>1. Running \subseteq Running'
    <3>1. \A i \in DOMAIN stack : i \in DOMAIN stack' /\ stack'[i] = stack[i]
      BY <1>6
    <3> QED BY <3>1 DEF Running
  <2>2. Len(asked) + 1 \in Running'
    <3>1. Len(stack) + 1 \in DOMAIN stack'
      BY <1>6
    <3> QED BY <1>2, <1>6, <3>1 DEF Running
  <2> QED BY <1>1, <1>8, <2>1, <2>2 DEF LiveOwned
<1> QED BY <1>1, <1>11, <1>12, <1>13, <1>14 DEF InOrderOnce

\* a new accessor
LEMMA AccessorInv ==
  ASSUME Inv, Accessor
  PROVE  Inv'
<1> USE DEF Inv
<1> DEFINE f == [kind |-> "rpc", id |-> nreq + 1, phase |-> "wait", next |-> 1, last |-> 0]
<1>1. /\ stack' = Append(stack, f) /\ nreq' = nreq + 1 /\ owed' = owed \cup {nreq + 1}
      /\ UNCHANGED <<asked, live, cancelled, about, queue, intr, raised, told>>
  BY DEF Accessor
<1>2. f \in Frame /\ f.next = 1 /\ f.last = 0 /\ f.kind = "rpc" /\ f.phase = "wait"
  BY DEF Frame, TypeOK
<1>3. /\ DOMAIN stack' = 1 .. Len(stack) + 1 /\ DOMAIN stack = 1 .. Len(stack)
      /\ \A i \in DOMAIN stack : stack'[i] = stack[i]
      /\ stack'[Len(stack) + 1] = f /\ stack' \in Seq(Frame) /\ Len(stack) \in Nat
  BY <1>1, <1>2, PushStack DEF TypeOK
<1>4. \A i \in DOMAIN stack' : i \in DOMAIN stack \/ i = Len(stack) + 1
  BY <1>3
<1> HIDE DEF f
<1>5. TypeOK'
  <2>1. nreq' \in Nat /\ owed' \subseteq 1 .. nreq'
    BY <1>1 DEF TypeOK
  <2> QED BY <1>1, <1>3, <2>1 DEF TypeOK
<1>6. FramesInv'
  <2>1. \A i \in DOMAIN stack' :
         /\ stack'[i].kind = "rpc" => stack'[i].phase = "wait"
         /\ stack'[i].kind = "subscribe" => stack'[i].id \in DOMAIN asked'
         /\ stack'[i].next >= 1
    BY <1>1, <1>2, <1>3, <1>4 DEF FramesInv
  <2>2. \A i \in DOMAIN stack' : stack'[i].kind = "subscribe" =>
          i \in DOMAIN stack /\ stack'[i] = stack[i]
    BY <1>2, <1>3, <1>4
  <2>3. \A i, j \in DOMAIN stack' :
         stack'[i].kind = "subscribe" /\ stack'[j].kind = "subscribe" /\ i # j
           => stack'[i].id # stack'[j].id
    BY <2>2 DEF FramesInv
  <2>4. \A s : Subs(s)' = Subs(s)
    BY <1>1 DEF Subs
  <2> QED BY <1>1, <2>1, <2>3, <2>4 DEF FramesInv
<1>7. OrderInv'
  BY <1>1, <1>2, OrderPush
<1>8. LiveOwned'
  <2>1. \A i \in DOMAIN stack : i \in DOMAIN stack' /\ stack'[i] = stack[i]
    BY <1>3
  <2>2. Running \subseteq Running'
    BY <2>1 DEF Running
  <2> QED BY <1>1, <2>2 DEF LiveOwned
<1> QED BY <1>1, <1>5, <1>6, <1>7, <1>8 DEF InOrderOnce

\* what the backend does to an event queue nobody is reading
LEMMA QueueInv ==
  ASSUME Inv, NEW e \in Event, queue' = Append(queue, e),
         about' \in Seq(Sub), Len(about') >= Len(about),
         e.type = "SUBSCRIPTION" => /\ e.lo = Len(about) + 1 /\ e.hi = Len(about')
                                    /\ Len(about') > Len(about),
         live' \subseteq live, owed' \subseteq owed,
         UNCHANGED <<asked, cancelled, nreq, stack, intr, raised, told>>
  PROVE  Inv'
<1> USE DEF Inv
<1>1. TypeOK'
  <2>1. queue' \in Seq(Event)
    BY AppendQueue DEF TypeOK
  <2> QED BY <2>1 DEF TypeOK
<1>2. FramesInv'
  BY FramesLess
<1>3. OrderInv'
  <2>1. Len(about') \in Nat
    OBVIOUS
  <2> QED BY <2>1, OrderQueue
<1> QED BY <1>1, <1>2, <1>3 DEF LiveOwned, Running, InOrderOnce

\* an event about some subscriptions
LEMMA ReportEffect ==
  ASSUME Inv, NEW xs \in Seq(Sub), xs # <<>>, Report(xs), live' \subseteq live,
         UNCHANGED <<asked, cancelled, nreq, owed, stack, intr, raised, told>>
  PROVE  Inv'
<1> DEFINE e == [type |-> "SUBSCRIPTION", req |-> 0, lo |-> Len(about) + 1, hi |-> Len(about) + Len(xs)]
<1>1. about' = about \o xs /\ queue' = Append(queue, e)
  BY DEF Report
<1>2. about \in Seq(Sub)
  BY DEF Inv, TypeOK
<1>3. /\ about' \in Seq(Sub) /\ Len(about') = Len(about) + Len(xs)
      /\ Len(xs) \in Nat /\ Len(xs) > 0 /\ Len(about) \in Nat
  BY <1>1, <1>2
<1>4. e \in Event /\ e.lo = Len(about) + 1 /\ e.hi = Len(about')
  BY <1>3 DEF Event
<1> HIDE DEF e
<1> QED BY <1>1, <1>3, <1>4, QueueInv

LEMMA BackendInv ==
  ASSUME Inv, BackendStep
  PROVE  Inv'
<1>1. CASE Tick
  <2>1. PICK k \in 1 .. MaxMsgs : \E xs \in [1 .. k -> live] : Report(xs)
    BY <1>1 DEF Tick
  <2>2. PICK xs \in [1 .. k -> live] : Report(xs)
    BY <2>1
  <2>3. k \in Nat /\ k >= 1
    BY <2>1
  <2>4. live \subseteq Sub
    BY DEF Inv, TypeOK
  <2>5. xs \in Seq(Sub) /\ Len(xs) = k
    BY <2>2, <2>3, <2>4
  <2>6. xs # <<>>
    BY <2>3, <2>5
  <2> QED BY <1>1, <2>2, <2>5, <2>6, ReportEffect DEF Tick
<1>2. CASE Close
  <2>1. PICK x \in live : Report(<<x>>) /\ live' = live \ {x}
    BY <1>2 DEF Close
  <2>2. <<x>> \in Seq(Sub) /\ <<x>> # <<>>
    BY DEF Inv, TypeOK
  <2> QED BY <1>2, <2>1, <2>2, ReportEffect DEF Close
<1>3. CASE Notice
  <2> DEFINE e == [type |-> "OTHER", req |-> 0, lo |-> 1, hi |-> 0]
  <2>1. e \in Event /\ e.type = "OTHER" /\ queue' = Append(queue, e)
    BY <1>3 DEF Notice, Event
  <2>2. UNCHANGED <<asked, live, cancelled, about, nreq, owed, stack, intr, raised, told>>
    BY <1>3 DEF Notice
  <2>3. about' \in Seq(Sub) /\ Len(about') >= Len(about)
    BY <2>2, ElementTypes DEF Inv, TypeOK
  <2> HIDE DEF e
  <2> QED BY <2>1, <2>2, <2>3, QueueInv
<1>4. ASSUME NEW r \in 1 .. MaxReqs, Respond(r) PROVE Inv'
  <2> DEFINE e == [type |-> "RESPONSE", req |-> r, lo |-> 1, hi |-> 0]
  <2>1. e \in Event /\ e.type = "RESPONSE" /\ queue' = Append(queue, e)
    BY <1>4 DEF Respond, Event
  <2>2. /\ UNCHANGED <<asked, live, cancelled, about, nreq, stack, intr, raised, told>>
        /\ owed' \subseteq owed
    BY <1>4 DEF Respond
  <2>3. about' \in Seq(Sub) /\ Len(about') >= Len(about)
    BY <2>2, ElementTypes DEF Inv, TypeOK
  <2> HIDE DEF e
  <2> QED BY <2>1, <2>2, <2>3, QueueInv
<1> QED BY <1>1, <1>2, <1>3, <1>4 DEF BackendStep

\* a call that is not waiting is a subscribe()
LEMMA NotWaiting ==
  ASSUME Inv, stack # <<>>, Top.phase # "wait"
  PROVE  Top.kind = "subscribe"
<1>1. Top \in Frame /\ Len(stack) \in DOMAIN stack /\ Top = stack[Len(stack)]
  BY TopType DEF Inv
<1>2. Top.kind = "rpc" => Top.phase = "wait"
  BY <1>1 DEF Inv, FramesInv
<1>3. Top.kind \in {"subscribe", "rpc"}
  BY <1>1 DEF Frame
<1> QED BY <1>2, <1>3

LEMMA CallInv ==
  ASSUME SubscriptionAssumption, Inv, CallStep
  PROVE  Inv'
<1>1. CASE SubscribeEvent
  BY <1>1, SubscribeEventInv
<1>2. CASE Hear
  BY <1>2, HearInv
<1>3. CASE PassHidden \/ EventDone \/ FunReturns
  <2>1. stack # <<>> /\ Top.phase # "wait"
    BY <1>3 DEF PassHidden, EventDone, FunReturns, Iterating
  <2>2. Top \in Frame /\ Top.kind = "subscribe"
    BY <2>1, NotWaiting, TopType DEF Inv
  <2>3. Top.next \in Nat /\ Top.next + 1 \in Nat
    BY <2>2 DEF Frame
  <2>4. UNCHANGED <<asked, live, cancelled, about, queue, nreq, owed, intr, raised, told>>
    BY <1>3 DEF PassHidden, EventDone, FunReturns
  <2>5. \E f \in Frame : /\ SetTop(f) /\ f.next \in {Top.next, Top.next + 1} /\ f.last = Top.last
                         /\ f.kind = Top.kind /\ f.id = Top.id
    <3>1. CASE PassHidden
      <4>1. SetTop([Top EXCEPT !.next = @ + 1])
        BY <3>1 DEF PassHidden
      <4>2. [Top EXCEPT !.next = @ + 1] \in Frame
        BY <2>2, <2>3 DEF Frame
      <4> QED BY <2>2, <4>1, <4>2 DEF Frame
    <3>2. CASE EventDone
      <4>1. SetTop([Top EXCEPT !.phase = "wait"])
        BY <3>2 DEF EventDone
      <4>2. [Top EXCEPT !.phase = "wait"] \in Frame
        BY <2>2 DEF Frame
      <4> QED BY <2>2, <4>1, <4>2 DEF Frame
    <3>3. CASE FunReturns
      <4>1. SetTop([Top EXCEPT !.phase = "iter"])
        BY <3>3 DEF FunReturns
      <4>2. [Top EXCEPT !.phase = "iter"] \in Frame
        BY <2>2 DEF Frame
      <4> QED BY <2>2, <4>1, <4>2 DEF Frame
    <3> QED BY <1>3, <3>1, <3>2, <3>3
  <2> QED BY <2>1, <2>2, <2>4, <2>5, AdvanceInv
<1>4. CASE RpcEvent
  <2>1. intr \in BOOLEAN => intr' \in BOOLEAN
    BY <1>4 DEF RpcEvent, IntrIfRunning
  <2>2. intr \in BOOLEAN
    BY DEF Inv, TypeOK
  <2> QED BY <1>4, <2>1, <2>2, RpcInv DEF RpcEvent, Waits
<1> QED BY <1>1, <1>2, <1>3, <1>4 DEF CallStep

LEMMA UserInv ==
  ASSUME SubscriptionAssumption, Inv, UserStep
  PROVE  Inv'
<1>0. intr \in BOOLEAN
  BY DEF Inv, TypeOK
<1>1. ASSUME NEW l \in Lists, Subscribe(l) PROVE Inv'
  BY <1>1, SubscribeInv
<1>2. CASE Accessor
  BY <1>2, AccessorInv
<1>3. CASE SubscribeRaises
  <2>1. /\ stack # <<>> /\ Top.phase # "wait" /\ Leak
        /\ UNCHANGED <<asked, about, queue, nreq, owed, told>>
    BY <1>3 DEF SubscribeRaises
  <2>2. intr' \in BOOLEAN
    BY <1>0, <1>3 DEF SubscribeRaises, IntrIfRunning
  <2> QED BY <2>1, <2>2, NotWaiting, LeakInv
<1>4. CASE FunInterrupted
  <2>1. /\ stack # <<>> /\ Top.phase # "wait"
        /\ Unsubscribe \/ (Leak /\ intr' = FALSE)
        /\ UNCHANGED <<asked, about, queue, nreq, owed, told>>
    BY <1>4 DEF FunInterrupted
  <2> QED BY <2>1, NotWaiting, LeakInv, UnsubscribeInv
<1>5. CASE RpcRaises
  <2>1. intr' \in BOOLEAN
    BY <1>0, <1>5 DEF RpcRaises, IntrIfRunning
  <2> QED BY <1>5, <2>1, RpcInv DEF RpcRaises, Waits
<1>6. CASE Interrupt
  <2>1. UNCHANGED <<asked, live, cancelled, about, queue, nreq, owed, stack, raised, told>> /\ intr' = TRUE
    BY <1>6 DEF Interrupt
  <2>2. TypeOK'
    BY <2>1 DEF Inv, TypeOK
  <2>3. FramesInv' /\ OrderInv'
    BY <2>1, FramesLess, OrderLess DEF Inv, TypeOK
  <2> QED BY <2>1, <2>2, <2>3 DEF Inv, LiveOwned, Running, InOrderOnce
<1> QED BY <1>1, <1>2, <1>3, <1>4, <1>5, <1>6 DEF UserStep

\* The inductive invariant: types; the subscribe() calls on the stack have
\* numbers of their own; and the messages are ordered, those told before those
\* held by a call before those queued, each with one holder.
THEOREM InvCorrect == Spec => []Inv
<1>1. Init => Inv
  BY SubscriptionAssumption, InitInv
<1>2. Inv /\ [Next]_vars => Inv'
  <2> SUFFICES ASSUME Inv, [Next]_vars PROVE Inv'
    OBVIOUS
  <2>1. CASE Next
    BY <2>1, SubscriptionAssumption, CallInv, UserInv, BackendInv DEF Next
  <2>2. CASE UNCHANGED vars
    <3>1. UNCHANGED <<asked, live, cancelled, about, queue, nreq, owed, stack, intr, raised, told>>
      BY <2>2 DEF vars
    <3>2. TypeOK'
      BY <3>1 DEF Inv, TypeOK
    <3>3. FramesInv' /\ OrderInv'
      BY <3>1, FramesLess, OrderLess DEF Inv, TypeOK
    <3> QED BY <3>1, <3>2, <3>3 DEF Inv, LiveOwned, Running, InOrderOnce
  <2> QED BY <2>1, <2>2
<1> QED BY <1>1, <1>2, PTL DEF Spec

\* Every reachable state of the session and the running calls is well typed.
THEOREM SubscriptionTypes == Spec => []TypeOK
<1>1. Inv => TypeOK
  BY DEF Inv
<1> QED BY <1>1, InvCorrect, PTL

\* What is open at the backend belongs to a running subscribe() or to one that
\* an R error ended.
THEOREM LiveOwnedCorrect == Spec => []LiveOwned
<1>1. Inv => LiveOwned
  BY DEF Inv
<1> QED BY <1>1, InvCorrect, PTL

\* A message is handed to at most one user's function, once, and each call's
\* function hears its messages in the order they were queued.
THEOREM InOrderOnceCorrect == Spec => []InOrderOnce
<1>1. Inv => InOrderOnce
  BY DEF Inv
<1> QED BY <1>1, InvCorrect, PTL

-----------------------------------------------------------------------------
(* In which order the calls began, and which ids were free then.           *)

\* The calls around one began before it, and it was given no id of what was
\* open then: what is open still, of a call that began before it, has none of
\* its ids.
AgeInv ==
  /\ \A i, j \in DOMAIN stack :
       i < j /\ stack[i].kind = "subscribe" /\ stack[j].kind = "subscribe"
         => stack[i].id < stack[j].id
  /\ \A x \in live, s \in DOMAIN asked : x.call < s => x.cid \notin CidsOf(s)

\* what a step does to the running calls, and to what is open
LEMMA AgeSteps ==
  ASSUME Inv, [Next]_vars
  PROVE  \/ \E l \in Lists : Subscribe(l)
         \/ /\ asked' = asked /\ live' \subseteq live
            /\ \/ stack' = stack
               \/ stack # <<>> /\ Return
               \/ stack # <<>> /\ \E f \in Frame : SetTop(f) /\ f.kind = Top.kind /\ f.id = Top.id
               \/ \E f \in Frame : stack' = Append(stack, f) /\ f.kind = "rpc"
<1> DEFINE Moves == stack # <<>> /\ \E f \in Frame : SetTop(f) /\ f.kind = Top.kind /\ f.id = Top.id
<1>1. stack # <<>> => Top \in Frame /\ Top.next + 1 \in Nat
  BY TopType DEF Inv, Frame
<1>2. ASSUME stack # <<>>, NEW p \in {"wait", "iter", "fun"}, NEW n \in Nat, NEW m \in Nat,
             SetTop([Top EXCEPT !.phase = p, !.next = n, !.last = m])
      PROVE  Moves
  <2> DEFINE f == [Top EXCEPT !.phase = p, !.next = n, !.last = m]
  <2>1. f \in Frame /\ f.kind = Top.kind /\ f.id = Top.id
    BY <1>1, <1>2 DEF Frame
  <2>2. SetTop(f)
    BY <1>2
  <2> HIDE DEF f
  <2> QED BY <1>2, <2>1, <2>2
<1>3. stack # <<>> => Top.phase \in {"wait", "iter", "fun"} /\ Top.next \in Nat /\ Top.last \in Nat
  BY <1>1 DEF Frame
<1>4. CASE SubscribeEvent
  <2>1. CASE Unsubscribe
    BY <1>4, <2>1 DEF SubscribeEvent, Unsubscribe, Waits
  <2>2. CASE ~Unsubscribe
    <3>1. stack # <<>> /\ queue # <<>> /\ asked' = asked /\ live' = live
      BY <1>4, <2>2 DEF SubscribeEvent, Waits
    <3>2. Head(queue).lo \in Nat /\ Head(queue).hi \in Nat
      <4>1. Head(queue) \in Event
        BY <3>1 DEF Inv, TypeOK
      <4> QED BY <4>1 DEF Event
    <3>3. stack' = stack \/ SetTop([Top EXCEPT !.phase = "iter", !.next = Head(queue).lo,
                                               !.last = Head(queue).hi])
      BY <1>4, <2>2 DEF SubscribeEvent
    <3> QED BY <1>2, <3>1, <3>2, <3>3
  <2> QED BY <2>1, <2>2
<1>5. CASE Hear \/ PassHidden \/ EventDone \/ FunReturns
  <2>1. stack # <<>> /\ asked' = asked /\ live' = live
    BY <1>5 DEF Hear, PassHidden, EventDone, FunReturns, Iterating
  <2>2. \/ SetTop([Top EXCEPT !.phase = "fun", !.next = Top.next + 1])
        \/ SetTop([Top EXCEPT !.next = Top.next + 1])
        \/ SetTop([Top EXCEPT !.phase = "wait"])
        \/ SetTop([Top EXCEPT !.phase = "iter"])
    BY <1>5 DEF Hear, PassHidden, EventDone, FunReturns, Iterating
  <2>3. /\ [Top EXCEPT !.phase = "fun", !.next = Top.next + 1]
             = [Top EXCEPT !.phase = "fun", !.next = Top.next + 1, !.last = Top.last]
        /\ [Top EXCEPT !.next = Top.next + 1]
             = [Top EXCEPT !.phase = Top.phase, !.next = Top.next + 1, !.last = Top.last]
        /\ [Top EXCEPT !.phase = "wait"]
             = [Top EXCEPT !.phase = "wait", !.next = Top.next, !.last = Top.last]
        /\ [Top EXCEPT !.phase = "iter"]
             = [Top EXCEPT !.phase = "iter", !.next = Top.next, !.last = Top.last]
    BY <1>1, <2>1 DEF Frame
  <2>4. CASE SetTop([Top EXCEPT !.phase = "fun", !.next = Top.next + 1])
    <3>1. SetTop([Top EXCEPT !.phase = "fun", !.next = Top.next + 1, !.last = Top.last])
      BY <2>3, <2>4
    <3> QED BY <1>1, <1>2, <1>3, <2>1, <3>1
  <2>5. CASE SetTop([Top EXCEPT !.next = Top.next + 1])
    <3>1. SetTop([Top EXCEPT !.phase = Top.phase, !.next = Top.next + 1, !.last = Top.last])
      BY <2>3, <2>5
    <3> QED BY <1>1, <1>2, <1>3, <2>1, <3>1
  <2>6. CASE SetTop([Top EXCEPT !.phase = "wait"])
    <3>1. SetTop([Top EXCEPT !.phase = "wait", !.next = Top.next, !.last = Top.last])
      BY <2>3, <2>6
    <3> QED BY <1>2, <1>3, <2>1, <3>1
  <2>7. CASE SetTop([Top EXCEPT !.phase = "iter"])
    <3>1. SetTop([Top EXCEPT !.phase = "iter", !.next = Top.next, !.last = Top.last])
      BY <2>3, <2>7
    <3> QED BY <1>2, <1>3, <2>1, <3>1
  <2> QED BY <2>2, <2>4, <2>5, <2>6, <2>7
<1>6. CASE RpcEvent \/ RpcRaises
  BY <1>6 DEF RpcEvent, RpcRaises, Waits
<1>7. CASE SubscribeRaises \/ FunInterrupted
  BY <1>7 DEF SubscribeRaises, FunInterrupted, Leak, Unsubscribe
<1>8. CASE Accessor
  <2> DEFINE f == [kind |-> "rpc", id |-> nreq + 1, phase |-> "wait", next |-> 1, last |-> 0]
  <2>1. f \in Frame /\ f.kind = "rpc"
    BY DEF Inv, TypeOK, Frame
  <2> QED BY <1>8, <2>1 DEF Accessor
<1>9. CASE Interrupt \/ BackendStep \/ UNCHANGED vars
  BY <1>9 DEF Interrupt, BackendStep, Tick, Close, Respond, Notice, vars
<1> QED BY <1>4, <1>5, <1>6, <1>7, <1>8, <1>9 DEF Next, CallStep, UserStep

LEMMA AgeStep == Inv /\ AgeInv /\ [Next]_vars => AgeInv'
<1> SUFFICES ASSUME Inv, AgeInv, [Next]_vars PROVE AgeInv'
  OBVIOUS
<1>0. /\ TypeOK /\ stack \in Seq(Frame) /\ DOMAIN stack = 1 .. Len(stack) /\ Len(stack) \in Nat
      /\ DOMAIN asked = 1 .. Len(asked) /\ Len(asked) \in Nat /\ asked \in Seq(Lists)
  BY DEF Inv, TypeOK
<1>1. ASSUME asked' = asked, live' \subseteq live,
             \A i \in DOMAIN stack' : \/ /\ i \in DOMAIN stack
                                         /\ stack'[i].kind = stack[i].kind /\ stack'[i].id = stack[i].id
                                      \/ stack'[i].kind = "rpc"
      PROVE  AgeInv'
  BY <1>1 DEF AgeInv, CidsOf
<1>2. ASSUME stack # <<>>, Return
      PROVE  \A i \in DOMAIN stack' : i \in DOMAIN stack /\ stack'[i] = stack[i]
  BY <1>0, <1>2, ReturnStack
<1>3. ASSUME stack # <<>>, NEW f \in Frame, SetTop(f), f.kind = Top.kind, f.id = Top.id
      PROVE  \A i \in DOMAIN stack' : /\ i \in DOMAIN stack
                                      /\ stack'[i].kind = stack[i].kind /\ stack'[i].id = stack[i].id
  BY <1>0, <1>3, SetTopStack DEF Top
<1>4. ASSUME NEW f \in Frame, stack' = Append(stack, f), f.kind = "rpc"
      PROVE  \A i \in DOMAIN stack' : \/ i \in DOMAIN stack /\ stack'[i] = stack[i]
                                      \/ stack'[i].kind = "rpc"
  <2>1. /\ DOMAIN stack' = 1 .. Len(stack) + 1 /\ stack'[Len(stack) + 1] = f
        /\ \A i \in DOMAIN stack : stack'[i] = stack[i]
    BY <1>0, <1>4, PushStack
  <2>2. \A i \in DOMAIN stack' : i \in DOMAIN stack \/ i = Len(stack) + 1
    BY <1>0, <2>1
  <2> QED BY <1>4, <2>1, <2>2
<1>5. ASSUME NEW l \in Lists, Subscribe(l) PROVE AgeInv'
  <2> DEFINE s0 == Len(asked) + 1
             new == {[call |-> Len(asked) + 1, cid |-> i - 1] : i \in DOMAIN l}
             f == [kind |-> "subscribe", id |-> s0, phase |-> "wait", next |-> 1, last |-> 0]
  <2>1. /\ asked' = Append(asked, l) /\ live' = live \cup new /\ stack' = Append(stack, f)
        /\ \A x \in live : x.cid \notin 0 .. Len(l) - 1
    BY <1>5 DEF Subscribe, CidsFree
  <2>2. f \in Frame /\ f.id = s0 /\ s0 \in Nat
    BY <1>0 DEF Frame
  <2>3. \A x \in new : x.call = s0
    OBVIOUS
  <2>4. /\ DOMAIN asked' = 1 .. s0 /\ asked'[s0] = l
        /\ \A s \in DOMAIN asked : asked'[s] = asked[s]
    BY <1>0, <2>1, PushAsked
  <2> HIDE DEF f, new
  <2>5. /\ DOMAIN stack' = 1 .. Len(stack) + 1 /\ stack'[Len(stack) + 1] = f
        /\ \A i \in DOMAIN stack : stack'[i] = stack[i]
    BY <1>0, <2>1, <2>2, PushStack
  <2>6. ASSUME NEW i \in DOMAIN stack', NEW j \in DOMAIN stack', i < j,
               stack'[i].kind = "subscribe", stack'[j].kind = "subscribe"
        PROVE  stack'[i].id < stack'[j].id
    <3>1. i \in DOMAIN stack /\ stack'[i] = stack[i]
      BY <1>0, <2>5, <2>6
    <3>2. CASE j \in DOMAIN stack
      BY <2>5, <2>6, <3>1, <3>2 DEF AgeInv
    <3>3. CASE j = Len(stack) + 1
      <4>1. stack[i].id \in DOMAIN asked
        BY <2>6, <3>1 DEF Inv, FramesInv
      <4> QED BY <1>0, <2>2, <2>5, <3>1, <3>3, <4>1
    <3> QED BY <1>0, <2>5, <3>2, <3>3
  <2>7. ASSUME NEW x \in live', NEW s \in DOMAIN asked', x.call < s
        PROVE  x.cid \notin CidsOf(s)'
    <3>1. s \in DOMAIN asked \/ s = s0
      BY <1>0, <2>4
    <3>2. x \in live
      BY <1>0, <2>1, <2>3, <2>4, <2>7
    <3>3. CASE s \in DOMAIN asked
      BY <2>4, <2>7, <3>2, <3>3 DEF AgeInv, CidsOf
    <3>4. CASE s = s0
      BY <2>1, <2>4, <3>2, <3>4 DEF CidsOf
    <3> QED BY <3>1, <3>3, <3>4
  <2> QED BY <2>6, <2>7 DEF AgeInv
<1> QED BY <1>1, <1>2, <1>3, <1>4, <1>5, AgeSteps

\* the order of the calls, and of their ids
LEMMA AgeCorrect == Spec => []AgeInv
<1>1. Init => AgeInv
  <2>1. DOMAIN <<>> = {}
    <3>1. <<>> \in Seq({}) /\ Len(<<>>) = 0
      OBVIOUS
    <3> QED BY <3>1
  <2> QED BY <2>1 DEF Init, AgeInv
<1> QED BY <1>1, AgeStep, InvCorrect, PTL DEF Spec

-----------------------------------------------------------------------------
(* The topics a subscribe() hands to the user's function, and what its    *)
(* orderly end cancels.                                                    *)

\* Correlation ids: no two open subscriptions share one; what was cancelled
\* belongs to calls that are over; a message is about a subscription that was
\* asked for, and what was told about one there was.
CidInv ==
  /\ \A x, y \in live : x.cid = y.cid => x = y
  /\ \A x \in cancelled : x.call \notin Running
  /\ \A n \in DOMAIN about : about[n].call \in DOMAIN asked /\ about[n] \in Subs(about[n].call)
  /\ \A k \in DOMAIN told : told[k].n \in DOMAIN about

\* a topic that was told stays excused: what the backend closed stays closed
LEMMA TopicKeep ==
  ASSUME TopicTrue, CidInv, UNCHANGED told,
         DOMAIN asked \subseteq DOMAIN asked', \A s \in DOMAIN asked : asked'[s] = asked[s],
         \A n \in DOMAIN about : about'[n] = about[n],
         (live' \cup cancelled') \cap AllSubs \subseteq live \cup cancelled
  PROVE  TopicTrue'
<1>1. \A s \in DOMAIN asked : Subs(s)' = Subs(s)
  BY DEF Subs
<1>2. \A x \in AllSubs : x \in AllSubs'
  BY <1>1 DEF AllSubs
<1>3. \A x \in Closed : x \in Closed'
  <2> SUFFICES ASSUME NEW x \in Closed PROVE x \in Closed'
    OBVIOUS
  <2>1. x \in AllSubs /\ x \notin live \cup cancelled
    BY DEF Closed
  <2>2. x \notin live' \cup cancelled'
    BY <2>1
  <2> QED BY <1>2, <2>1, <2>2 DEF Closed
<1> SUFFICES ASSUME NEW i \in DOMAIN told
             PROVE  LET x == about'[told'[i].n] IN
                      \/ told'[i].topic \in {"none", asked'[x.call][x.cid + 1]}
                      \/ x \in Closed' \/ [call |-> told'[i].call, cid |-> x.cid] \in Closed'
  BY DEF TopicTrue
<1> DEFINE x == about[told[i].n]
<1>4. about'[told'[i].n] = x /\ x.call \in DOMAIN asked
  BY DEF CidInv
<1>5. \/ told[i].topic \in {"none", asked[x.call][x.cid + 1]}
      \/ x \in Closed \/ [call |-> told[i].call, cid |-> x.cid] \in Closed
  BY DEF TopicTrue
<1> QED BY <1>3, <1>4, <1>5

LEMMA SubsInAll ==
  ASSUME NEW s \in DOMAIN asked, NEW x \in Subs(s)
  PROVE  x \in AllSubs
BY DEF AllSubs

\* steps that open nothing, cancel nothing, say nothing and start no subscribe()
LEMMA TopicQuiet ==
  ASSUME Inv, CidInv, TopicTrue, UNCHANGED <<asked, cancelled, about, told>>,
         live' \subseteq live, Running' \subseteq Running
  PROVE  CidInv' /\ TopicTrue'
<1>1. \A s : Subs(s)' = Subs(s)
  BY DEF Subs
<1>2. CidInv'
  BY <1>1 DEF CidInv
<1>3. TopicTrue'
  BY TopicKeep
<1> QED BY <1>2, <1>3

\* the call that ends does not run any more, and starts none
LEMMA RunningReturn ==
  ASSUME TypeOK, FramesInv, stack # <<>>, Return
  PROVE  Running' \subseteq Running /\ (Top.kind = "subscribe" => Top.id \notin Running')
<1>1. /\ DOMAIN stack' = 1 .. Len(stack) - 1 /\ DOMAIN stack = 1 .. Len(stack) /\ Len(stack) \in Nat
      /\ \A i \in DOMAIN stack' : stack'[i] = stack[i]
  BY ReturnStack DEF TypeOK
<1>2. \A i \in DOMAIN stack' : i \in DOMAIN stack /\ i # Len(stack)
  BY <1>1
<1>3. Len(stack) \in DOMAIN stack /\ Top = stack[Len(stack)]
  BY TopType
<1>4. Running' \subseteq Running
  BY <1>1, <1>2 DEF Running
<1>5. ASSUME Top.kind = "subscribe" PROVE Top.id \notin Running'
  BY <1>1, <1>2, <1>3, <1>5 DEF Running, FramesInv
<1> QED BY <1>4, <1>5

\* what an orderly end cancels, of others than the call that ends, belongs to
\* calls that its function made and that are over
LEMMA CancelledCalls ==
  ASSUME Inv, AgeInv, stack # <<>>, Top.kind = "subscribe",
         NEW x \in live, x.cid \in CidsOf(Top.id), x.call # Top.id
  PROVE  x.call > Top.id /\ x.call \notin Running /\ x.call \in raised
<1>1. /\ Len(stack) \in DOMAIN stack /\ Top = stack[Len(stack)]
      /\ DOMAIN stack = 1 .. Len(stack) /\ Len(stack) \in Nat
  BY TopType DEF Inv, TypeOK
<1>2. Top.id \in DOMAIN asked /\ x.call \in DOMAIN asked
  BY <1>1 DEF Inv, FramesInv
<1>3. Top.id \in Nat /\ x.call \in Nat
  BY <1>2, ElementTypes DEF Inv
<1>4. ~(x.call < Top.id)
  BY <1>2 DEF AgeInv
<1>5. \A i \in DOMAIN stack : stack[i].kind = "subscribe" => stack[i].id < Top.id \/ stack[i].id = Top.id
  BY <1>1 DEF AgeInv
<1>6. x.call > Top.id
  BY <1>3, <1>4
<1>7. x.call \notin Running
  <2> SUFFICES ASSUME NEW i \in DOMAIN stack, stack[i].kind = "subscribe", stack[i].id = x.call PROVE FALSE
    BY DEF Running
  <2> QED BY <1>3, <1>5, <1>6
<1> QED BY <1>6, <1>7 DEF Inv, LiveOwned

LEMMA TopicUnsubscribe ==
  ASSUME Inv, AgeInv, CidInv, TopicTrue, stack # <<>>, Top.kind = "subscribe", Unsubscribe,
         UNCHANGED <<asked, about, told>>
  PROVE  CidInv' /\ TopicTrue'
<1>1. Running' \subseteq Running /\ Top.id \notin Running'
  BY RunningReturn DEF Inv, Unsubscribe
<1>2. \A s : Subs(s)' = Subs(s)
  BY DEF Subs
<1>3. live' \subseteq live /\ live' \cup cancelled' \subseteq live \cup cancelled
  BY DEF Unsubscribe
<1>4. \A x \in cancelled' : x.call \notin Running'
  <2>1. \A x \in cancelled' : x \in cancelled \/ (x \in live /\ x.cid \in CidsOf(Top.id))
    BY DEF Unsubscribe
  <2> QED BY <1>1, <2>1, CancelledCalls DEF CidInv
<1>5. CidInv'
  BY <1>2, <1>3, <1>4 DEF CidInv
<1>6. TopicTrue'
  BY <1>3, TopicKeep
<1> QED BY <1>5, <1>6

LEMMA TopicSubscribe ==
  ASSUME SubscriptionAssumption, Inv, CidInv, TopicTrue, NEW l \in Lists, Subscribe(l)
  PROVE  CidInv' /\ TopicTrue'
<1> DEFINE s0 == Len(asked) + 1
           new == {[call |-> Len(asked) + 1, cid |-> i - 1] : i \in DOMAIN l}
<1>1. /\ asked' = Append(asked, l) /\ live' = live \cup new
      /\ UNCHANGED <<cancelled, about, queue, told>>
      /\ \A x \in live : x.cid \notin 0 .. Len(l) - 1
  BY DEF Subscribe, CidsFree
<1>2. l \in Seq(STRING)
  BY DEF SubscriptionAssumption
<1>3. /\ DOMAIN asked' = 1 .. Len(asked) + 1 /\ DOMAIN asked = 1 .. Len(asked) /\ Len(asked) \in Nat
      /\ \A s \in DOMAIN asked : asked'[s] = asked[s]
  BY <1>1, PushAsked DEF Inv, TypeOK
<1>4. \A x \in new : /\ x.cid \in 0 .. Len(l) - 1 /\ x.call = s0
                     /\ \A y \in new : x.cid = y.cid => x = y
  <2>1. \A i \in DOMAIN l : i \in Nat /\ i \in 1 .. Len(l) /\ Len(l) \in Nat
    BY <1>2
  <2> QED BY <2>1
<1>5. \A s \in DOMAIN asked : Subs(s)' = Subs(s) /\ s \in DOMAIN asked' /\ s # s0
  BY <1>3 DEF Subs
<1>6. \A x \in AllSubs : x.call # s0
  BY <1>5 DEF AllSubs, Subs
<1>7. Running' \subseteq Running \cup {s0}
  <2> DEFINE f == [kind |-> "subscribe", id |-> s0, phase |-> "wait", next |-> 1, last |-> 0]
  <2>1. f \in Frame /\ f.id = s0
    <3>1. s0 \in Nat
      BY <1>3
    <3> QED BY <3>1 DEF Frame
  <2>2. stack' = Append(stack, f)
    BY DEF Subscribe
  <2> HIDE DEF f
  <2>3. \A i \in DOMAIN stack' : (i \in DOMAIN stack /\ stack'[i] = stack[i]) \/ stack'[i] = f
    <3>1. /\ DOMAIN stack' = 1 .. Len(stack) + 1 /\ DOMAIN stack = 1 .. Len(stack)
          /\ \A i \in DOMAIN stack : stack'[i] = stack[i]
          /\ stack'[Len(stack) + 1] = f /\ Len(stack) \in Nat
      BY <2>1, <2>2, PushStack, SMTT(20) DEF Inv, TypeOK
    <3> QED BY <3>1
  <2> QED BY <2>1, <2>3 DEF Running
<1> HIDE DEF new, s0
<1>8. \A x \in cancelled : x.call \in DOMAIN asked
  BY DEF Inv, FramesInv
<1>9. CidInv'
  <2>1. \A x, y \in live' : x.cid = y.cid => x = y
    BY <1>1, <1>4 DEF CidInv
  <2>2. \A x \in cancelled' : x.call \notin Running'
    BY <1>1, <1>5, <1>7, <1>8 DEF CidInv
  <2>3. \A n \in DOMAIN about' : about'[n].call \in DOMAIN asked' /\ about'[n] \in Subs(about[n].call)'
    BY <1>1, <1>5 DEF CidInv
  <2> QED BY <1>1, <2>1, <2>2, <2>3 DEF CidInv
<1>10. TopicTrue'
  <2>1. (live' \cup cancelled') \cap AllSubs \subseteq live \cup cancelled
    BY <1>1, <1>4, <1>6
  <2> QED BY <1>1, <1>3, <1>5, <2>1, TopicKeep
<1> QED BY <1>9, <1>10

LEMMA TopicReport ==
  ASSUME Inv, CidInv, TopicTrue, NEW xs \in Seq(live), Report(xs), live' \subseteq live,
         UNCHANGED <<asked, cancelled, stack, told>>
  PROVE  CidInv' /\ TopicTrue'
<1>1. about' = about \o xs /\ about \in Seq(Sub) /\ live \subseteq Sub
  BY DEF Report, Inv, TypeOK
<1>2. /\ \A n \in DOMAIN about : n \in DOMAIN about' /\ about'[n] = about[n]
      /\ \A n \in DOMAIN about' : n \in DOMAIN about \/ about'[n] \in live
  BY <1>1
<1>3. \A s : Subs(s)' = Subs(s)
  BY DEF Subs
<1>4. \A x \in live : x.call \in DOMAIN asked /\ x \in Subs(x.call)
  BY DEF Inv, FramesInv
<1>5. Running' = Running
  BY DEF Running
<1>6. CidInv'
  BY <1>2, <1>3, <1>4, <1>5 DEF CidInv
<1>7. TopicTrue'
  BY <1>2, TopicKeep
<1> QED BY <1>6, <1>7

\* the topic of a message is right, or an id it shares was given out twice
LEMMA TopicHear ==
  ASSUME Inv, CidInv, TopicTrue, Hear
  PROVE  CidInv' /\ TopicTrue'
<1> DEFINE n == Top.next
           s == Top.id
           x == about[n]
           e == [n |-> n, call |-> s, topic |-> Topic(s, n)]
           f == [Top EXCEPT !.phase = "fun", !.next = @ + 1]
           Right(t) == \/ t.topic \in {"none", asked[about[t.n].call][about[t.n].cid + 1]}
                       \/ about[t.n] \in Closed \/ [call |-> t.call, cid |-> about[t.n].cid] \in Closed
<1>1. /\ stack # <<>> /\ Top.phase = "iter" /\ n <= Top.last /\ x \notin cancelled
      /\ told' = Append(told, e) /\ SetTop(f)
      /\ UNCHANGED <<asked, live, cancelled, about, queue, nreq, owed, intr, raised>>
  BY DEF Hear, Iterating
<1>2. Top.kind = "subscribe" /\ Top \in Frame /\ Len(stack) \in DOMAIN stack /\ Top = stack[Len(stack)]
  BY <1>1, NotWaiting, TopType DEF Inv
<1>3. s \in DOMAIN asked /\ s \in Running /\ n >= 1
  BY <1>2 DEF Inv, FramesInv, Running
<1>4. n \in DOMAIN about
  <2>1. n \in Nat /\ Top.last \in Nat /\ Top.last <= Len(about)
    BY <1>2, ElementTypes DEF Inv, OrderInv
  <2> QED BY <1>1, <1>3, <2>1, ElementTypes DEF Inv
<1>5. x.call \in DOMAIN asked /\ x \in Subs(x.call) /\ x \in Sub
  BY <1>4, ElementTypes DEF CidInv, Inv
<1>6. x \in live \/ x \in Closed
  BY <1>1, <1>5, SubsInAll DEF Closed
<1>7. Right(e)
  <2>1. Topic(s, n) = "none" \/ Topic(s, n) = asked[x.call][x.cid + 1]
          \/ x \in Closed \/ [call |-> s, cid |-> x.cid] \in Closed
    <3>1. CASE x.cid < Len(asked[s])
      <4> DEFINE y == [call |-> s, cid |-> x.cid]
      <4>1. y \in Subs(s)
        <5>1. asked[s] \in Seq(STRING)
          <6>1. asked[s] \in Lists
            BY <1>3 DEF Inv, TypeOK
          <6>2. \A l \in Lists : l \in Seq(STRING)
            BY SubscriptionAssumption DEF SubscriptionAssumption
          <6> QED BY <6>1, <6>2
        <5>2. x.cid \in Nat /\ x.cid + 1 \in DOMAIN asked[s]
          BY <1>5, <3>1, <5>1 DEF Sub
        <5>3. x.cid = (x.cid + 1) - 1
          BY <5>2
        <5> QED BY <5>2, <5>3 DEF Subs
      <4>2. y \notin cancelled
        BY <1>3 DEF CidInv
      <4>3. y \in live \/ y \in Closed
        BY <1>3, <4>1, <4>2, SubsInAll DEF Closed
      <4>4. x \in live /\ y \in live => x = y
        BY DEF CidInv
      <4>5. x = y => Topic(s, n) = asked[x.call][x.cid + 1]
        BY <3>1 DEF Topic
      <4> QED BY <1>6, <4>3, <4>4, <4>5
    <3>2. CASE ~(x.cid < Len(asked[s]))
      BY <3>2 DEF Topic
    <3> QED BY <3>1, <3>2
  <2> QED BY <2>1
<1>8. \A k \in DOMAIN told' : (k \in DOMAIN told /\ told'[k] = told[k]) \/ told'[k] = e
  <2>1. told \in Seq(Told)
    BY DEF Inv, TypeOK
  <2> QED BY <1>1, <2>1
<1>9. \A k \in DOMAIN told : Right(told[k])
  BY DEF TopicTrue
<1>10. Closed' = Closed
  BY <1>1 DEF Closed, AllSubs, Subs
<1>11. TopicTrue'
  <2>1. \A k \in DOMAIN told' : Right(told'[k])
    BY <1>7, <1>8, <1>9
  <2> QED BY <1>1, <1>10, <2>1 DEF TopicTrue
<1>12. Running' = Running
  <2>1. /\ DOMAIN stack' = DOMAIN stack
        /\ \A i \in DOMAIN stack : stack'[i] = IF i = Len(stack) THEN f ELSE stack[i]
    <3>1. f \in Frame
      <4>1. Top.next \in Nat /\ Top.next + 1 \in Nat
        BY <1>2 DEF Frame
      <4> QED BY <1>2, <4>1 DEF Frame
    <3> QED BY <1>1, <3>1, SetTopStack DEF Inv, TypeOK
  <2>2. f.kind = Top.kind /\ f.id = Top.id
    BY <1>2 DEF Frame
  <2> HIDE DEF f
  <2>3. \A i \in DOMAIN stack : stack'[i].kind = stack[i].kind /\ stack'[i].id = stack[i].id
    BY <1>2, <2>1, <2>2
  <2> QED BY <2>1, <2>3 DEF Running
<1>13. CidInv'
  <2>1. \A z : Subs(z)' = Subs(z)
    BY <1>1 DEF Subs
  <2>2. \A k \in DOMAIN told' : told'[k].n \in DOMAIN about
    BY <1>4, <1>8 DEF CidInv
  <2> QED BY <1>1, <1>12, <2>1, <2>2 DEF CidInv
<1> QED BY <1>11, <1>13

LEMMA TopicStep ==
  ASSUME SubscriptionAssumption, Inv, AgeInv, CidInv, TopicTrue, [Next]_vars
  PROVE  CidInv' /\ TopicTrue'
<1>1. CASE CallStep
  <2>1. CASE SubscribeEvent
    <3>1. /\ stack # <<>> /\ Top.kind = "subscribe" /\ Top.phase = "wait"
          /\ UNCHANGED <<asked, about, nreq, owed, told>>
      BY <2>1 DEF SubscribeEvent, Waits
    <3>2. CASE Unsubscribe
      BY <3>1, <3>2, TopicUnsubscribe
    <3>3. CASE SetTop([Top EXCEPT !.phase = "iter", !.next = Head(queue).lo, !.last = Head(queue).hi])
                 /\ UNCHANGED <<live, cancelled, intr, raised>> /\ queue # <<>>
      <4> DEFINE f == [Top EXCEPT !.phase = "iter", !.next = Head(queue).lo, !.last = Head(queue).hi]
      <4>1. Head(queue) \in Event
        BY <3>3 DEF Inv, TypeOK
      <4>2. /\ Top \in Frame /\ Top = stack[Len(stack)] /\ f \in Frame
            /\ f.kind = Top.kind /\ f.id = Top.id
        BY <3>1, <4>1, TopType DEF Inv, Frame, Event
      <4>3. /\ DOMAIN stack' = DOMAIN stack
            /\ \A i \in DOMAIN stack : stack'[i] = IF i = Len(stack) THEN f ELSE stack[i]
        BY <3>1, <3>3, <4>2, SetTopStack DEF Inv, TypeOK
      <4> HIDE DEF f
      <4>4. \A i \in DOMAIN stack : stack'[i].kind = stack[i].kind /\ stack'[i].id = stack[i].id
        BY <4>2, <4>3
      <4>5. Running' = Running
        BY <4>3, <4>4 DEF Running
      <4> QED BY <3>1, <3>3, <4>5, TopicQuiet
    <3>4. CASE stack' = stack /\ UNCHANGED <<live, cancelled, intr, raised>>
      <4>1. Running' = Running
        BY <3>4 DEF Running
      <4> QED BY <3>1, <3>4, <4>1, TopicQuiet
    <3> QED BY <2>1, <3>2, <3>3, <3>4 DEF SubscribeEvent
  <2>2. CASE Hear
    BY <2>2, TopicHear
  <2>3. CASE PassHidden \/ EventDone \/ FunReturns
    <3>1. stack # <<>> /\ UNCHANGED <<asked, live, cancelled, about, told>>
      BY <2>3 DEF PassHidden, EventDone, FunReturns, Iterating
    <3>2. Top \in Frame /\ Top = stack[Len(stack)] /\ Top.next \in Nat /\ Top.next + 1 \in Nat
      BY <3>1, TopType, ElementTypes DEF Inv
    <3>3. \E f \in Frame : SetTop(f) /\ f.kind = Top.kind /\ f.id = Top.id
      <4>1. CASE PassHidden
        <5> DEFINE g == [Top EXCEPT !.next = @ + 1]
        <5>1. g \in Frame /\ g.kind = Top.kind /\ g.id = Top.id
          BY <3>2 DEF Frame
        <5>2. SetTop(g)
          BY <4>1 DEF PassHidden
        <5> HIDE DEF g
        <5> QED BY <5>1, <5>2
      <4>2. CASE EventDone
        <5> DEFINE g == [Top EXCEPT !.phase = "wait"]
        <5>1. g \in Frame /\ g.kind = Top.kind /\ g.id = Top.id
          BY <3>2 DEF Frame
        <5>2. SetTop(g)
          BY <4>2 DEF EventDone
        <5> HIDE DEF g
        <5> QED BY <5>1, <5>2
      <4>3. CASE FunReturns
        <5> DEFINE g == [Top EXCEPT !.phase = "iter"]
        <5>1. g \in Frame /\ g.kind = Top.kind /\ g.id = Top.id
          BY <3>2 DEF Frame
        <5>2. SetTop(g)
          BY <4>3 DEF FunReturns
        <5> HIDE DEF g
        <5> QED BY <5>1, <5>2
      <4> QED BY <2>3, <4>1, <4>2, <4>3
    <3>4. PICK f \in Frame : SetTop(f) /\ f.kind = Top.kind /\ f.id = Top.id
      BY <3>3
    <3>5. /\ DOMAIN stack' = DOMAIN stack
          /\ \A i \in DOMAIN stack : stack'[i] = IF i = Len(stack) THEN f ELSE stack[i]
      BY <3>1, <3>4, SetTopStack DEF Inv, TypeOK
    <3>6. \A i \in DOMAIN stack : stack'[i].kind = stack[i].kind /\ stack'[i].id = stack[i].id
      BY <3>2, <3>4, <3>5
    <3>7. Running' = Running
      BY <3>5, <3>6 DEF Running
    <3> QED BY <3>1, <3>7, TopicQuiet
  <2>4. CASE RpcEvent
    <3>1. /\ stack # <<>> /\ (stack' = stack \/ Return)
          /\ UNCHANGED <<asked, live, cancelled, about, told>>
      BY <2>4 DEF RpcEvent, Waits
    <3>2. Running' \subseteq Running
      BY <3>1, RunningReturn DEF Inv, Running
    <3> QED BY <3>1, <3>2, TopicQuiet
  <2> QED BY <1>1, <2>1, <2>2, <2>3, <2>4 DEF CallStep
<1>2. CASE UserStep
  <2>1. ASSUME NEW l \in Lists, Subscribe(l) PROVE CidInv' /\ TopicTrue'
    BY <2>1, TopicSubscribe
  <2>2. CASE Accessor
    <3>1. UNCHANGED <<asked, live, cancelled, about, told>>
      BY <2>2 DEF Accessor
    <3> DEFINE f == [kind |-> "rpc", id |-> nreq + 1, phase |-> "wait", next |-> 1, last |-> 0]
    <3>2. f \in Frame /\ f.kind = "rpc" /\ stack' = Append(stack, f)
      BY <2>2 DEF Accessor, Frame, Inv, TypeOK
    <3> HIDE DEF f
    <3>3. /\ DOMAIN stack' = 1 .. Len(stack) + 1 /\ DOMAIN stack = 1 .. Len(stack)
          /\ \A i \in DOMAIN stack : stack'[i] = stack[i]
          /\ stack'[Len(stack) + 1] = f /\ Len(stack) \in Nat
      BY <3>2, PushStack DEF Inv, TypeOK
    <3>4. \A i \in DOMAIN stack' : (i \in DOMAIN stack /\ stack'[i] = stack[i]) \/ stack'[i].kind = "rpc"
      BY <3>2, <3>3
    <3>5. Running' \subseteq Running
      BY <3>4 DEF Running
    <3> QED BY <3>1, <3>5, TopicQuiet
  <2>3. CASE SubscribeRaises \/ FunInterrupted
    <3>1. /\ stack # <<>> /\ Top.phase # "wait"
          /\ Unsubscribe \/ Leak
          /\ UNCHANGED <<asked, about, queue, nreq, owed, told>>
      BY <2>3 DEF SubscribeRaises, FunInterrupted
    <3>2. CASE Unsubscribe
      BY <3>1, <3>2, NotWaiting, TopicUnsubscribe
    <3>3. CASE Leak
      <4>1. Return /\ UNCHANGED <<live, cancelled>>
        BY <3>3 DEF Leak
      <4>2. Running' \subseteq Running
        BY <3>1, <4>1, RunningReturn DEF Inv
      <4> QED BY <3>1, <4>1, <4>2, TopicQuiet
    <3> QED BY <3>1, <3>2, <3>3
  <2>4. CASE RpcRaises
    <3>1. stack # <<>> /\ Return /\ UNCHANGED <<asked, live, cancelled, about, told>>
      BY <2>4 DEF RpcRaises, Waits
    <3>2. Running' \subseteq Running
      BY <3>1, RunningReturn DEF Inv
    <3> QED BY <3>1, <3>2, TopicQuiet
  <2>5. CASE Interrupt
    <3>1. UNCHANGED <<asked, live, cancelled, about, told, stack>>
      BY <2>5 DEF Interrupt
    <3>2. Running' = Running
      BY <3>1 DEF Running
    <3> QED BY <3>1, <3>2, TopicQuiet
  <2> QED BY <1>2, <2>1, <2>2, <2>3, <2>4, <2>5 DEF UserStep
<1>3. CASE BackendStep
  <2>1. CASE Tick
    <3>1. PICK k \in 1 .. MaxMsgs : \E xs \in [1 .. k -> live] : Report(xs)
      BY <2>1 DEF Tick
    <3>2. PICK xs \in [1 .. k -> live] : Report(xs)
      BY <3>1
    <3>3. xs \in Seq(live)
      BY <3>1, <3>2
    <3>4. UNCHANGED <<asked, live, cancelled, stack, told>>
      BY <2>1 DEF Tick
    <3> QED BY <3>2, <3>3, <3>4, TopicReport
  <2>2. CASE Close
    <3>1. PICK x \in live : Report(<<x>>) /\ live' = live \ {x}
      BY <2>2 DEF Close
    <3>2. <<x>> \in Seq(live)
      OBVIOUS
    <3>3. UNCHANGED <<asked, cancelled, stack, told>>
      BY <2>2 DEF Close
    <3> QED BY <3>1, <3>2, <3>3, TopicReport
  <2>3. ASSUME Notice \/ \E r \in 1 .. MaxReqs : Respond(r) PROVE CidInv' /\ TopicTrue'
    <3>1. UNCHANGED <<asked, live, cancelled, about, told, stack>>
      BY <2>3 DEF Notice, Respond
    <3>2. Running' = Running
      BY <3>1 DEF Running
    <3> QED BY <3>1, <3>2, TopicQuiet
  <2> QED BY <1>3, <2>1, <2>2, <2>3 DEF BackendStep
<1>4. CASE UNCHANGED vars
  <2>1. UNCHANGED <<asked, live, cancelled, about, told, stack>>
    BY <1>4 DEF vars
  <2>2. Running' = Running
    BY <2>1 DEF Running
  <2> QED BY <2>1, <2>2, TopicQuiet
<1> QED BY <1>1, <1>2, <1>3, <1>4 DEF Next

\* ids and topics together
LEMMA CidCorrect == Spec => [](CidInv /\ TopicTrue)
<1>1. Init => CidInv /\ TopicTrue
  <2> SUFFICES ASSUME Init PROVE CidInv /\ TopicTrue
    OBVIOUS
  <2>1. DOMAIN about = {} /\ DOMAIN told = {} /\ live = {} /\ cancelled = {}
    <3>1. DOMAIN <<>> = 1 .. 0
      <4>1. <<>> \in Seq({}) /\ Len(<<>>) = 0
        OBVIOUS
      <4> QED BY <4>1
    <3> QED BY <3>1 DEF Init
  <2> QED BY <2>1 DEF CidInv, TopicTrue
<1>2. Inv /\ AgeInv /\ CidInv /\ TopicTrue /\ [Next]_vars => CidInv' /\ TopicTrue'
  BY SubscriptionAssumption, TopicStep
<1> QED BY <1>1, <1>2, InvCorrect, AgeCorrect, PTL DEF Spec

\* The topic handed to the user's function is the security the message is
\* about, unless the backend has closed a subscription with the same
\* correlation id, which alone lets the id be given out again.
THEOREM TopicTrueCorrect == Spec => []TopicTrue
BY CidCorrect, PTL

\* An orderly end cancels what its own call opened, or what was given an id
\* that the backend had closed for it.
LEMMA CancelsOwnStep ==
  ASSUME Inv, AgeInv, CidInv, [Next]_vars, NEW x \in cancelled' \ cancelled
  PROVE  \/ x.call = Top.id
         \/ /\ x.call > Top.id /\ x.call \in raised
            /\ [call |-> Top.id, cid |-> x.cid] \in Closed
<1>1. stack # <<>> /\ Top.kind = "subscribe" /\ Unsubscribe
  <2>1. CASE CallStep
    BY <2>1 DEF CallStep, SubscribeEvent, Hear, PassHidden, EventDone, FunReturns, RpcEvent, Waits
  <2>2. CASE UserStep
    <3>1. stack # <<>> /\ Top.phase # "wait" /\ Unsubscribe
      BY <2>2 DEF UserStep, Subscribe, Accessor, SubscribeRaises, Leak, FunInterrupted, RpcRaises, Interrupt
    <3> QED BY <3>1, NotWaiting
  <2>3. CASE BackendStep
    BY <2>3 DEF BackendStep, Tick, Close, Respond, Notice
  <2> QED BY <2>1, <2>2, <2>3 DEF Next, vars
<1>2. x \in live /\ x.cid \in CidsOf(Top.id)
  BY <1>1 DEF Unsubscribe
<1>3. CASE x.call # Top.id
  <2> DEFINE y == [call |-> Top.id, cid |-> x.cid]
  <2>1. Top.id \in DOMAIN asked /\ Top.id \in Running
    BY <1>1, TopType DEF Inv, FramesInv, Running
  <2>2. y \in AllSubs
    BY <1>2, <2>1, SubsCids, SubsInAll DEF Inv
  <2>3. y \notin live
    BY <1>2, <1>3 DEF CidInv
  <2>4. y \notin cancelled
    BY <2>1 DEF CidInv
  <2> QED BY <1>1, <1>2, <1>3, <2>2, <2>3, <2>4, CancelledCalls DEF Closed
<1> QED BY <1>3

\* What subscribe() cancels at its end is its own, and nothing of the calls
\* around it or of those leaked before it began.  Only an id that the backend
\* had closed for it can stand for another's, one that its function opened.
THEOREM CancelsOwnCorrect == Spec => CancelsOwn
<1>1. Inv /\ AgeInv /\ CidInv /\ [Next]_vars =>
        [\A x \in cancelled' \ cancelled :
           \/ x.call = Top.id
           \/ /\ x.call > Top.id /\ x.call \in raised
              /\ [call |-> Top.id, cid |-> x.cid] \in Closed]_vars
  BY CancelsOwnStep
<1> QED BY <1>1, InvCorrect, AgeCorrect, CidCorrect, PTL DEF Spec, CancelsOwn

-----------------------------------------------------------------------------
(* No message gets lost on its way to a function.                          *)

\* only an event about subscriptions carries messages
OthersEmpty ==
  \A i \in DOMAIN queue : queue[i].type # "SUBSCRIPTION" => queue[i].hi < queue[i].lo

\* a step leaves the queue, takes its head, or adds an event to it
LEMMA QueueSteps ==
  ASSUME Inv, [Next]_vars
  PROVE  \/ queue' = queue
         \/ queue # <<>> /\ queue' = Tail(queue)
         \/ \E e \in Event : /\ queue' = Append(queue, e)
                             /\ e.type # "SUBSCRIPTION" => e.hi < e.lo
<1>0. about \in Seq(Sub)
  BY DEF Inv, TypeOK
<1>1. ASSUME NEW xs \in Seq(Sub), Report(xs)
      PROVE  \E e \in Event : queue' = Append(queue, e) /\ (e.type # "SUBSCRIPTION" => e.hi < e.lo)
  <2> DEFINE e == [type |-> "SUBSCRIPTION", req |-> 0, lo |-> Len(about) + 1, hi |-> Len(about) + Len(xs)]
  <2>1. Len(about) \in Nat /\ Len(xs) \in Nat
    BY <1>0
  <2>2. e \in Event /\ e.type = "SUBSCRIPTION"
    BY <2>1 DEF Event
  <2> QED BY <1>1, <2>2 DEF Report
<1>2. CASE Tick
  <2>1. PICK k \in 1 .. MaxMsgs : \E xs \in [1 .. k -> live] : Report(xs)
    BY <1>2 DEF Tick
  <2>2. PICK xs \in [1 .. k -> live] : Report(xs)
    BY <2>1
  <2>3. k \in Nat /\ live \subseteq Sub
    BY <2>1 DEF Inv, TypeOK
  <2>4. xs \in Seq(Sub)
    BY <2>2, <2>3
  <2> QED BY <1>1, <2>2, <2>4
<1>3. CASE Close
  <2>1. PICK x \in live : Report(<<x>>)
    BY <1>3 DEF Close
  <2>2. <<x>> \in Seq(Sub)
    BY DEF Inv, TypeOK
  <2> QED BY <1>1, <2>1, <2>2
<1>4. CASE Notice
  <2> DEFINE e == [type |-> "OTHER", req |-> 0, lo |-> 1, hi |-> 0]
  <2>1. e \in Event /\ e.hi < e.lo
    BY DEF Event
  <2> QED BY <1>4, <2>1 DEF Notice
<1>5. ASSUME NEW r \in 1 .. MaxReqs, Respond(r)
      PROVE  \E e \in Event : queue' = Append(queue, e) /\ (e.type # "SUBSCRIPTION" => e.hi < e.lo)
  <2> DEFINE e == [type |-> "RESPONSE", req |-> r, lo |-> 1, hi |-> 0]
  <2>1. e \in Event /\ e.hi < e.lo
    BY DEF Event
  <2> QED BY <1>5, <2>1 DEF Respond
<1>6. CASE CallStep
  BY <1>6 DEF CallStep, SubscribeEvent, Hear, PassHidden, EventDone, FunReturns, RpcEvent
<1>7. CASE UserStep
  BY <1>7 DEF UserStep, Subscribe, Accessor, SubscribeRaises, FunInterrupted, RpcRaises, Interrupt
<1> QED BY <1>2, <1>3, <1>4, <1>5, <1>6, <1>7 DEF Next, vars, BackendStep

LEMMA OthersStep == Inv /\ OthersEmpty /\ [Next]_vars => OthersEmpty'
<1> SUFFICES ASSUME Inv, OthersEmpty, [Next]_vars PROVE OthersEmpty'
  OBVIOUS
<1>0. queue \in Seq(Event)
  BY DEF Inv, TypeOK
<1>1. CASE queue' = queue
  BY <1>1 DEF OthersEmpty
<1>2. CASE queue # <<>> /\ queue' = Tail(queue)
  BY <1>0, <1>2, TailQueue DEF OthersEmpty
<1>3. ASSUME NEW e \in Event, queue' = Append(queue, e), e.type # "SUBSCRIPTION" => e.hi < e.lo
      PROVE  OthersEmpty'
  <2>1. \A i \in DOMAIN queue' : (i \in DOMAIN queue /\ queue'[i] = queue[i]) \/ queue'[i] = e
    <3>1. Len(queue) \in Nat
      BY <1>0
    <3> QED BY <1>0, <1>3, <3>1, AppendQueue
  <2> QED BY <1>3, <2>1 DEF OthersEmpty
<1> QED BY <1>1, <1>2, <1>3, QueueSteps

\* where message n is
Queued(n) == \E i \in DOMAIN queue : queue[i].lo <= n /\ n <= queue[i].hi
HeldBy(n, i) == stack[i].phase # "wait" /\ stack[i].next <= n /\ n <= stack[i].last

InPending(n) == n \in Int /\ (Queued(n) \/ \E i \in DOMAIN stack : HeldBy(n, i))

LEMMA PendingIs == TypeOK => \A n : n \in Pending <=> InPending(n)
<1> SUFFICES ASSUME TypeOK, NEW n PROVE n \in Pending <=> InPending(n)
  OBVIOUS
<1>1. ASSUME NEW i \in DOMAIN queue
      PROVE  n \in queue[i].lo .. queue[i].hi <=> n \in Int /\ queue[i].lo <= n /\ n <= queue[i].hi
  BY ElementTypes
<1>2. ASSUME NEW i \in DOMAIN stack
      PROVE  n \in stack[i].next .. stack[i].last
               <=> n \in Int /\ stack[i].next <= n /\ n <= stack[i].last
  BY ElementTypes
<1>3. n \in UNION {queue[i].lo .. queue[i].hi : i \in DOMAIN queue}
        <=> \E i \in DOMAIN queue : n \in queue[i].lo .. queue[i].hi
  OBVIOUS
<1>4. n \in UNION {stack[i].next .. stack[i].last : i \in {j \in DOMAIN stack : stack[j].phase # "wait"}}
        <=> \E i \in DOMAIN stack : stack[i].phase # "wait" /\ n \in stack[i].next .. stack[i].last
  <2> DEFINE J == {j \in DOMAIN stack : stack[j].phase # "wait"}
  <2>1. \A i : i \in J <=> i \in DOMAIN stack /\ stack[i].phase # "wait"
    OBVIOUS
  <2> HIDE DEF J
  <2>2. n \in UNION {stack[i].next .. stack[i].last : i \in J}
          <=> \E i \in J : n \in stack[i].next .. stack[i].last
    OBVIOUS
  <2>3. n \in UNION {stack[i].next .. stack[i].last : i \in J}
          <=> \E i \in DOMAIN stack : stack[i].phase # "wait" /\ n \in stack[i].next .. stack[i].last
    BY <2>1, <2>2
  <2> QED BY <2>3 DEF J
<1>5. n \in Pending
        <=> \/ \E i \in DOMAIN queue : n \in queue[i].lo .. queue[i].hi
            \/ \E i \in DOMAIN stack : stack[i].phase # "wait" /\ n \in stack[i].next .. stack[i].last
  BY <1>3, <1>4 DEF Pending
<1> QED BY <1>1, <1>2, <1>5 DEF InPending, Queued, HeldBy

LEMMA PendingThen == TypeOK' => (\A n : n \in Pending <=> InPending(n))'
BY PendingIs, PTL

\* What keeps its place goes on.
LEMMA PendingKept ==
  ASSUME TypeOK, TypeOK', NEW n \in Pending \ Pending',
         \A i \in DOMAIN queue : \E k \in DOMAIN queue' : queue'[k] = queue[i]
  PROVE  \E i \in DOMAIN stack : /\ HeldBy(n, i)
                                 /\ i \in DOMAIN stack' => stack'[i] # stack[i]
<1>1. n \in Int /\ (Queued(n) \/ \E i \in DOMAIN stack : HeldBy(n, i))
  BY PendingIs DEF InPending
<1>2. /\ ~(\E i \in DOMAIN queue' : queue'[i].lo <= n /\ n <= queue'[i].hi)
      /\ ~(\E i \in DOMAIN stack' :
             stack'[i].phase # "wait" /\ stack'[i].next <= n /\ n <= stack'[i].last)
  BY <1>1, PendingThen DEF InPending, Queued, HeldBy
<1>3. ~Queued(n)
  BY <1>2 DEF Queued
<1> QED BY <1>1, <1>2, <1>3 DEF HeldBy

\* A frame that moves loses no message but those it passes.
LEMMA PendingTop ==
  ASSUME TypeOK, TypeOK', stack # <<>>, NEW f \in Frame, SetTop(f), queue' = queue,
         f.last = Top.last, NEW n \in Pending \ Pending'
  PROVE  /\ n \in Int /\ Top.phase # "wait" /\ Top.next <= n /\ n <= Top.last
         /\ f.phase # "wait" => n < f.next
<1>1. PICK i \in DOMAIN stack : HeldBy(n, i) /\ (i \in DOMAIN stack' => stack'[i] # stack[i])
  BY PendingKept
<1>2. /\ DOMAIN stack' = DOMAIN stack /\ Len(stack) \in DOMAIN stack
      /\ \A k \in DOMAIN stack : stack'[k] = IF k = Len(stack) THEN f ELSE stack[k]
  BY SetTopStack DEF TypeOK
<1>3. i = Len(stack) /\ Top = stack[i]
  BY <1>1, <1>2 DEF Top
<1>4. n \in Int /\ ~InPending(n)'
  BY PendingIs, PendingThen DEF InPending
<1>5. ~(f.phase # "wait" /\ f.next <= n /\ n <= f.last)
  BY <1>2, <1>4 DEF InPending, HeldBy
<1>6. Top.last \in Nat /\ f.next \in Nat
  BY <1>3, ElementTypes DEF Frame
<1> QED BY <1>1, <1>3, <1>4, <1>5, <1>6 DEF HeldBy

\* A new frame, or none, loses no message.
LEMMA PendingPush ==
  ASSUME TypeOK, TypeOK', queue' = queue, NEW f \in Frame, stack' = Append(stack, f)
  PROVE  Pending \ Pending' = {}
<1> SUFFICES ASSUME NEW n \in Pending \ Pending' PROVE FALSE
  OBVIOUS
<1>1. PICK i \in DOMAIN stack : HeldBy(n, i) /\ (i \in DOMAIN stack' => stack'[i] # stack[i])
  BY PendingKept
<1>2. stack \in Seq(Frame) /\ Len(stack) \in Nat
  BY DEF TypeOK
<1>3. i \in DOMAIN stack' /\ stack'[i] = stack[i]
  BY <1>2, PushStack
<1> QED BY <1>1, <1>3

LEMMA PendingQueue ==
  ASSUME TypeOK, TypeOK', stack' = stack,
         queue' = queue \/ \E e \in Event : queue' = Append(queue, e)
  PROVE  Pending \ Pending' = {}
<1> SUFFICES ASSUME NEW n \in Pending \ Pending' PROVE FALSE
  OBVIOUS
<1>1. \A i \in DOMAIN queue : \E k \in DOMAIN queue' : queue'[k] = queue[i]
  <2>1. ASSUME NEW e \in Event, queue' = Append(queue, e), NEW i \in DOMAIN queue
        PROVE  i \in DOMAIN queue' /\ queue'[i] = queue[i]
    <3>1. queue \in Seq(Event) /\ Len(queue) \in Nat
      BY DEF TypeOK
    <3> QED BY <2>1, <3>1, AppendQueue
  <2> QED BY <2>1
<1> QED BY <1>1, PendingKept

\* The event that subscribe() takes, its iterator has.
LEMMA PendingTaken ==
  ASSUME Inv, Inv', OthersEmpty, SubscribeEvent, ~intr
  PROVE  Pending \ Pending' = {}
<1> SUFFICES ASSUME NEW n \in Pending \ Pending' PROVE FALSE
  OBVIOUS
<1>0. TypeOK /\ TypeOK'
  BY DEF Inv
<1>1. /\ queue # <<>> /\ queue' = Tail(queue) /\ stack # <<>> /\ Top.phase = "wait"
      /\ IF Head(queue).type = "SUBSCRIPTION"
         THEN SetTop([Top EXCEPT !.phase = "iter", !.next = Head(queue).lo, !.last = Head(queue).hi])
         ELSE stack' = stack
  BY DEF SubscribeEvent, Waits
<1>2. /\ Head(queue) = queue[1] /\ Head(queue) \in Event
      /\ \A i \in DOMAIN queue : i = 1 \/ \E k \in DOMAIN queue' : queue'[k] = queue[i]
  <2>1. queue \in Seq(Event)
    BY <1>0 DEF TypeOK
  <2>2. Head(queue) = queue[1] /\ Head(queue) \in Event
    BY <1>1, <2>1
  <2>3. ASSUME NEW i \in DOMAIN queue, i # 1 PROVE i - 1 \in DOMAIN queue' /\ queue'[i - 1] = queue[i]
    BY <1>1, <2>1, <2>3
  <2> QED BY <2>2, <2>3
<1>3. n \in Int /\ (Queued(n) \/ \E i \in DOMAIN stack : HeldBy(n, i)) /\ ~InPending(n)'
  BY <1>0, PendingIs, PendingThen DEF InPending
<1>4. Top \in Frame /\ Len(stack) \in DOMAIN stack /\ Top = stack[Len(stack)]
  BY <1>0, <1>1, TopType
<1>5. CASE Head(queue).type = "SUBSCRIPTION"
  <2> DEFINE f == [Top EXCEPT !.phase = "iter", !.next = Head(queue).lo, !.last = Head(queue).hi]
  <2>1. /\ f \in Frame /\ f.phase = "iter"
        /\ f.next = queue[1].lo /\ f.last = queue[1].hi
    BY <1>2, <1>4 DEF Frame, Event
  <2>2. SetTop(f)
    BY <1>1, <1>5
  <2> HIDE DEF f
  <2>3. /\ DOMAIN stack' = DOMAIN stack
        /\ \A k \in DOMAIN stack : stack'[k] = IF k = Len(stack) THEN f ELSE stack[k]
    BY <1>0, <1>1, <2>1, <2>2, SetTopStack DEF TypeOK
  <2>4. ~(queue[1].lo <= n /\ n <= queue[1].hi)
    BY <1>3, <1>4, <2>1, <2>3 DEF InPending, HeldBy
  <2>5. ~Queued(n)
    BY <1>2, <1>3, <2>4 DEF Queued, InPending
  <2>6. \A i \in DOMAIN stack : ~HeldBy(n, i)
    BY <1>1, <1>3, <1>4, <2>3 DEF HeldBy, InPending
  <2> QED BY <1>3, <2>5, <2>6
<1>6. CASE Head(queue).type # "SUBSCRIPTION"
  <2>1. queue[1].hi < queue[1].lo /\ queue[1].hi \in Nat /\ queue[1].lo \in Nat
    <3>1. 1 \in DOMAIN queue
      BY <1>0, <1>1, TailQueue DEF TypeOK
    <3> QED BY <1>0, <1>2, <1>6, <3>1, ElementTypes DEF OthersEmpty
  <2>2. ~(queue[1].lo <= n /\ n <= queue[1].hi)
    BY <1>3, <2>1
  <2>3. ~Queued(n)
    BY <1>2, <1>3, <2>2 DEF Queued, InPending
  <2>4. \A i \in DOMAIN stack : ~HeldBy(n, i)
    BY <1>1, <1>3, <1>6 DEF HeldBy, InPending
  <2> QED BY <1>3, <2>3, <2>4
<1> QED BY <1>5, <1>6

LEMMA DroppedStep ==
  ASSUME Inv, Inv', OthersEmpty, [Next]_vars, NEW n \in Pending \ Pending'
  PROVE  \/ Len(told') > Len(told) /\ told'[Len(told')].n = n
         \/ about[n] \in cancelled
         \/ Len(stack') < Len(stack)
         \/ Top.kind = "rpc"
<1>0. TypeOK /\ TypeOK'
  BY DEF Inv
<1>1. ASSUME stack # <<>>, Return PROVE Len(stack') < Len(stack)
  <2>1. stack \in Seq(Frame)
    BY <1>0 DEF TypeOK
  <2> QED BY <1>1, <2>1, ReturnStack
<1>2. stack # <<>> => Top \in Frame /\ Len(stack) \in DOMAIN stack /\ Top = stack[Len(stack)]
  BY <1>0, TopType
<1>3. ASSUME stack # <<>>, queue' = queue, NEW p \in {"wait", "iter", "fun"}, NEW m \in {Top.next, Top.next + 1},
             SetTop([Top EXCEPT !.phase = p, !.next = m])
      PROVE  /\ n \in Int /\ Top.next <= n /\ n <= Top.last
             /\ p # "wait" => n < m
  <2> DEFINE f == [Top EXCEPT !.phase = p, !.next = m]
  <2>1. Top.next \in Nat
    BY <1>0, <1>2, <1>3, ElementTypes
  <2>2. f \in Frame /\ f.phase = p /\ f.next = m /\ f.last = Top.last
    <3>1. Top \in Frame /\ m \in Nat
      BY <1>2, <1>3, <2>1
    <3>2. f \in Frame
      BY <1>3, <3>1 DEF Frame
    <3> QED BY <3>1, <3>2 DEF Frame
  <2> HIDE DEF f
  <2>3. SetTop(f)
    BY <1>3 DEF f
  <2> QED BY <1>0, <1>3, <2>2, <2>3, PendingTop
<1>4. stack # <<>> => /\ Top.next \in Nat /\ Top.last \in Nat
                      /\ [Top EXCEPT !.phase = "iter"] = [Top EXCEPT !.phase = "iter", !.next = Top.next]
                      /\ [Top EXCEPT !.phase = "wait"] = [Top EXCEPT !.phase = "wait", !.next = Top.next]
                      /\ [Top EXCEPT !.next = Top.next + 1]
                           = [Top EXCEPT !.phase = Top.phase, !.next = Top.next + 1]
  <2> SUFFICES ASSUME stack # <<>>
               PROVE  /\ Top.next \in Nat /\ Top.last \in Nat
                      /\ [Top EXCEPT !.phase = "iter"] = [Top EXCEPT !.phase = "iter", !.next = Top.next]
                      /\ [Top EXCEPT !.phase = "wait"] = [Top EXCEPT !.phase = "wait", !.next = Top.next]
                      /\ [Top EXCEPT !.next = Top.next + 1]
                           = [Top EXCEPT !.phase = Top.phase, !.next = Top.next + 1]
    OBVIOUS
  <2>1. Top \in Frame
    BY <1>2
  <2>2. Top.next \in Nat /\ Top.last \in Nat
    BY <2>1 DEF Frame
  <2>3. [Top EXCEPT !.phase = "iter"] = [Top EXCEPT !.phase = "iter", !.next = Top.next]
    BY <2>1 DEF Frame
  <2>4. [Top EXCEPT !.phase = "wait"] = [Top EXCEPT !.phase = "wait", !.next = Top.next]
    BY <2>1 DEF Frame
  <2>5. [Top EXCEPT !.next = Top.next + 1] = [Top EXCEPT !.phase = Top.phase, !.next = Top.next + 1]
    BY <2>1 DEF Frame
  <2> QED BY <2>2, <2>3, <2>4, <2>5
<1>5. CASE SubscribeEvent
  <2>1. CASE intr
    <3>1. stack # <<>> /\ Return
      BY <1>5, <2>1 DEF SubscribeEvent, Waits, Unsubscribe
    <3> QED BY <1>1, <3>1
  <2>2. CASE ~intr
    BY <1>5, <2>2, PendingTaken
  <2> QED BY <2>1, <2>2
<1>6. CASE Hear
  <2>1. /\ stack # <<>> /\ queue' = queue
        /\ SetTop([Top EXCEPT !.phase = "fun", !.next = Top.next + 1])
        /\ told' = Append(told, [n |-> Top.next, call |-> Top.id, topic |-> Topic(Top.id, Top.next)])
    BY <1>6 DEF Hear, Iterating
  <2>2. n \in Int /\ Top.next <= n /\ n < Top.next + 1
    BY <1>3, <2>1
  <2>3. n = Top.next
    BY <1>4, <2>1, <2>2
  <2>4. Len(told') = Len(told) + 1 /\ told'[Len(told')].n = Top.next /\ Len(told) \in Nat
    <3>1. told \in Seq(Told)
      BY <1>0 DEF TypeOK
    <3> QED BY <2>1, <3>1
  <2> QED BY <2>3, <2>4
<1>7. CASE PassHidden
  <2>1. /\ stack # <<>> /\ queue' = queue /\ Top.phase = "iter" /\ about[Top.next] \in cancelled
        /\ SetTop([Top EXCEPT !.next = Top.next + 1])
    BY <1>7 DEF PassHidden, Iterating
  <2>2. SetTop([Top EXCEPT !.phase = "iter", !.next = Top.next + 1])
    BY <1>4, <2>1
  <2>3. n \in Int /\ Top.next <= n /\ n < Top.next + 1
    BY <1>3, <2>1, <2>2
  <2>4. n = Top.next
    BY <1>4, <2>1, <2>3
  <2> QED BY <2>1, <2>4
<1>8. CASE EventDone
  <2>1. /\ stack # <<>> /\ queue' = queue /\ Top.next > Top.last
        /\ SetTop([Top EXCEPT !.phase = "wait", !.next = Top.next])
    BY <1>4, <1>8 DEF EventDone, Iterating
  <2>2. n \in Int /\ Top.next <= n /\ n <= Top.last
    BY <1>3, <2>1
  <2> QED BY <1>4, <2>1, <2>2
<1>9. CASE FunReturns
  <2>1. /\ stack # <<>> /\ queue' = queue
        /\ SetTop([Top EXCEPT !.phase = "iter", !.next = Top.next])
    BY <1>4, <1>9 DEF FunReturns
  <2>2. n \in Int /\ Top.next <= n /\ n < Top.next
    BY <1>3, <2>1
  <2> QED BY <1>4, <2>1, <2>2
<1>10. CASE RpcEvent
  BY <1>10 DEF RpcEvent, Waits
<1>11. CASE SubscribeRaises \/ FunInterrupted \/ RpcRaises
  BY <1>1, <1>11 DEF SubscribeRaises, FunInterrupted, RpcRaises, Waits, Unsubscribe, Leak
<1>12. ASSUME NEW k \in {"subscribe", "rpc"}, NEW id \in Nat, queue' = queue,
              stack' = Append(stack, [kind |-> k, id |-> id, phase |-> "wait", next |-> 1, last |-> 0])
       PROVE  FALSE
  <2>1. [kind |-> k, id |-> id, phase |-> "wait", next |-> 1, last |-> 0] \in Frame
    BY DEF Frame
  <2> QED BY <1>0, <1>12, <2>1, PendingPush
<1>13. CASE \E l \in Lists : Subscribe(l)
  <2>1. Len(asked) + 1 \in Nat
    BY <1>0, ElementTypes
  <2> QED BY <1>12, <1>13, <2>1 DEF Subscribe
<1>14. CASE Accessor
  <2>1. nreq + 1 \in Nat
    BY <1>0 DEF TypeOK
  <2> QED BY <1>12, <1>14, <2>1 DEF Accessor
<1>15. CASE stack' = stack /\ (queue' = queue \/ \E e \in Event : queue' = Append(queue, e))
  BY <1>0, <1>15, PendingQueue
<1>16. CASE Interrupt \/ UNCHANGED vars
  BY <1>15, <1>16 DEF Interrupt, vars
<1>17. CASE BackendStep
  <2>1. stack' = stack
    BY <1>17 DEF BackendStep, Tick, Close, Notice, Respond
  <2>2. CASE queue # <<>> /\ queue' = Tail(queue)
    <3>1. \E e : queue' = Append(queue, e)
      BY <1>17 DEF BackendStep, Tick, Close, Notice, Respond, Report
    <3>2. queue \in Seq(Event) /\ queue' \in Seq(Event)
      BY <1>0 DEF TypeOK
    <3>3. Len(queue') = Len(queue) + 1 /\ Len(queue') = Len(queue) - 1 /\ Len(queue) \in Nat
      BY <2>2, <3>1, <3>2
    <3> QED BY <3>3
  <2> QED BY <1>15, <2>1, <2>2, QueueSteps
<1> QED BY <1>5, <1>6, <1>7, <1>8, <1>9, <1>10, <1>11, <1>13, <1>14, <1>16, <1>17
        DEF Next, CallStep, UserStep

\* A message that is neither heard nor hidden went with the end of the call
\* that held it, or to an accessor.
THEOREM NothingDroppedCorrect == Spec => NothingDropped
<1>1. Init => OthersEmpty
  <2> SUFFICES ASSUME Init PROVE OthersEmpty
    OBVIOUS
  <2>1. DOMAIN queue = {}
    BY DEF Init
  <2> QED BY <2>1 DEF OthersEmpty
<1>2. Inv /\ Inv' /\ OthersEmpty /\ [Next]_vars
      => [\A n \in Pending \ Pending' :
            \/ Len(told') > Len(told) /\ told'[Len(told')].n = n
            \/ about[n] \in cancelled
            \/ Len(stack') < Len(stack)
            \/ Top.kind = "rpc"]_vars
  BY DroppedStep
<1> QED BY <1>1, <1>2, OthersStep, InvCorrect, PTL DEF Spec, NothingDropped

-----------------------------------------------------------------------------
(* The loops are one feed: each step is one of TickFeed's, or none.        *)

\* the calls around the innermost one are in their functions
BelowInv == \A i \in DOMAIN stack : i < Len(stack) => stack[i].phase = "fun"

\* what a step does to the running calls
LEMMA StackSteps ==
  ASSUME Inv, [Next]_vars
  PROVE  \/ stack' = stack
         \/ stack # <<>> /\ Return
         \/ stack # <<>> /\ \E f : SetTop(f)
         \/ InR /\ \E f \in Frame : stack' = Append(stack, f) /\ f.phase = "wait"
<1>1. CASE SubscribeEvent \/ Hear \/ PassHidden \/ EventDone \/ FunReturns \/ RpcEvent
  BY <1>1 DEF SubscribeEvent, Unsubscribe, Hear, PassHidden, EventDone, FunReturns, RpcEvent, Waits, Iterating
<1>2. CASE SubscribeRaises \/ FunInterrupted \/ RpcRaises
  BY <1>2 DEF SubscribeRaises, FunInterrupted, RpcRaises, Leak, Unsubscribe, Waits
<1>3. ASSUME NEW l \in Lists, Subscribe(l)
      PROVE  InR /\ \E f \in Frame : stack' = Append(stack, f) /\ f.phase = "wait"
  <2> DEFINE f == [kind |-> "subscribe", id |-> Len(asked) + 1, phase |-> "wait", next |-> 1, last |-> 0]
  <2>1. f \in Frame /\ f.phase = "wait"
    BY ElementTypes DEF Inv, Frame
  <2> QED BY <1>3, <2>1 DEF Subscribe
<1>4. CASE Accessor
  <2> DEFINE f == [kind |-> "rpc", id |-> nreq + 1, phase |-> "wait", next |-> 1, last |-> 0]
  <2>1. f \in Frame /\ f.phase = "wait"
    BY DEF Inv, TypeOK, Frame
  <2> QED BY <1>4, <2>1 DEF Accessor
<1>5. CASE Interrupt \/ BackendStep \/ UNCHANGED vars
  BY <1>5 DEF Interrupt, BackendStep, Tick, Close, Respond, Notice, vars
<1> QED BY <1>1, <1>2, <1>3, <1>4, <1>5 DEF Next, CallStep, UserStep

LEMMA BelowStep == Inv /\ BelowInv /\ [Next]_vars => BelowInv'
<1> SUFFICES ASSUME Inv, BelowInv, [Next]_vars PROVE BelowInv'
  OBVIOUS
<1>0. stack \in Seq(Frame) /\ DOMAIN stack = 1 .. Len(stack) /\ Len(stack) \in Nat
  BY DEF Inv, TypeOK
<1>1. CASE stack' = stack
  BY <1>1 DEF BelowInv
<1>2. CASE stack # <<>> /\ Return
  <2>1. /\ Len(stack') = Len(stack) - 1 /\ DOMAIN stack' = 1 .. Len(stack) - 1
        /\ \A i \in DOMAIN stack' : i \in DOMAIN stack /\ stack'[i] = stack[i]
    BY <1>0, <1>2, ReturnStack
  <2>2. \A i \in DOMAIN stack' : i < Len(stack)
    BY <1>0, <2>1
  <2> QED BY <2>1, <2>2 DEF BelowInv
<1>3. ASSUME stack # <<>>, NEW f, SetTop(f) PROVE BelowInv'
  <2>1. /\ DOMAIN stack' = DOMAIN stack /\ Len(stack') = Len(stack)
        /\ \A i \in DOMAIN stack : i < Len(stack) => stack'[i] = stack[i]
    BY <1>0, <1>3 DEF SetTop
  <2> QED BY <2>1 DEF BelowInv
<1>4. ASSUME InR, NEW f \in Frame, stack' = Append(stack, f) PROVE BelowInv'
  <2>1. /\ Len(stack') = Len(stack) + 1 /\ DOMAIN stack' = 1 .. Len(stack) + 1
        /\ \A i \in DOMAIN stack : stack'[i] = stack[i]
    BY <1>0, <1>4, PushStack
  <2>2. \A i \in DOMAIN stack : i < Len(stack) \/ (i = Len(stack) /\ stack # <<>>)
    BY <1>0
  <2>3. \A i \in DOMAIN stack : stack[i].phase = "fun"
    BY <1>4, <2>2 DEF InR, Top, BelowInv
  <2>4. \A i \in DOMAIN stack' : i < Len(stack') => i \in DOMAIN stack
    BY <1>0, <2>1
  <2> QED BY <2>1, <2>3, <2>4 DEF BelowInv
<1> QED BY <1>1, <1>2, <1>3, <1>4, StackSteps

\* when a call returns no accessor runs: only a function could have called it
LEMMA ReturnReads ==
  ASSUME Inv, BelowInv, stack # <<>>, Return
  PROVE  AccessorReads' = FALSE
<1>1. /\ Len(stack') = Len(stack) - 1 /\ DOMAIN stack' = 1 .. Len(stack) - 1
      /\ \A i \in DOMAIN stack' : i \in DOMAIN stack /\ stack'[i] = stack[i]
      /\ stack' \in Seq(Frame) /\ Len(stack) \in Nat /\ DOMAIN stack = 1 .. Len(stack)
  BY ReturnStack DEF Inv, TypeOK
<1>2. CASE stack' # <<>>
  <2>1. Len(stack') \in DOMAIN stack' /\ Len(stack') < Len(stack)
    BY <1>1, <1>2
  <2>2. stack[Len(stack')].phase = "fun" /\ Len(stack') \in DOMAIN stack
    BY <1>1, <2>1 DEF BelowInv
  <2>3. stack[Len(stack')].kind # "rpc"
    BY <2>2 DEF Inv, FramesInv
  <2> QED BY <1>1, <2>1, <2>3 DEF AccessorReads, Top
<1> QED BY <1>2 DEF AccessorReads

\* the same calls run when the innermost one moves
LEMMA MovedCalls ==
  ASSUME Inv, stack # <<>>, NEW f \in Frame, SetTop(f), f.kind = Top.kind, f.id = Top.id
  PROVE  Running' = Running /\ AccessorReads' = AccessorReads
<1>1. /\ DOMAIN stack' = DOMAIN stack /\ Len(stack') = Len(stack) /\ Len(stack) \in DOMAIN stack
      /\ \A i \in DOMAIN stack : stack'[i] = IF i = Len(stack) THEN f ELSE stack[i]
      /\ stack' \in Seq(Frame)
  BY SetTopStack DEF Inv, TypeOK
<1>2. \A i \in DOMAIN stack : stack'[i].kind = stack[i].kind /\ stack'[i].id = stack[i].id
  BY <1>1 DEF Top
<1>3. Running' = Running
  BY <1>1, <1>2 DEF Running
<1>4. stack' # <<>> /\ stack'[Len(stack')].kind = Top.kind
  BY <1>1
<1> QED BY <1>3, <1>4 DEF AccessorReads, Top

\* what has no new holder is not new
LEMMA PendingOld ==
  ASSUME TypeOK, TypeOK',
         \A i \in DOMAIN queue' : queue'[i].lo <= queue'[i].hi =>
           \E k \in DOMAIN queue : queue'[i].lo = queue[k].lo /\ queue'[i].hi = queue[k].hi,
         \A i \in DOMAIN stack' : stack'[i].phase # "wait" =>
           \/ \E k \in DOMAIN stack : /\ stack[k].phase # "wait" /\ stack'[i].last = stack[k].last
                                      /\ stack'[i].next >= stack[k].next
           \/ \E k \in DOMAIN queue : stack'[i].next = queue[k].lo /\ stack'[i].last = queue[k].hi
  PROVE  Pending' \subseteq Pending
<1> SUFFICES ASSUME NEW n \in Pending' PROVE n \in Pending
  OBVIOUS
<1>1. /\ n \in Int
      /\ \/ \E i \in DOMAIN queue' : queue'[i].lo <= n /\ n <= queue'[i].hi
         \/ \E i \in DOMAIN stack' : stack'[i].phase # "wait" /\ stack'[i].next <= n /\ n <= stack'[i].last
  BY PendingThen DEF InPending, Queued, HeldBy
<1>2. /\ \A i \in DOMAIN queue : queue[i].lo \in Nat /\ queue[i].hi \in Nat
      /\ \A i \in DOMAIN stack : stack[i].next \in Nat /\ stack[i].last \in Nat
  BY ElementTypes
<1>3. (\A i \in DOMAIN queue' : queue'[i].lo \in Nat /\ queue'[i].hi \in Nat)
      /\ (\A i \in DOMAIN stack' : stack'[i].next \in Nat /\ stack'[i].last \in Nat)
  <2>1. \A i \in DOMAIN queue' : queue'[i] \in Event
    BY DEF TypeOK
  <2>2. \A i \in DOMAIN stack' : stack'[i] \in Frame
    BY DEF TypeOK
  <2> QED BY <2>1, <2>2 DEF Event, Frame
<1>4. ASSUME NEW i \in DOMAIN queue', queue'[i].lo <= n, n <= queue'[i].hi PROVE InPending(n)
  <2>1. queue'[i].lo <= queue'[i].hi
    BY <1>1, <1>3, <1>4
  <2>2. PICK k \in DOMAIN queue : queue'[i].lo = queue[k].lo /\ queue'[i].hi = queue[k].hi
    BY <2>1
  <2> QED BY <1>1, <1>4, <2>2 DEF InPending, Queued
<1>5. ASSUME NEW i \in DOMAIN stack', stack'[i].phase # "wait", stack'[i].next <= n, n <= stack'[i].last
      PROVE  InPending(n)
  <2>1. CASE \E k \in DOMAIN stack : /\ stack[k].phase # "wait" /\ stack'[i].last = stack[k].last
                                     /\ stack'[i].next >= stack[k].next
    <3>1. PICK k \in DOMAIN stack : /\ stack[k].phase # "wait" /\ stack'[i].last = stack[k].last
                                    /\ stack'[i].next >= stack[k].next
      BY <2>1
    <3>2. stack[k].next <= n
      BY <1>1, <1>2, <1>3, <1>5, <3>1
    <3> QED BY <1>1, <1>5, <3>1, <3>2 DEF InPending, HeldBy
  <2>2. CASE \E k \in DOMAIN queue : stack'[i].next = queue[k].lo /\ stack'[i].last = queue[k].hi
    BY <1>1, <1>5, <2>2 DEF InPending, Queued
  <2> QED BY <1>5, <2>1, <2>2
<1>6. InPending(n)
  BY <1>1, <1>4, <1>5
<1> QED BY <1>6, PendingIs

\* no holder is new when the queue and the calls only lose some
LEMMA PendingLess ==
  ASSUME TypeOK, TypeOK', queue' = queue \/ (queue # <<>> /\ queue' = Tail(queue)),
         \A i \in DOMAIN stack' : i \in DOMAIN stack /\ stack'[i] = stack[i]
  PROVE  Pending' \subseteq Pending
<1>1. \A i \in DOMAIN queue' : \E k \in DOMAIN queue : queue'[i] = queue[k]
  BY TailQueue DEF TypeOK
<1>2. \A i \in DOMAIN stack : stack[i].next \in Nat
  BY ElementTypes
<1>3. \A n \in Nat : n >= n
  OBVIOUS
<1> QED BY <1>1, <1>2, <1>3, PendingOld

\* when the innermost call moves on in its event
LEMMA PendingMoved ==
  ASSUME TypeOK, TypeOK', stack # <<>>, NEW f \in Frame, SetTop(f), queue' = queue,
         f.last = Top.last, f.next >= Top.next, f.phase # "wait" => Top.phase # "wait"
  PROVE  Pending' \subseteq Pending
<1>1. /\ DOMAIN stack' = DOMAIN stack /\ Len(stack) \in DOMAIN stack
      /\ \A i \in DOMAIN stack : stack'[i] = IF i = Len(stack) THEN f ELSE stack[i]
  BY SetTopStack DEF TypeOK
<1>2. ASSUME NEW i \in DOMAIN stack', stack'[i].phase # "wait"
      PROVE  \E k \in DOMAIN stack : /\ stack[k].phase # "wait" /\ stack'[i].last = stack[k].last
                                     /\ stack'[i].next >= stack[k].next
  <2>1. CASE i = Len(stack)
    BY <1>1, <1>2, <2>1 DEF Top
  <2>2. CASE i # Len(stack)
    <3>1. stack'[i] = stack[i] /\ i \in DOMAIN stack /\ stack[i].next \in Nat
      BY <1>1, <2>2, ElementTypes
    <3>2. stack[i].next >= stack[i].next
      BY <3>1
    <3> QED BY <1>2, <3>1, <3>2
  <2> QED BY <2>1, <2>2
<1> QED BY <1>2, PendingOld

\* when a call begins, or an event without messages comes
LEMMA PendingCalled ==
  ASSUME TypeOK, TypeOK', queue' = queue, NEW f \in Frame, f.phase = "wait", stack' = Append(stack, f)
  PROVE  Pending' \subseteq Pending
<1>1. /\ DOMAIN stack' = 1 .. Len(stack) + 1 /\ DOMAIN stack = 1 .. Len(stack) /\ Len(stack) \in Nat
      /\ \A i \in DOMAIN stack : stack'[i] = stack[i] /\ stack[i].next \in Nat
      /\ stack'[Len(stack) + 1] = f
  <2>1. stack \in Seq(Frame) /\ Len(stack) \in Nat
    BY DEF TypeOK
  <2>2. \A i \in DOMAIN stack : stack[i].next \in Nat
    BY ElementTypes
  <2> QED BY <2>1, <2>2, PushStack
<1>2. ASSUME NEW i \in DOMAIN stack', stack'[i].phase # "wait"
      PROVE  \E k \in DOMAIN stack : /\ stack[k].phase # "wait" /\ stack'[i].last = stack[k].last
                                     /\ stack'[i].next >= stack[k].next
  <2>1. i \in DOMAIN stack
    BY <1>1, <1>2
  <2>2. stack'[i] = stack[i] /\ stack[i].next >= stack[i].next
    BY <1>1, <2>1
  <2> QED BY <1>2, <2>1, <2>2
<1> QED BY <1>2, PendingOld

LEMMA PendingEmpty ==
  ASSUME TypeOK, TypeOK', stack' = stack, NEW e \in Event, queue' = Append(queue, e), e.hi < e.lo
  PROVE  Pending' \subseteq Pending
<1>1. /\ DOMAIN queue' = 1 .. Len(queue) + 1 /\ DOMAIN queue = 1 .. Len(queue) /\ Len(queue) \in Nat
      /\ \A i \in DOMAIN queue : queue'[i] = queue[i]
      /\ queue'[Len(queue) + 1] = e
  BY AppendQueue DEF TypeOK
<1>2. ~(e.lo <= e.hi)
  BY DEF Event
<1>3. \A i \in DOMAIN queue' : queue'[i].lo <= queue'[i].hi =>
        \E k \in DOMAIN queue : queue'[i].lo = queue[k].lo /\ queue'[i].hi = queue[k].hi
  BY <1>1, <1>2
<1>4. \A i \in DOMAIN stack : stack[i].next \in Nat
  BY ElementTypes
<1>5. \A n \in Nat : n >= n
  OBVIOUS
<1> QED BY <1>3, <1>4, <1>5, PendingOld

\* when subscribe() takes an event
LEMMA PendingIterated ==
  ASSUME TypeOK, TypeOK', SubscribeEvent, ~intr
  PROVE  Pending' \subseteq Pending
<1>1. /\ queue # <<>> /\ queue' = Tail(queue) /\ stack # <<>>
      /\ IF Head(queue).type = "SUBSCRIPTION"
         THEN SetTop([Top EXCEPT !.phase = "iter", !.next = Head(queue).lo, !.last = Head(queue).hi])
         ELSE stack' = stack
  BY DEF SubscribeEvent, Waits
<1>2. CASE stack' = stack
  BY <1>1, <1>2, PendingLess
<1>3. CASE Head(queue).type = "SUBSCRIPTION"
  <2> DEFINE f == [Top EXCEPT !.phase = "iter", !.next = Head(queue).lo, !.last = Head(queue).hi]
  <2>1. /\ Head(queue) = queue[1] /\ Head(queue) \in Event /\ 1 \in DOMAIN queue
        /\ \A i \in DOMAIN queue' : i + 1 \in DOMAIN queue /\ queue'[i] = queue[i + 1]
    BY <1>1, TailQueue DEF TypeOK
  <2>2. f \in Frame /\ f.next = queue[1].lo /\ f.last = queue[1].hi
    BY <1>1, <2>1, TopType DEF Frame, Event
  <2>3. SetTop(f)
    BY <1>1, <1>3
  <2> HIDE DEF f
  <2>4. /\ DOMAIN stack' = DOMAIN stack
        /\ \A i \in DOMAIN stack : stack'[i] = IF i = Len(stack) THEN f ELSE stack[i]
    BY <1>1, <2>2, <2>3, SetTopStack DEF TypeOK
  <2>5. ASSUME NEW i \in DOMAIN stack', stack'[i].phase # "wait"
        PROVE  \/ \E k \in DOMAIN stack : /\ stack[k].phase # "wait" /\ stack'[i].last = stack[k].last
                                          /\ stack'[i].next >= stack[k].next
               \/ \E k \in DOMAIN queue : stack'[i].next = queue[k].lo /\ stack'[i].last = queue[k].hi
    <3>1. CASE i = Len(stack)
      BY <2>1, <2>2, <2>4, <3>1
    <3>2. CASE i # Len(stack)
      <4>1. stack'[i] = stack[i] /\ i \in DOMAIN stack /\ stack[i].next \in Nat
        BY <2>4, <3>2, ElementTypes
      <4>2. stack[i].next >= stack[i].next
        BY <4>1
      <4> QED BY <2>5, <4>1, <4>2
    <3> QED BY <3>1, <3>2
  <2> QED BY <2>1, <2>5, PendingOld
<1> QED BY <1>1, <1>2, <1>3

\* the messages of a report are new, and are all that is
LEMMA PendingReport ==
  ASSUME TypeOK, TypeOK', stack' = stack, NEW xs \in Seq(Sub), Report(xs)
  PROVE  Pending' = Pending \cup (Len(about) + 1 .. Len(about) + Len(xs))
<1> DEFINE e == [type |-> "SUBSCRIPTION", req |-> 0, lo |-> Len(about) + 1, hi |-> Len(about) + Len(xs)]
<1>1. Len(about) \in Nat /\ Len(xs) \in Nat
  BY DEF TypeOK
<1>2. e \in Event /\ e.lo = Len(about) + 1 /\ e.hi = Len(about) + Len(xs) /\ queue' = Append(queue, e)
  BY <1>1 DEF Event, Report
<1> HIDE DEF e
<1>3. /\ DOMAIN queue' = 1 .. Len(queue) + 1 /\ DOMAIN queue = 1 .. Len(queue) /\ Len(queue) \in Nat
      /\ \A i \in DOMAIN queue : queue'[i] = queue[i]
      /\ queue'[Len(queue) + 1] = e
  BY <1>2, AppendQueue DEF TypeOK
<1>4. \A i \in DOMAIN queue' : i \in DOMAIN queue \/ i = Len(queue) + 1
  BY <1>3
<1>5. \A i \in DOMAIN queue : i \in DOMAIN queue'
  BY <1>3
<1>6. Len(queue) + 1 \in DOMAIN queue'
  BY <1>3
<1>7. ASSUME NEW n PROVE n \in Pending' <=> n \in Pending \/ n \in Len(about) + 1 .. Len(about) + Len(xs)
  <2>1. n \in Pending' <=> /\ n \in Int
                           /\ \/ \E i \in DOMAIN queue' : queue'[i].lo <= n /\ n <= queue'[i].hi
                              \/ \E i \in DOMAIN stack : HeldBy(n, i)
    BY PendingThen DEF InPending, Queued, HeldBy
  <2>2. n \in Pending <=> /\ n \in Int
                          /\ \/ \E i \in DOMAIN queue : queue[i].lo <= n /\ n <= queue[i].hi
                             \/ \E i \in DOMAIN stack : HeldBy(n, i)
    BY PendingIs DEF InPending, Queued
  <2>3. (\E i \in DOMAIN queue' : queue'[i].lo <= n /\ n <= queue'[i].hi)
          <=> (\E i \in DOMAIN queue : queue[i].lo <= n /\ n <= queue[i].hi) \/ (e.lo <= n /\ n <= e.hi)
    BY <1>3, <1>4, <1>5, <1>6
  <2>4. n \in Len(about) + 1 .. Len(about) + Len(xs) <=> n \in Int /\ e.lo <= n /\ n <= e.hi
    BY <1>1, <1>2
  <2> QED BY <2>1, <2>2, <2>3, <2>4
<1> QED BY <1>7

\* what was heard is not to come
LEMMA HeardGone == Inv /\ OthersEmpty => \A k \in DOMAIN told : told[k].n \notin Pending
<1> SUFFICES ASSUME Inv, OthersEmpty, NEW k \in DOMAIN told, told[k].n \in Pending PROVE FALSE
  OBVIOUS
<1>1. InPending(told[k].n) /\ told[k].n \in Nat
  BY PendingIs, ElementTypes DEF Inv
<1>2. ASSUME NEW i \in DOMAIN queue, queue[i].lo <= told[k].n, told[k].n <= queue[i].hi PROVE FALSE
  <2>1. queue[i].lo \in Nat /\ queue[i].hi \in Nat
    BY ElementTypes DEF Inv
  <2>2. queue[i].type = "SUBSCRIPTION"
    BY <1>1, <1>2, <2>1 DEF OthersEmpty
  <2>3. told[k].n < queue[i].lo
    BY <2>2 DEF Inv, OrderInv
  <2> QED BY <1>1, <1>2, <2>1, <2>3
<1>3. ASSUME NEW i \in DOMAIN stack, stack[i].next <= told[k].n, told[k].n <= stack[i].last PROVE FALSE
  <2>1. stack[i].next \in Nat /\ stack[i].last \in Nat
    BY ElementTypes DEF Inv
  <2>2. told[k].n < stack[i].next \/ stack[i].last < told[k].n
    BY DEF Inv, OrderInv
  <2> QED BY <1>1, <1>3, <2>1, <2>2
<1> QED BY <1>1, <1>2, <1>3 DEF InPending, Queued, HeldBy

LEMMA HeardGoneThen == Inv' /\ OthersEmpty' => (\A k \in DOMAIN told : told[k].n \notin Pending)'
BY HeardGone, PTL

\* a message is heard
LEMMA HearFeed ==
  ASSUME Inv, Inv', OthersEmpty, OthersEmpty', Hear
  PROVE  Feed!FeedNext
<1> DEFINE n == Top.next
           c == Top.id
           e == [n |-> n, call |-> c, topic |-> Topic(c, n)]
           f == [Top EXCEPT !.phase = "fun", !.next = @ + 1]
<1>0. TypeOK /\ TypeOK'
  BY DEF Inv
<1>1. /\ stack # <<>> /\ Top.phase = "iter" /\ n <= Top.last /\ about[n] \notin cancelled
      /\ told' = Append(told, e) /\ SetTop(f)
      /\ UNCHANGED <<asked, live, cancelled, about, queue, nreq, owed, intr, raised>>
  BY DEF Hear, Iterating
<1>2. Top.kind = "subscribe" /\ Top \in Frame /\ Len(stack) \in DOMAIN stack /\ Top = stack[Len(stack)]
  BY <1>0, <1>1, NotWaiting, TopType
<1>3. n \in Nat /\ Top.last \in Nat
  BY <1>2 DEF Frame
<1>4. f \in Frame /\ f.phase = "fun" /\ f.next = n + 1 /\ f.last = Top.last /\ f.kind = Top.kind /\ f.id = Top.id
  <2>1. Top \in Frame /\ n + 1 \in Nat
    BY <1>2, <1>3
  <2>2. f \in Frame
    BY <2>1 DEF Frame
  <2> QED BY <2>1, <2>2 DEF Frame
<1>5. c \in Running /\ n \in Pending
  <2>1. HeldBy(n, Len(stack))
    BY <1>1, <1>2, <1>3 DEF HeldBy
  <2>2. n \in Pending
    BY <1>0, <1>2, <1>3, <2>1, PendingIs DEF InPending
  <2> QED BY <1>2, <2>2 DEF Running
<1>6. \A k \in DOMAIN told : told[k].n # n /\ (told[k].call = c => told[k].n < n)
  BY <1>2, <1>5, HeardGone DEF Inv, OrderInv
<1>7. told'[Len(told')].n = n /\ Len(told') \in DOMAIN told' /\ Topic(c, n) \in Topics \cup {"none"}
  <2>1. told \in Seq(Told) /\ told' \in Seq(Told)
    BY <1>0 DEF TypeOK
  <2>2. Len(told') = Len(told) + 1 /\ Len(told') \in DOMAIN told' /\ told'[Len(told')] = e /\ e \in Told
    BY <1>1, <2>1
  <2> QED BY <2>2 DEF Told
<1> HIDE DEF f
<1>8. Pending' \subseteq Pending
  BY <1>0, <1>1, <1>3, <1>4, PendingMoved
<1>9. \A m \in Pending \ Pending' : m = n
  <2> SUFFICES ASSUME NEW m \in Pending \ Pending' PROVE m = n
    OBVIOUS
  <2>1. m \in Int /\ n <= m /\ m < n + 1
    BY <1>0, <1>1, <1>4, PendingTop
  <2> QED BY <1>3, <2>1
<1>10. n \notin Pending'
  BY <1>7, HeardGoneThen
<1>11. Pending' = Pending \ {n}
  BY <1>5, <1>8, <1>9, <1>10
<1>12. Running' = Running /\ AccessorReads' = AccessorReads
  BY <1>1, <1>4, MovedCalls
<1>13. Feed!Hear(c)
  BY <1>1, <1>5, <1>6, <1>7, <1>11, <1>12 DEF Feed!Hear
<1> QED BY <1>5, <1>13 DEF Feed!FeedNext

\* a call of subscribe() ends
LEMMA StopFeed ==
  ASSUME Inv, Inv', AgeInv, BelowInv, stack # <<>>, Top.kind = "subscribe", Unsubscribe \/ Leak,
         queue' = queue \/ (queue # <<>> /\ queue' = Tail(queue)), UNCHANGED <<asked, about, told>>
  PROVE  Feed!FeedNext
<1> DEFINE c == Top.id
<1>0. TypeOK /\ TypeOK' /\ stack \in Seq(Frame)
  BY DEF Inv, TypeOK
<1>1. Return
  BY DEF Unsubscribe, Leak
<1>2. c \in Running
  BY TopType, <1>0 DEF Running
<1>3. Running' = Running \ {c}
  BY <1>0, <1>1, <1>2, RunningLess, RunningReturn DEF Inv
<1>4. AccessorReads' = FALSE
  BY <1>1, ReturnReads
<1>5. Pending' \subseteq Pending
  <2>1. \A i \in DOMAIN stack' : i \in DOMAIN stack /\ stack'[i] = stack[i]
    BY <1>0, <1>1, ReturnStack
  <2> QED BY <1>0, <2>1, PendingLess
<1>6. \/ /\ live' \subseteq live \ Feed!Of(c) /\ cancelled' = cancelled \cup (live \ live')
         /\ \A x \in live \ live' : x.call = c \/ (x.call > c /\ x.call \notin Running)
      \/ UNCHANGED <<live, cancelled>>
  <2>1. CASE Unsubscribe
    <3>1. c \in DOMAIN asked
      BY <1>0, TopType DEF Inv, FramesInv
    <3>2. \A x \in live : x.call = c => x.cid \in CidsOf(c)
      BY <1>0, <3>1, SubsCids DEF Inv, FramesInv
    <3>3. live' \subseteq live \ Feed!Of(c)
      BY <2>1, <3>2 DEF Unsubscribe, Feed!Of
    <3>4. cancelled' = cancelled \cup (live \ live')
      BY <2>1 DEF Unsubscribe
    <3>5. \A x \in live \ live' : x.call = c \/ (x.call > c /\ x.call \notin Running)
      BY <2>1, CancelledCalls DEF Unsubscribe
    <3> QED BY <3>3, <3>4, <3>5
  <2>2. CASE Leak
    BY <2>2 DEF Leak
  <2> QED BY <2>1, <2>2
<1>7. Feed!Stop(c)
  BY <1>3, <1>4, <1>5, <1>6 DEF Feed!Stop
<1> QED BY <1>2, <1>7 DEF Feed!FeedNext

\* messages are passed, or taken by an accessor; or nothing is to be seen
LEMMA SkipFeed ==
  ASSUME Pending' \subseteq Pending,
         \A n \in Pending \ Pending' : AccessorReads \/ about[n] \in cancelled,
         AccessorReads' = AccessorReads \/ AccessorReads' = FALSE, Running' = Running,
         UNCHANGED <<live, cancelled, about, told>>
  PROVE  Feed!FeedNext
BY DEF Feed!FeedNext, Feed!Skip

\* the innermost call moves on in its loop without being heard
LEMMA MoveFeed ==
  ASSUME Inv, Inv', OthersEmpty, stack # <<>>, NEW f \in Frame, SetTop(f), [Next]_vars,
         f.kind = Top.kind, f.id = Top.id, Pending' \subseteq Pending,
         UNCHANGED <<live, cancelled, about, told>>
  PROVE  Feed!FeedNext
<1>1. Running' = Running /\ AccessorReads' = AccessorReads
  BY MovedCalls
<1>2. ASSUME NEW n \in Pending \ Pending' PROVE AccessorReads \/ about[n] \in cancelled
  <2>1. stack' \in Seq(Frame) /\ Len(stack') = Len(stack) /\ Len(stack) \in Nat
    BY SetTopStack DEF Inv, TypeOK
  <2>2. told \in Seq(Told) /\ Len(told) \in Nat
    BY DEF Inv, TypeOK
  <2> QED BY <1>2, <2>1, <2>2, DroppedStep DEF AccessorReads
<1> QED BY <1>1, <1>2, SkipFeed

\* an accessor takes an event, or ends
LEMMA AccessorFeed ==
  ASSUME Inv, Inv', BelowInv, stack # <<>>, Top.kind = "rpc", stack' = stack \/ Return,
         queue' = queue \/ (queue # <<>> /\ queue' = Tail(queue)),
         UNCHANGED <<live, cancelled, about, told>>
  PROVE  Feed!FeedNext
<1>0. TypeOK /\ TypeOK' /\ stack \in Seq(Frame)
  BY DEF Inv, TypeOK
<1>1. AccessorReads
  BY DEF AccessorReads
<1>2. CASE stack' = stack
  <2>1. Running' = Running /\ AccessorReads' = AccessorReads
    BY <1>2 DEF Running, AccessorReads, Top
  <2>2. Pending' \subseteq Pending
    BY <1>0, <1>2, PendingLess
  <2> QED BY <1>1, <2>1, <2>2, SkipFeed
<1>3. CASE Return
  <2>1. Running' = Running
    BY <1>0, <1>3, RunningRpc, RunningReturn DEF Inv
  <2>2. AccessorReads' = FALSE
    BY <1>3, ReturnReads
  <2>3. \A i \in DOMAIN stack' : i \in DOMAIN stack /\ stack'[i] = stack[i]
    BY <1>0, <1>3, ReturnStack
  <2>4. Pending' \subseteq Pending
    BY <1>0, <2>3, PendingLess
  <2> QED BY <1>1, <2>1, <2>2, <2>4, SkipFeed
<1> QED BY <1>2, <1>3

LEMMA CallFeed ==
  ASSUME Inv, Inv', AgeInv, OthersEmpty, OthersEmpty', BelowInv, CallStep
  PROVE  Feed!FeedNext
<1>0. TypeOK /\ TypeOK' /\ [Next]_vars
  BY DEF Inv, Next
<1>1. stack # <<>> => Top \in Frame /\ Top.next \in Nat
  BY <1>0, TopType DEF Frame
<1>2. CASE SubscribeEvent /\ intr
  <2>1. /\ stack # <<>> /\ Top.kind = "subscribe" /\ Unsubscribe
        /\ queue # <<>> /\ queue' = Tail(queue) /\ UNCHANGED <<asked, about, told>>
    BY <1>2 DEF SubscribeEvent, Waits
  <2> QED BY <2>1, StopFeed
<1>3. CASE SubscribeEvent /\ ~intr
  <2>1. /\ stack # <<>> /\ UNCHANGED <<live, cancelled, about, told>>
        /\ IF Head(queue).type = "SUBSCRIPTION"
           THEN SetTop([Top EXCEPT !.phase = "iter", !.next = Head(queue).lo, !.last = Head(queue).hi])
           ELSE stack' = stack
    BY <1>3 DEF SubscribeEvent, Waits
  <2>2. Pending' \subseteq Pending
    BY <1>0, <1>3, PendingIterated
  <2>3. CASE stack' = stack
    <3>1. Running' = Running /\ AccessorReads' = AccessorReads
      BY <2>3 DEF Running, AccessorReads, Top
    <3>2. Pending \ Pending' = {}
      BY <1>3, PendingTaken
    <3> QED BY <2>1, <2>2, <3>1, <3>2, SkipFeed
  <2>4. CASE Head(queue).type = "SUBSCRIPTION"
    <3> DEFINE f == [Top EXCEPT !.phase = "iter", !.next = Head(queue).lo, !.last = Head(queue).hi]
    <3>1. Head(queue) \in Event
      BY <1>0, <1>3, TailQueue DEF SubscribeEvent, TypeOK
    <3>2. f \in Frame /\ f.kind = Top.kind /\ f.id = Top.id
      BY <1>1, <2>1, <3>1 DEF Frame, Event
    <3>3. SetTop(f)
      BY <2>1, <2>4
    <3> HIDE DEF f
    <3> QED BY <1>0, <2>1, <2>2, <3>2, <3>3, MoveFeed
  <2> QED BY <2>1, <2>3, <2>4
<1>4. CASE Hear
  BY <1>4, HearFeed
<1>5. ASSUME NEW p \in {"wait", "iter"}, NEW m \in {Top.next, Top.next + 1}, stack # <<>>,
             p # "wait" => Top.phase # "wait", SetTop([Top EXCEPT !.phase = p, !.next = m]),
             UNCHANGED <<queue, live, cancelled, about, told>>
      PROVE  Feed!FeedNext
  <2> DEFINE f == [Top EXCEPT !.phase = p, !.next = m]
  <2>1. Top \in Frame /\ m \in Nat /\ m >= Top.next
    BY <1>1, <1>5
  <2>2. /\ f \in Frame /\ f.kind = Top.kind /\ f.id = Top.id /\ f.last = Top.last
        /\ f.next >= Top.next /\ f.phase = p
    BY <1>5, <2>1 DEF Frame
  <2>3. SetTop(f)
    BY <1>5
  <2> HIDE DEF f
  <2>4. Pending' \subseteq Pending
    BY <1>0, <1>5, <2>2, <2>3, PendingMoved
  <2> QED BY <1>0, <1>5, <2>2, <2>3, <2>4, MoveFeed
<1>6. CASE PassHidden \/ EventDone \/ FunReturns
  <2>1. /\ stack # <<>> /\ Top.phase # "wait" /\ UNCHANGED <<queue, live, cancelled, about, told>>
        /\ \/ SetTop([Top EXCEPT !.next = Top.next + 1]) /\ Top.phase = "iter"
           \/ SetTop([Top EXCEPT !.phase = "wait"])
           \/ SetTop([Top EXCEPT !.phase = "iter"])
    BY <1>6 DEF PassHidden, EventDone, FunReturns, Iterating
  <2>2. Top \in Frame
    BY <1>1, <2>1
  <2>3. /\ [Top EXCEPT !.phase = "iter"] = [Top EXCEPT !.phase = "iter", !.next = Top.next]
        /\ [Top EXCEPT !.phase = "wait"] = [Top EXCEPT !.phase = "wait", !.next = Top.next]
    BY <2>2 DEF Frame
  <2>4. Top.phase = "iter" =>
          [Top EXCEPT !.next = Top.next + 1] = [Top EXCEPT !.phase = "iter", !.next = Top.next + 1]
    BY <2>2 DEF Frame
  <2>5. \E p \in {"wait", "iter"}, m \in {Top.next, Top.next + 1} : SetTop([Top EXCEPT !.phase = p, !.next = m])
    <3>1. CASE SetTop([Top EXCEPT !.next = Top.next + 1]) /\ Top.phase = "iter"
      <4>1. SetTop([Top EXCEPT !.phase = "iter", !.next = Top.next + 1])
        BY <2>4, <3>1
      <4> QED BY <4>1
    <3>2. CASE SetTop([Top EXCEPT !.phase = "wait"])
      <4>1. SetTop([Top EXCEPT !.phase = "wait", !.next = Top.next])
        BY <2>3, <3>2
      <4> QED BY <4>1
    <3>3. CASE SetTop([Top EXCEPT !.phase = "iter"])
      <4>1. SetTop([Top EXCEPT !.phase = "iter", !.next = Top.next])
        BY <2>3, <3>3
      <4> QED BY <4>1
    <3> QED BY <2>1, <3>1, <3>2, <3>3
  <2> QED BY <1>5, <2>1, <2>5
<1>7. CASE RpcEvent
  <2>1. /\ stack # <<>> /\ Top.kind = "rpc" /\ queue # <<>> /\ queue' = Tail(queue)
        /\ stack' = stack \/ Return
        /\ UNCHANGED <<live, cancelled, about, told>>
    BY <1>7 DEF RpcEvent, Waits
  <2> QED BY <2>1, AccessorFeed
<1> QED BY <1>2, <1>3, <1>4, <1>6, <1>7 DEF CallStep

\* a subscribe() begins
LEMMA ListenFeed ==
  ASSUME Inv, Inv', CidInv', NEW l \in Lists, Subscribe(l)
  PROVE  Feed!FeedNext
<1> DEFINE c == Len(asked) + 1
           f == [kind |-> "subscribe", id |-> c, phase |-> "wait", next |-> 1, last |-> 0]
<1>0. /\ TypeOK /\ TypeOK' /\ stack \in Seq(Frame) /\ Len(asked) \in Nat /\ DOMAIN asked = 1 .. Len(asked)
      /\ MaxCalls \in Nat
  BY SubscriptionAssumption, ElementTypes DEF Inv, TypeOK, SubscriptionAssumption
<1>1. /\ Len(asked) < MaxCalls /\ stack' = Append(stack, f) /\ UNCHANGED <<cancelled, about, queue, told>>
      /\ live' = live \cup {[call |-> c, cid |-> i - 1] : i \in DOMAIN l}
  BY DEF Subscribe
<1>2. c \in 1 .. MaxCalls /\ c \notin DOMAIN asked
  BY <1>0, <1>1
<1>3. f \in Frame /\ f.phase = "wait" /\ f.kind = "subscribe" /\ f.id = c
  BY <1>0 DEF Frame
<1> HIDE DEF f, c
<1>4. /\ DOMAIN stack' = DOMAIN stack \cup {Len(stack) + 1} /\ Len(stack') = Len(stack) + 1
      /\ \A i \in DOMAIN stack : stack'[i] = stack[i] /\ i # Len(stack) + 1
      /\ stack'[Len(stack) + 1] = f
  <2>1. Len(stack) \in Nat
    BY <1>0
  <2> QED BY <1>0, <1>1, <1>3, <2>1, PushStack
<1>5. Running' = Running \cup {c}
  BY <1>3, <1>4 DEF Running
<1>6. (\A d \in Running : d < c) /\ \A x \in live \cup cancelled : x.call < c
  <2>1. \A s \in DOMAIN asked : s < c
    BY <1>0 DEF c
  <2> QED BY <2>1 DEF Inv, FramesInv, Running
<1>7. Pending' = Pending
  BY <1>0, <1>1, <1>3, PendingPush, PendingCalled
<1>8. AccessorReads' = FALSE
  BY <1>3, <1>4 DEF AccessorReads, Top
<1>9. live \subseteq live' /\ \A x \in live' \ live : x.call = c
  BY <1>1
<1>10. \A x, y \in live' : x.cid = y.cid => x = y
  BY DEF CidInv
<1>11. Feed!Listen(c)
  BY <1>1, <1>5, <1>6, <1>7, <1>8, <1>9, <1>10 DEF Feed!Listen
<1> QED BY <1>2, <1>11 DEF Feed!FeedNext

\* an accessor begins
LEMMA AskFeed ==
  ASSUME Inv, Inv', Accessor
  PROVE  Feed!FeedNext
<1> DEFINE f == [kind |-> "rpc", id |-> nreq + 1, phase |-> "wait", next |-> 1, last |-> 0]
<1>0. TypeOK /\ TypeOK' /\ stack \in Seq(Frame) /\ nreq \in Nat
  BY DEF Inv, TypeOK
<1>1. stack' = Append(stack, f) /\ UNCHANGED <<asked, live, cancelled, about, queue, intr, raised, told>>
  BY DEF Accessor
<1>2. f \in Frame /\ f.phase = "wait" /\ f.kind = "rpc"
  BY <1>0 DEF Frame
<1> HIDE DEF f
<1>3. /\ DOMAIN stack' = DOMAIN stack \cup {Len(stack) + 1} /\ Len(stack') = Len(stack) + 1
      /\ \A i \in DOMAIN stack : stack'[i] = stack[i] /\ i # Len(stack) + 1
      /\ stack'[Len(stack) + 1] = f /\ stack' # <<>>
  <2>1. Len(stack) \in Nat
    BY <1>0
  <2> QED BY <1>0, <1>1, <1>2, <2>1, PushStack
<1>4. Running' = Running
  BY <1>2, <1>3 DEF Running
<1>5. Pending' = Pending
  BY <1>0, <1>1, <1>2, PendingPush, PendingCalled
<1>6. AccessorReads' = TRUE
  BY <1>2, <1>3 DEF AccessorReads, Top
<1> QED BY <1>1, <1>4, <1>5, <1>6 DEF Feed!FeedNext, Feed!Ask

\* what the user of the feed does not see
LEMMA QuietFeed ==
  ASSUME UNCHANGED <<live, cancelled, about, stack, told>>, Pending' = Pending
  PROVE  Feed!FeedNext
<1>1. Running' = Running /\ AccessorReads' = AccessorReads
  BY DEF Running, AccessorReads, Top
<1> QED BY <1>1, SkipFeed

LEMMA UserFeed ==
  ASSUME Inv, Inv', AgeInv, CidInv', BelowInv, UserStep
  PROVE  Feed!FeedNext
<1>1. ASSUME NEW l \in Lists, Subscribe(l) PROVE Feed!FeedNext
  BY <1>1, ListenFeed
<1>2. CASE Accessor
  BY <1>2, AskFeed
<1>3. CASE SubscribeRaises \/ FunInterrupted
  <2>1. /\ stack # <<>> /\ Top.phase # "wait" /\ (Unsubscribe \/ Leak)
        /\ UNCHANGED <<asked, about, queue, told>>
    BY <1>3 DEF SubscribeRaises, FunInterrupted
  <2>2. Top.kind = "subscribe"
    BY <2>1, NotWaiting
  <2>3. queue' = queue
    BY <2>1
  <2> QED BY <2>1, <2>2, <2>3, StopFeed
<1>4. CASE RpcRaises
  BY <1>4, AccessorFeed DEF RpcRaises, Waits
<1>5. CASE Interrupt
  <2>1. UNCHANGED <<live, cancelled, about, queue, stack, told>>
    BY <1>5 DEF Interrupt
  <2>2. Pending' = Pending
    BY <2>1 DEF Pending
  <2> QED BY <2>1, <2>2, QuietFeed
<1> QED BY <1>1, <1>2, <1>3, <1>4, <1>5 DEF UserStep

\* the backend reports ticks, or the end of a subscription
LEMMA PublishFeed ==
  ASSUME Inv, Inv', NEW xs \in Seq(live), Len(xs) >= 1, Report(xs), live' \subseteq live,
         \A x \in live \ live' : \E i \in DOMAIN xs : xs[i] = x,
         UNCHANGED <<cancelled, stack, told>>
  PROVE  Feed!FeedNext
<1> DEFINE new == Len(about) + 1 .. Len(about) + Len(xs)
<1>0. /\ TypeOK /\ TypeOK' /\ about \in Seq(Sub) /\ live \subseteq Sub /\ Len(about) \in Nat
      /\ Len(xs) \in Nat /\ DOMAIN about = 1 .. Len(about) /\ DOMAIN xs = 1 .. Len(xs)
  <2>1. TypeOK /\ TypeOK'
    BY DEF Inv
  <2>2. about \in Seq(Sub) /\ live \subseteq Sub
    BY <2>1 DEF TypeOK
  <2>3. Len(about) \in Nat /\ DOMAIN about = 1 .. Len(about)
    BY <2>2
  <2>4. Len(xs) \in Nat /\ DOMAIN xs = 1 .. Len(xs)
    OBVIOUS
  <2> QED BY <2>1, <2>2, <2>3, <2>4
<1>1. about' = about \o xs
  BY DEF Report
<1>2. /\ DOMAIN about' = 1 .. Len(about) + Len(xs)
      /\ \A n \in DOMAIN about : about'[n] = about[n]
      /\ \A i \in DOMAIN xs : Len(about) + i \in new /\ about'[Len(about) + i] = xs[i]
  BY <1>0, <1>1
<1>3. DOMAIN about \subseteq DOMAIN about' /\ DOMAIN about' \ DOMAIN about = new
  BY <1>0, <1>2
<1>4. ASSUME NEW n \in new PROVE about'[n] \in live
  <2>1. n - Len(about) \in DOMAIN xs /\ n = Len(about) + (n - Len(about))
    BY <1>0
  <2>2. about'[n] = xs[n - Len(about)]
    BY <1>2, <2>1
  <2> QED BY <2>1, <2>2
<1>5. new # {}
  <2>1. Len(about) + 1 \in new
    BY <1>0
  <2> QED BY <2>1
<1>6. Pending' = Pending \cup new
  BY <1>0, PendingReport
<1>7. \A x \in live \ live' : \E n \in new : about'[n] = x
  BY <1>2
<1> HIDE DEF new
<1>8. Running' = Running /\ AccessorReads' = AccessorReads
  BY DEF Running, AccessorReads, Top
<1>9. Feed!Publish
  BY <1>2, <1>3, <1>4, <1>5, <1>6, <1>7, <1>8 DEF Feed!Publish
<1> QED BY <1>9 DEF Feed!FeedNext

LEMMA BackendFeed ==
  ASSUME Inv, Inv', BackendStep
  PROVE  Feed!FeedNext
<1>0. TypeOK /\ TypeOK'
  BY DEF Inv
<1>1. CASE Tick
  <2>1. PICK k \in 1 .. MaxMsgs : \E xs \in [1 .. k -> live] : Report(xs)
    BY <1>1 DEF Tick
  <2>2. PICK xs \in [1 .. k -> live] : Report(xs)
    BY <2>1
  <2>3. k \in Nat /\ k >= 1
    BY <2>1
  <2>4. xs \in Seq(live) /\ Len(xs) = k
    BY <2>2, <2>3
  <2>5. UNCHANGED <<live, cancelled, stack, told>>
    BY <1>1 DEF Tick
  <2> QED BY <2>2, <2>3, <2>4, <2>5, PublishFeed
<1>2. CASE Close
  <2>1. PICK x \in live : Report(<<x>>) /\ live' = live \ {x}
    BY <1>2 DEF Close
  <2>2. <<x>> \in Seq(live) /\ Len(<<x>>) = 1 /\ 1 \in DOMAIN <<x>> /\ <<x>>[1] = x
    OBVIOUS
  <2>3. UNCHANGED <<cancelled, stack, told>>
    BY <1>2 DEF Close
  <2> DEFINE xs == <<x>>
  <2>4. /\ xs \in Seq(live) /\ Len(xs) >= 1 /\ Report(xs)
        /\ \A y \in live \ live' : \E i \in DOMAIN xs : xs[i] = y
    BY <2>1, <2>2
  <2>5. live' \subseteq live
    BY <2>1
  <2> HIDE DEF xs
  <2> QED BY <2>3, <2>4, <2>5, PublishFeed
<1>3. ASSUME NEW e \in Event, e.hi < e.lo, queue' = Append(queue, e),
             UNCHANGED <<live, cancelled, about, stack, told>>
      PROVE  Feed!FeedNext
  <2>1. Pending' = Pending
    BY <1>0, <1>3, PendingQueue, PendingEmpty
  <2> QED BY <1>3, <2>1, QuietFeed
<1>4. CASE Notice
  <2> DEFINE e == [type |-> "OTHER", req |-> 0, lo |-> 1, hi |-> 0]
  <2>1. e \in Event /\ e.hi < e.lo
    BY DEF Event
  <2> QED BY <1>3, <1>4, <2>1 DEF Notice
<1>5. ASSUME NEW r \in 1 .. MaxReqs, Respond(r) PROVE Feed!FeedNext
  <2> DEFINE e == [type |-> "RESPONSE", req |-> r, lo |-> 1, hi |-> 0]
  <2>1. e \in Event /\ e.hi < e.lo
    BY DEF Event
  <2> QED BY <1>3, <1>5, <2>1 DEF Respond
<1> QED BY <1>1, <1>2, <1>4, <1>5 DEF BackendStep

\* The calls of subscribe(), nested, interrupted and mixed with accessors on
\* one queue, are an implementation of the feed, for any lists and bounds.
THEOREM FeedRefinementCorrect == Spec => FeedRefinement
<1>1. Init => Feed!FeedInit /\ OthersEmpty /\ BelowInv
  <2> SUFFICES ASSUME Init PROVE Feed!FeedInit /\ OthersEmpty /\ BelowInv
    OBVIOUS
  <2>1. DOMAIN queue = {} /\ DOMAIN stack = {}
    <3>1. DOMAIN <<>> = {}
      <4>1. <<>> \in Seq({}) /\ Len(<<>>) = 0
        OBVIOUS
      <4> QED BY <4>1
    <3> QED BY <3>1 DEF Init
  <2>2. Pending = {} /\ Running = {} /\ AccessorReads = FALSE
    BY <2>1 DEF Init, Pending, Running, AccessorReads
  <2> QED BY <2>1, <2>2 DEF Init, Feed!FeedInit, OthersEmpty, BelowInv
<1>2. Inv /\ Inv' /\ AgeInv /\ OthersEmpty /\ OthersEmpty' /\ CidInv' /\ BelowInv /\ [Next]_vars
      => [Feed!FeedNext]_(Feed!feedVars)
  <2> SUFFICES ASSUME Inv, Inv', AgeInv, OthersEmpty, OthersEmpty', CidInv', BelowInv, [Next]_vars
               PROVE  [Feed!FeedNext]_(Feed!feedVars)
    OBVIOUS
  <2>1. CASE Next
    BY <2>1, CallFeed, UserFeed, BackendFeed DEF Next
  <2>2. CASE UNCHANGED vars
    BY <2>2 DEF vars, Feed!feedVars, Pending, Running, AccessorReads, Top
  <2> QED BY <2>1, <2>2
<1> QED BY <1>1, <1>2, OthersStep, BelowStep, InvCorrect, AgeCorrect, CidCorrect, PTL
        DEF Spec, FeedRefinement, Feed!FeedSpec

-----------------------------------------------------------------------------
(* An accessor is owed its answer.                                         *)

\* what the queue gets more of, and the backend puts into it, stays due
LEMMA DueStays ==
  ASSUME Inv, NEW r \in Nat, Due(r), NEW es \in Seq(Event), queue' = queue \o es,
         \A q \in owed \ owed' : \E i \in DOMAIN es : es[i].type = "RESPONSE" /\ es[i].req = q
  PROVE  Due(r)'
<1>1. /\ queue \in Seq(Event) /\ Len(queue) \in Nat /\ Len(es) \in Nat
      /\ DOMAIN queue = 1 .. Len(queue) /\ DOMAIN es = 1 .. Len(es)
  BY DEF Inv, TypeOK
<1>2. /\ \A i \in DOMAIN queue : i \in DOMAIN queue' /\ queue'[i] = queue[i]
      /\ \A i \in DOMAIN es : Len(queue) + i \in DOMAIN queue' /\ queue'[Len(queue) + i] = es[i]
  BY <1>1
<1>3. CASE r \in owed'
  BY <1>3 DEF Due
<1>4. CASE r \in owed \ owed'
  <2>1. PICK i \in DOMAIN es : es[i].type = "RESPONSE" /\ es[i].req = r
    BY <1>4
  <2>2. Len(queue) + i \in DOMAIN queue' /\ queue'[Len(queue) + i] = es[i]
    BY <1>2
  <2> QED BY <2>1, <2>2 DEF Due
<1>5. CASE r \notin owed
  <2>1. PICK i \in DOMAIN queue : queue[i].type = "RESPONSE" /\ queue[i].req = r
    BY <1>5 DEF Due
  <2> QED BY <1>2, <2>1 DEF Due
<1> QED BY <1>3, <1>4, <1>5

LEMMA DueStep == Inv /\ Inv' /\ BelowInv /\ AccessorDue /\ [Next]_vars => AccessorDue'
<1> SUFFICES ASSUME Inv, Inv', BelowInv, AccessorDue, [Next]_vars, AccessorReads' PROVE Due(Top.id)'
  BY DEF AccessorDue
<1>0. /\ TypeOK /\ stack \in Seq(Frame) /\ queue \in Seq(Event) /\ nreq \in Nat
      /\ DOMAIN queue = 1 .. Len(queue) /\ Len(queue) \in Nat
  BY DEF Inv, TypeOK
<1>1. ASSUME stack # <<>>, Return PROVE FALSE
  BY <1>1, ReturnReads
<1>2. ASSUME stack' = stack, NEW es \in Seq(Event), queue' = queue \o es,
             \A q \in owed \ owed' : \E i \in DOMAIN es : es[i].type = "RESPONSE" /\ es[i].req = q
      PROVE  Due(Top.id)'
  <2>1. AccessorReads /\ Top' = Top
    BY <1>2 DEF AccessorReads, Top
  <2>2. Top.id \in Nat
    <3>1. Top \in Frame
      BY <1>0, <2>1 DEF Top, AccessorReads
    <3> QED BY <3>1 DEF Frame
  <2>3. Due(Top.id)
    BY <2>1 DEF AccessorDue
  <2>4. PICK r \in Nat : Top.id = r
    BY <2>2
  <2>5. Due(r) /\ Top'.id = r
    BY <2>1, <2>3, <2>4 DEF Due
  <2>6. Due(r)'
    BY <1>2, <2>5, DueStays
  <2> QED BY <2>5, <2>6 DEF Due
<1>3. CASE RpcEvent
  <2>1. /\ queue # <<>> /\ queue' = Tail(queue) /\ owed' = owed
        /\ stack # <<>> /\ Head(queue).type # "RESPONSE" /\ stack' = stack
    BY <1>1, <1>3 DEF RpcEvent, Waits
  <2>2. AccessorReads /\ Top' = Top
    BY <2>1 DEF AccessorReads, Top
  <2>3. Due(Top.id)
    BY <2>2 DEF AccessorDue
  <2>4. \A i \in DOMAIN queue : i # 1 => i - 1 \in DOMAIN queue' /\ queue'[i - 1] = queue[i]
    BY <1>0, <2>1
  <2>5. queue[1].type # "RESPONSE"
    BY <1>0, <2>1
  <2> QED BY <2>1, <2>2, <2>3, <2>4, <2>5 DEF Due
<1>4. ASSUME stack # <<>>, Top.kind = "subscribe", NEW f, SetTop(f) \/ stack' = stack,
             f = Top \/ f.kind = "subscribe"
      PROVE  FALSE
  <2>1. Len(stack) \in DOMAIN stack
    BY <1>0, <1>4
  <2>2. CASE SetTop(f)
    <3>1. stack' = [stack EXCEPT ![Len(stack)] = f] /\ Len(stack') = Len(stack)
      BY <1>0, <2>2 DEF SetTop
    <3>2. Top' = f
      BY <2>1, <3>1 DEF Top
    <3> QED BY <1>4, <3>2 DEF AccessorReads
  <2>3. CASE stack' = stack
    BY <1>4, <2>3 DEF AccessorReads, Top
  <2> QED BY <1>4, <2>2, <2>3
<1>5. CASE SubscribeEvent
  <2>1. stack # <<>> /\ Top.kind = "subscribe"
    BY <1>5 DEF SubscribeEvent, Waits
  <2>2. \/ Return \/ stack' = stack
        \/ SetTop([Top EXCEPT !.phase = "iter", !.next = Head(queue).lo, !.last = Head(queue).hi])
    BY <1>5 DEF SubscribeEvent, Unsubscribe
  <2>3. Top \in Frame
    BY <1>0, <2>1 DEF Top
  <2>4. [Top EXCEPT !.phase = "iter", !.next = Head(queue).lo, !.last = Head(queue).hi].kind = "subscribe"
    BY <2>1, <2>3 DEF Frame
  <2> QED BY <1>1, <1>4, <2>1, <2>2, <2>4
<1>6. CASE Hear \/ PassHidden \/ EventDone \/ FunReturns
  <2>1. stack # <<>> /\ Top.phase # "wait"
    BY <1>6 DEF Hear, PassHidden, EventDone, FunReturns, Iterating
  <2>2. Top.kind = "subscribe" /\ Top \in Frame
    BY <1>0, <2>1, NotWaiting DEF Top
  <2>3. PICK f \in {[Top EXCEPT !.phase = "fun", !.next = Top.next + 1], [Top EXCEPT !.next = Top.next + 1],
                    [Top EXCEPT !.phase = "wait"], [Top EXCEPT !.phase = "iter"]} : SetTop(f)
    BY <1>6 DEF Hear, PassHidden, EventDone, FunReturns
  <2>4. f.kind = "subscribe"
    BY <2>2, <2>3 DEF Frame
  <2> QED BY <1>4, <2>1, <2>2, <2>3, <2>4
<1>7. ASSUME NEW l \in Lists, Subscribe(l) PROVE FALSE
  <2> DEFINE f == [kind |-> "subscribe", id |-> Len(asked) + 1, phase |-> "wait", next |-> 1, last |-> 0]
  <2>1. stack' = Append(stack, f) /\ f.kind = "subscribe"
    BY <1>7 DEF Subscribe
  <2> HIDE DEF f
  <2>2. Top' = f
    BY <1>0, <2>1 DEF Top
  <2> QED BY <2>1, <2>2 DEF AccessorReads
<1>8. CASE Accessor
  <2> DEFINE f == [kind |-> "rpc", id |-> nreq + 1, phase |-> "wait", next |-> 1, last |-> 0]
  <2>1. stack' = Append(stack, f) /\ f.id = nreq + 1 /\ owed' = owed \cup {nreq + 1}
    BY <1>8 DEF Accessor
  <2> HIDE DEF f
  <2>2. Top' = f
    BY <1>0, <2>1 DEF Top
  <2> QED BY <2>1, <2>2 DEF Due
<1>9. CASE SubscribeRaises \/ FunInterrupted \/ RpcRaises
  BY <1>1, <1>9 DEF SubscribeRaises, FunInterrupted, RpcRaises, Leak, Unsubscribe, Waits
<1>10. CASE Interrupt \/ UNCHANGED vars
  <2>1. stack' = stack /\ queue' = queue /\ owed' = owed
    BY <1>10 DEF Interrupt, vars
  <2>2. PICK es \in Seq(Event) : es = <<>>
    <3>1. <<>> \in Seq(Event)
      OBVIOUS
    <3> QED BY <3>1
  <2>3. queue' = queue \o es
    BY <1>0, <2>1, <2>2
  <2> QED BY <1>2, <2>1, <2>3
<1>11. ASSUME NEW e \in Event, stack' = stack, queue' = Append(queue, e),
              \A q \in owed \ owed' : e.type = "RESPONSE" /\ e.req = q
       PROVE  Due(Top.id)'
  <2>1. <<e>> \in Seq(Event) /\ 1 \in DOMAIN <<e>> /\ <<e>>[1] = e
    OBVIOUS
  <2>2. queue' = queue \o <<e>>
    BY <1>0, <1>11
  <2> DEFINE es == <<e>>
  <2>3. /\ es \in Seq(Event) /\ queue' = queue \o es
        /\ \A q \in owed \ owed' : \E i \in DOMAIN es : es[i].type = "RESPONSE" /\ es[i].req = q
    BY <1>11, <2>1, <2>2
  <2> HIDE DEF es
  <2> QED BY <1>2, <1>11, <2>3
<1>12. ASSUME NEW r \in 1 .. MaxReqs, Respond(r) PROVE Due(Top.id)'
  <2> DEFINE e == [type |-> "RESPONSE", req |-> r, lo |-> 1, hi |-> 0]
  <2>1. e \in Event /\ e.type = "RESPONSE" /\ e.req = r
    BY DEF Event
  <2>2. stack' = stack /\ queue' = Append(queue, e) /\ owed' = owed \ {r}
    BY <1>12 DEF Respond
  <2> HIDE DEF e
  <2> QED BY <1>11, <2>1, <2>2
<1>13. CASE Tick \/ Close \/ Notice
  <2>1. stack' = stack /\ owed' = owed /\ \E e \in Event : queue' = Append(queue, e)
    <3>1. /\ [type |-> "OTHER", req |-> 0, lo |-> 1, hi |-> 0] \in Event
          /\ \A n, m \in Nat : [type |-> "SUBSCRIPTION", req |-> 0, lo |-> n, hi |-> m] \in Event
      BY DEF Event
    <3>2. CASE Notice
      BY <3>1, <3>2 DEF Notice
    <3>3. CASE Tick
      <4>1. PICK k \in 1 .. MaxMsgs : \E xs \in [1 .. k -> live] : Report(xs)
        BY <3>3 DEF Tick
      <4>2. PICK xs \in [1 .. k -> live] : Report(xs)
        BY <4>1
      <4>3. Len(xs) \in Nat /\ Len(about) \in Nat
        BY <1>0 DEF TypeOK
      <4> QED BY <3>1, <3>3, <4>2, <4>3 DEF Report, Tick
    <3>4. CASE Close
      <4>1. PICK x \in live : Report(<<x>>)
        BY <3>4 DEF Close
      <4>2. Len(<<x>>) \in Nat /\ Len(about) \in Nat
        BY <1>0 DEF TypeOK
      <4> QED BY <3>1, <3>4, <4>1, <4>2 DEF Report, Close
    <3> QED BY <1>13, <3>2, <3>3, <3>4
  <2> QED BY <1>11, <2>1
<1> QED BY <1>3, <1>5, <1>6, <1>7, <1>8, <1>9, <1>10, <1>12, <1>13 DEF Next, CallStep, UserStep, BackendStep

\* Whatever accessors did before it and whatever calls are around it, the
\* answer of a running accessor is still to come (bdp.cpp:125-139).
THEOREM AccessorDueCorrect == Spec => []AccessorDue
<1>1. Init => BelowInv /\ AccessorDue
  <2> SUFFICES ASSUME Init PROVE BelowInv /\ AccessorDue
    OBVIOUS
  <2>1. DOMAIN stack = {}
    <3>1. <<>> \in Seq({}) /\ Len(<<>>) = 0
      OBVIOUS
    <3> QED BY <3>1 DEF Init
  <2> QED BY <2>1 DEF Init, BelowInv, AccessorDue, AccessorReads
<1> QED BY <1>1, BelowStep, DueStep, InvCorrect, PTL DEF Spec
=============================================================================
