------------------------------ MODULE SyncProofs ------------------------------
(***************************************************************************)
(* What a call owes to having started in sync: nothing unread is left      *)
(* unless an answer was broken off, no index is out of range, the answer   *)
(* is whole and only it makes the call fail; and that no call catches up.  *)
(***************************************************************************)
EXTENDS EventLoopProofs, FiniteSetTheorems

\* No loop does anything with the events that are neither an answer, nor the
\* status of a request, nor the end of the session.
LEMMA NoticeSkipped ==
  ASSUME LoopEvent \/ FieldEvent, Ev.type = "SERVICE_STATUS"
  PROVE  call' = call
<1>1. ~IsAnswer /\ Ev.type # "REQUEST_STATUS" /\ Ev.type # "SessionTerminated"
      /\ Ev.type # "RESPONSE" /\ Ev.type # "PARTIAL_RESPONSE"
  BY DEF IsAnswer
<1>2. CASE FieldEvent
  BY <1>1, <1>2 DEF FieldEvent, Skip
<1>3. CASE BdpEvent \/ BdhEvent
  BY <1>1, <1>3 DEF BdpEvent, BdhEvent, Skip
<1>4. ASSUME NEW fn \in Accessors, BulkLoop(fn) \/ GridLoop(fn) \/ StreamLoop(fn) PROVE call' = call
  BY <1>1, <1>4 DEF BulkLoop, GridLoop, StreamLoop, Skip
<1>5. CASE SearchEvent \/ AuthIdEvent \/ AuthAppEvent
  BY <1>1, <1>5 DEF SearchEvent, AuthIdEvent, AuthAppEvent, Skip
<1> QED BY <1>2, <1>3, <1>4, <1>5
        DEF LoopEvent, BdsEvent, PortfolioEvent, BeqsEvent, BsrchEvent, BarsEvent, TicksEvent,
            LookupEvent, Accessors

\* Where nothing else is outstanding, a call that reads the closing event of
\* its request, or the session's end, has read all there is.
LEMMA FinalClears ==
  ASSUME TypeOK, SessionOrder, Take, Outstanding \subseteq {call.req},
         Ev.type \in Final \cup {"SessionTerminated"}
  PROVE  Outstanding' = {}
<1>1. SessionTypeOK /\ Outstanding \subseteq {call.req}
  BY DEF TypeOK
<1>2. CASE Ev.type = "SessionTerminated"
  BY <1>1, <1>2, TakeOrder DEF Ev
<1>3. CASE Ev.type \in Final
  <2>1. Ev.req # 0
    <3>1. 1 \in DOMAIN queue /\ Ev = queue[1]
      BY <1>1 DEF Ev, Take, SessionTypeOK
    <3> QED BY <1>3, <3>1 DEF SessionOrder
  <2>2. /\ Outstanding' \subseteq Outstanding /\ Ev.req \in Outstanding
        /\ Ev.req \notin Outstanding'
    BY <1>1, <1>3, <2>1, TakeOrder DEF Ev
  <2> QED BY <1>1, <2>2
<1> QED BY <1>2, <1>3

\* A call that began with nothing outstanding leaves something unread to the
\* next one only by ending on a PARTIAL_RESPONSE or on the timeout of the
\* application's authorization: reading a RESPONSE, a REQUEST_STATUS or the
\* session's end is enough for every accessor to stay in sync.
THEOREM DesyncCorrect == Spec => DesyncOnlyFromPartial
<1>1. TypeOK /\ SessionOrder /\ SyncInv /\ [Next]_vars
      => [call.clean /\ Waiting /\ ~Busy' /\ Outstanding' # {} =>
            \/ queue # <<>> /\ Ev.type = "PARTIAL_RESPONSE"
            \/ AuthAppTimeout]_vars
  <2> SUFFICES ASSUME TypeOK, SessionOrder, SyncInv, Next,
                      call.clean, Waiting, ~Busy', Outstanding' # {}, ~AuthAppTimeout
               PROVE  queue # <<>> /\ Ev.type = "PARTIAL_RESPONSE"
    OBVIOUS
  <2>1. call.phase \in {"field", "loop"} /\ Busy
    BY DEF Waiting, Busy
  <2>2. call' # call
    BY <2>1 DEF Busy, Waiting
  <2>3. LoopEvent \/ FieldEvent
    BY <2>1, <2>2 DEF Next, Begin, CallStep, AskField, SendData, RaiseBeforeSend, LoopEvent
  <2>4. Take
    BY <2>3, FieldStep, LoopStep
  <2>5. Ev.type \in EventTypes
    BY <2>4, TakeType DEF TypeOK, Ev, Event
  <2>6. Ev.type # "SERVICE_STATUS"
    BY <2>2, <2>3, NoticeSkipped
  <2>7. Ev.type \notin Final \cup {"SessionTerminated"}
    BY <2>4, FinalClears DEF SyncInv
  <2> QED BY <2>4, <2>5, <2>6, <2>7 DEF Take, EventTypes, Final
<1> QED BY <1>1, TypeCorrect, SyncCorrect, PTL DEF Spec, DesyncOnlyFromPartial

-----------------------------------------------------------------------------
(* The frame and the request it sent.                                      *)

\* The request an accessor waits for in its event loop is the one its frame
\* describes.
AskedInv ==
  call.phase = "loop" =>
    /\ reqs[call.req].kind = KindOf[call.fn]
    /\ reqs[call.req].sec = call.sec /\ reqs[call.req].fld = call.fld
    /\ reqs[call.req].n \in Pieces

\* The frame that stays in its loop still describes the request.
LEMMA AskedKeeps ==
  ASSUME TypeOK, AskedInv, reqs' = reqs,
         call'.phase = "loop" => /\ call.phase = "loop" /\ call'.fn = call.fn /\ call'.req = call.req
                                 /\ call'.sec = call.sec /\ call'.fld = call.fld
  PROVE  AskedInv'
BY DEF AskedInv, Pieces

LEMMA AskedStep == TypeOK /\ AskedInv /\ [Next]_vars => AskedInv'
<1> SUFFICES ASSUME TypeOK, AskedInv, [Next]_vars PROVE AskedInv'
  OBVIOUS
<1>0. /\ SessionTypeOK /\ call \in Frame /\ Len(reqs) \in Nat /\ reqs \in Seq(Request)
  BY DEF TypeOK, SessionTypeOK
<1>1. ASSUME call'.phase # "loop" PROVE AskedInv'
  BY <1>1 DEF AskedInv
<1>2. CASE \E fn \in Fns : Begin(fn)
  BY <1>1, <1>2 DEF Begin
<1>3. CASE AskField
  <2>1. call'.phase = "field"
    BY <1>0, <1>3 DEF AskField, Frame
  <2> QED BY <1>1, <2>1
<1>4. CASE SendData
  <2>1. PICK n \in Pieces : Send(KindOf[call.fn], call.sec, call.fld, n)
    BY <1>4 DEF SendData
  <2>2. reqs' = Append(reqs, [kind |-> KindOf[call.fn], sec |-> call.sec, fld |-> call.fld, n |-> n])
    BY <2>1 DEF Send
  <2>3. reqs'[Len(reqs) + 1] = [kind |-> KindOf[call.fn], sec |-> call.sec, fld |-> call.fld, n |-> n]
    BY <1>0, <2>2
  <2>4. /\ call'.req = Len(reqs) + 1 /\ call'.fn = call.fn
        /\ call'.sec = call.sec /\ call'.fld = call.fld
    BY <1>0, <1>4 DEF SendData, Frame
  <2>5. Pieces' = Pieces
    BY <2>4 DEF Pieces
  <2> QED BY <2>3, <2>4, <2>5 DEF AskedInv
<1>5. ASSUME EndsEv PROVE AskedInv'
  <2>1. call'.phase # "loop"
    BY <1>0, <1>5, EndsKeeps DEF Ended
  <2> QED BY <1>1, <2>1
<1>6. CASE FieldEvent \/ LoopEvent
  <2>1. Take /\ reqs' = reqs
    BY <1>0, <1>6, FieldStep, LoopStep, TakeType
  <2>2. CASE SkipsEv
    BY <2>1, <2>2, AskedKeeps DEF SkipsEv
  <2>3. CASE FieldDone
    <3>1. call'.phase # "loop"
      BY <1>0, <2>3 DEF FieldDone, Frame
    <3> QED BY <1>1, <3>1
  <2>4. CASE call.phase = "loop" /\ CollectsEv
    <3>1. /\ call'.fn = call.fn /\ call'.req = call.req
          /\ call'.sec = call.sec /\ call'.fld = call.fld
      BY <1>0, <2>4 DEF CollectsEv, Frame
    <3> QED BY <2>1, <2>4, <3>1, AskedKeeps
  <2> QED BY <1>5, <1>6, <2>2, <2>3, <2>4, FieldStep, LoopStep
<1>7. CASE Backend /\ UNCHANGED call
  BY <1>0, <1>7, BackendType, SessionAssumption, AskedKeeps
<1>8. CASE UNCHANGED vars
  BY <1>8, AskedKeeps DEF vars, session
<1>9. CASE RaiseBeforeSend \/ AuthAppTimeout
  <2>1. EndsEv
    BY <1>9 DEF RaiseBeforeSend, AuthAppTimeout, End, EndsEv, Ended
  <2> QED BY <1>5, <2>1
<1> QED BY <1>2, <1>3, <1>4, <1>6, <1>7, <1>8, <1>9 DEF Next, CallStep, LoopEvent

\* Every request in an event loop is the one the running accessor built.
THEOREM AskedCorrect == Spec => []AskedInv
<1>1. Init => AskedInv
  BY DEF Init, AskedInv
<1> QED BY <1>1, AskedStep, TypeCorrect, PTL DEF Spec

\* In sync, the event a loop takes answers the request of its frame.
LEMMA OwnEvent ==
  ASSUME TypeOK, SyncInv, SessionOrder, Take, Waiting, call.clean, IsAnswer
  PROVE  Ev.req = call.req
<1>1. SessionTypeOK /\ Outstanding \subseteq {call.req}
  BY DEF TypeOK, SyncInv
<1>2. Ev.req # 0
  BY <1>1, TakeType DEF Ev, IsAnswer
<1>3. Ev.req \in Outstanding
  BY <1>1, <1>2, TakeOrder DEF Ev
<1> QED BY <1>1, <1>3

\* bdp reads `securities' past its end only with an answer to an earlier call:
\* in sync the sequence numbers are those of its own request, so the read the
\* check against a wrong one makes is within bounds.
THEOREM NoOutOfRangeCorrect == Spec => []NoOutOfRangeInSync
<1>1. Init => NoOutOfRangeInSync
  BY DEF Init, NoOutOfRangeInSync
<1>2. TypeOK /\ SessionOrder /\ SyncInv /\ AskedInv /\ NoOutOfRangeInSync /\ [Next]_vars
      => NoOutOfRangeInSync'
  <2> SUFFICES ASSUME TypeOK, SessionOrder, SyncInv, AskedInv, NoOutOfRangeInSync, [Next]_vars,
                      call'.phase = "undefined", call'.clean
               PROVE  FALSE
    BY DEF NoOutOfRangeInSync
  <2>0. /\ SessionTypeOK /\ call \in Frame /\ Len(reqs) \in Nat
    BY DEF TypeOK, SessionTypeOK
  <2>1. call' # call
    BY DEF NoOutOfRangeInSync
  <2>2. BdpEvent
    <3>1. ASSUME NEW fn \in Fns, Begin(fn) PROVE FALSE
      BY <3>1 DEF Begin
    <3>2. ASSUME NEW p \in Phases, p # "undefined", End(p) PROVE FALSE
      BY <2>0, <3>2 DEF End, Frame
    <3>3. CASE AskField \/ SendData
      <4>1. ASSUME NEW p \in {"field", "loop"}, call' = [call EXCEPT !.phase = p, !.req = Len(reqs) + 1]
            PROVE  FALSE
        BY <2>0, <4>1 DEF Frame
      <4> QED BY <3>3, <4>1 DEF AskField, SendData
    <3>4. CASE RaiseBeforeSend \/ AuthAppTimeout
      BY <3>2, <3>4 DEF RaiseBeforeSend, AuthAppTimeout, Phases
    <3>5. ASSUME FieldDone PROVE FALSE
      BY <2>0, <3>5 DEF FieldDone, Frame
    <3>6. ASSUME NEW hi, Collect(hi) PROVE FALSE
      BY <2>0, <3>6 DEF Collect, Frame
    <3>7. CASE FieldEvent
      BY <2>1, <3>2, <3>5, <3>7 DEF FieldEvent, Skip, Phases
    <3>8. CASE BdhEvent \/ SearchEvent \/ AuthIdEvent
      BY <2>1, <3>2, <3>6, <3>8 DEF BdhEvent, SearchEvent, AuthIdEvent, Skip, Phases
    <3>9. ASSUME NEW acc, NEW p \in {"returned", "loop"},
                 call' = [call EXCEPT !.acc = acc, !.phase = p]
          PROVE  FALSE
      BY <2>0, <3>9 DEF Frame
    <3>10. CASE AuthAppEvent
      BY <2>1, <3>2, <3>9, <3>10 DEF AuthAppEvent, Skip, Phases
    <3>11. ASSUME NEW fn, BulkLoop(fn) PROVE FALSE
      BY <2>1, <3>2, <3>9, <3>11 DEF BulkLoop, Skip, Phases
    <3>12. ASSUME NEW fn, GridLoop(fn) PROVE FALSE
      BY <2>1, <3>2, <3>9, <3>12 DEF GridLoop, Skip, Phases
    <3>13. ASSUME PassRefusal PROVE FALSE
      BY <2>0, <2>1, <3>13 DEF PassRefusal, Skip, Frame
    <3>14. ASSUME NEW fn, StreamLoop(fn) PROVE FALSE
      BY <2>1, <3>2, <3>6, <3>13, <3>14 DEF StreamLoop, Skip, Phases
    <3> QED BY <2>1, <3>1, <3>3, <3>4, <3>7, <3>8, <3>10, <3>11, <3>12, <3>14
            DEF Next, vars, CallStep, BdsEvent, PortfolioEvent, BeqsEvent, BsrchEvent, BarsEvent,
                TicksEvent, LookupEvent
  <2>3. Take /\ call.phase = "loop" /\ call.fn = "bdp" /\ IsAnswer /\ Row > Len(call.sec)
    <3>1. ASSUME NEW p \in Phases, p # "undefined", End(p) PROVE FALSE
      BY <2>0, <3>1 DEF End, Frame
    <3>2. ASSUME NEW hi, Collect(hi) PROVE FALSE
      BY <2>0, <3>2 DEF Collect, Frame
    <3> QED BY <2>1, <2>2, <3>1, <3>2 DEF BdpEvent, InLoop, Skip, Phases
  <2>4. call.clean
    BY <2>0, <2>2, <2>3 DEF BdpEvent, End, Collect, Skip, Frame
  <2>5. Ev.req = call.req /\ reqs[call.req].sec = call.sec
    BY <2>3, <2>4, OwnEvent DEF Waiting, AskedInv
  <2>6. Len(call.sec) \in Nat \ {0}
    <3>1. call.sec \in Secs /\ call.sec \in Seq(STRING)
      BY <2>0, <2>3 DEF TypeOK, SecArgs, Frame
    <3> QED BY <3>1, SessionAssumption
  <2>7. Ev.lo \in Nat
    BY <2>0, <2>3, TakeType DEF Ev, Event
  <2> QED BY <2>3, <2>5, <2>6, <2>7 DEF Row
<1> QED BY <1>1, <1>2, TypeCorrect, SyncCorrect, AskedCorrect, PTL DEF Spec

-----------------------------------------------------------------------------
(* The answer is read whole.  The messages of a request come in order and  *)
(* without a gap: what the call has read, what is in the queue and what    *)
(* the backend still has to send fit together.                             *)

IsAns(k) == queue[k].type \in {"PARTIAL_RESPONSE", "RESPONSE"}

\* what an event with messages of an answer says of them
PieceOK(e) ==
  /\ 1 <= e.lo /\ e.lo <= e.hi /\ e.hi <= sent[e.req] /\ e.hi <= reqs[e.req].n
  /\ e.type = "RESPONSE" <=> e.hi = reqs[e.req].n
  /\ e.err = "responseError" => "reject" \in Faults /\ e.type = "RESPONSE" /\ e.lo = 1
  /\ MaxMsgs = 1 /\ e.err = "none" => e.lo = e.hi

\* the messages of one request are in the queue in their order
PiecesInv ==
  /\ \A k \in DOMAIN queue : IsAns(k) => PieceOK(queue[k])
  /\ \A j, k \in DOMAIN queue :
       j < k /\ IsAns(j) /\ IsAns(k) /\ queue[j].req = queue[k].req => queue[j].hi < queue[k].lo

\* the message the call has read last
ReadTo == IF call.acc = <<>> THEN 0 ELSE call.acc[Len(call.acc)].hi

InARow(acc) ==
  /\ acc # <<>> => acc[1].lo = 1 /\ acc[Len(acc)].hi >= 1
  /\ \A i \in 1 .. Len(acc) - 1 : acc[i + 1].lo = acc[i].hi + 1

\* each message in the queue follows what was read or another one, and the
\* backend goes on after the last
WholeInv ==
  call.phase = "loop" /\ call.clean /\ call.fn \in Lossless =>
    /\ InARow(call.acc) /\ ReadTo < reqs[call.req].n
    /\ \A k \in DOMAIN queue : IsAns(k) =>
         \/ queue[k].lo = ReadTo + 1
         \/ \E j \in DOMAIN queue : j < k /\ IsAns(j) /\ queue[k].lo = queue[j].hi + 1
    /\ \/ sent[call.req] = ReadTo
       \/ \E k \in DOMAIN queue : IsAns(k) /\ queue[k].hi = sent[call.req]

\* a call that still runs has seen no refusal
RefusedInv == Busy => call.refused = {}

\* The backend adds the next messages of an open request.
LEMMA AnswerStep ==
  ASSUME SessionTypeOK, SessionOrder, SessionAssumption, NEW r \in open,
         NEW hi \in Nat, NEW err \in {"none", "bad", "responseError"},
         Answer(r, hi, err), sent[r] < hi, hi <= reqs[r].n,
         err = "responseError" => "reject" \in Faults /\ hi = reqs[r].n /\ sent[r] = 0,
         MaxMsgs = 1 /\ err = "none" => hi = sent[r] + 1
  PROVE  \E e \in Event :
           /\ queue' = Append(queue, e) /\ e.req = r /\ reqs' = reqs
           /\ e.type \in {"PARTIAL_RESPONSE", "RESPONSE"}
           /\ e.lo = sent[r] + 1 /\ sent' = [sent EXCEPT ![r] = e.hi]
           /\ PieceOK(e)'
<1>1. r \in Nat /\ sent[r] \in Nat /\ r \in DOMAIN sent
  <2>1. /\ sent \in Seq(Nat) /\ Len(sent) = Len(reqs) /\ Len(reqs) \in Nat /\ r \in 1 .. Len(reqs)
    BY DEF SessionTypeOK
  <2> QED BY <2>1
<1>2. [type |-> IF hi = reqs[r].n THEN "RESPONSE" ELSE "PARTIAL_RESPONSE",
       req |-> r, lo |-> sent[r] + 1, hi |-> hi, err |-> err] \in Event
  BY <1>1 DEF Event, EventTypes
<1>3. PICK e \in Event : e = [type |-> IF hi = reqs[r].n THEN "RESPONSE" ELSE "PARTIAL_RESPONSE",
                             req |-> r, lo |-> sent[r] + 1, hi |-> hi, err |-> err]
  BY <1>2
<1>4. queue' = Append(queue, e) /\ sent' = [sent EXCEPT ![r] = hi] /\ reqs' = reqs
  BY <1>3 DEF Answer
<1>5. e.req = r /\ e.lo = sent[r] + 1 /\ e.hi = hi /\ e.err = err
      /\ e.type = IF hi = reqs[r].n THEN "RESPONSE" ELSE "PARTIAL_RESPONSE"
  BY <1>3
<1>6. sent'[r] = hi
  BY <1>1, <1>4
<1>7. PieceOK(e)'
  BY <1>1, <1>4, <1>5, <1>6 DEF PieceOK
<1>8. sent' = [sent EXCEPT ![r] = e.hi] /\ e.type \in {"PARTIAL_RESPONSE", "RESPONSE"}
  BY <1>4, <1>5
<1> QED BY <1>4, <1>5, <1>7, <1>8

\* What a step of the backend does to the answers: it adds to one, or to none.
LEMMA BackendAnswers ==
  ASSUME SessionTypeOK, SessionOrder, SessionAssumption, Backend
  PROVE  \E e \in Event :
           /\ queue' = Append(queue, e) /\ reqs' = reqs
           /\ \/ /\ e.type \notin {"PARTIAL_RESPONSE", "RESPONSE"} /\ sent' = sent
              \/ /\ e.type \in {"PARTIAL_RESPONSE", "RESPONSE"} /\ e.req \in open
                 /\ e.lo = sent[e.req] + 1 /\ sent' = [sent EXCEPT ![e.req] = e.hi]
                 /\ PieceOK(e)'
<1>0. /\ reqs \in Seq(Request) /\ sent \in Seq(Nat)
      /\ \A r \in open : r \in Nat /\ sent[r] \in Nat /\ reqs[r].n \in Nat /\ sent[r] < reqs[r].n
  <2>1. reqs \in Seq(Request) /\ sent \in Seq(Nat) /\ Len(sent) = Len(reqs)
        /\ open \subseteq 1 .. Len(reqs) /\ \A r \in open : sent[r] < reqs[r].n
    BY DEF SessionTypeOK, SessionOrder
  <2>2. \A r \in open : r \in Nat /\ r \in DOMAIN reqs /\ r \in DOMAIN sent
    BY <2>1
  <2>3. \A r \in open : reqs[r] \in Request /\ sent[r] \in Nat
    BY <2>1, <2>2
  <2> QED BY <2>1, <2>2, <2>3 DEF Request
<1>1. ASSUME NEW r \in open, Deliver(r)
      PROVE  \E hi \in Nat : /\ Answer(r, hi, "none") /\ sent[r] < hi /\ hi <= reqs[r].n
                             /\ MaxMsgs = 1 => hi = sent[r] + 1
  <2>1. PICK hi \in sent[r] + 1 .. sent[r] + MaxMsgs : hi <= reqs[r].n /\ Answer(r, hi, "none")
    BY <1>1 DEF Deliver
  <2>2. hi \in Nat /\ sent[r] < hi /\ (MaxMsgs = 1 => hi = sent[r] + 1)
    BY <1>0, SessionAssumption, SMTT(20) DEF SessionAssumption
  <2> QED BY <2>1, <2>2
<1>2. CASE \E r \in open : Deliver(r)
  <2>1. PICK r \in open : Deliver(r)
    BY <1>2
  <2>2. PICK hi \in Nat : /\ Answer(r, hi, "none") /\ sent[r] < hi /\ hi <= reqs[r].n
                          /\ MaxMsgs = 1 => hi = sent[r] + 1
    BY <1>1, <2>1
  <2>3. PICK e \in Event :
           /\ queue' = Append(queue, e) /\ e.req = r /\ reqs' = reqs
           /\ e.type \in {"PARTIAL_RESPONSE", "RESPONSE"}
           /\ e.lo = sent[r] + 1 /\ sent' = [sent EXCEPT ![r] = e.hi]
           /\ PieceOK(e)'
    BY <2>2, AnswerStep
  <2> QED BY <2>3
<1>3. CASE \E r \in open : DeliverBad(r)
  <2>0. PICK r \in open : DeliverBad(r)
    BY <1>3
  <2>1. Answer(r, sent[r] + 1, "bad") /\ sent[r] + 1 <= reqs[r].n
    BY <2>0 DEF DeliverBad
  <2>2. sent[r] + 1 \in Nat /\ sent[r] < sent[r] + 1
    BY <1>0
  <2> QED BY <2>1, <2>2, AnswerStep
<1>4. CASE \E r \in open : Reject(r)
  <2>1. PICK r \in open : Answer(r, reqs[r].n, "responseError") /\ sent[r] = 0 /\ "reject" \in Faults
    BY <1>4 DEF Reject
  <2> QED BY <1>0, <2>1, AnswerStep
<1>5. CASE \E r \in open : Drop(r)
  <2>1. PICK r \in open : Drop(r)
    BY <1>5
  <2> DEFINE e == [type |-> "REQUEST_STATUS", req |-> r, lo |-> 0, hi |-> 0, err |-> "none"]
  <2>2. e \in Event /\ e.type \notin {"PARTIAL_RESPONSE", "RESPONSE"}
    <3>2. r \in Nat
      BY <1>0
    <3> QED BY <3>2 DEF Event, EventTypes
  <2> QED BY <2>1, <2>2 DEF Drop
<1>6. CASE Terminate \/ Notice
  <2>1. PICK e \in Event :
           /\ queue' = Append(queue, e) /\ e.req = 0 /\ reqs' = reqs /\ sent' = sent
           /\ e.type \in {"SessionTerminated", "SERVICE_STATUS"}
    BY <1>6, SessionStep
  <2>2. e.type \notin {"PARTIAL_RESPONSE", "RESPONSE"}
    BY <2>1
  <2> QED BY <2>1, <2>2
<1> QED BY <1>2, <1>3, <1>4, <1>5, <1>6 DEF Backend

\* The pieces of an answer stay in order, whatever happens.
LEMMA PiecesStep == TypeOK /\ SessionOrder /\ PiecesInv /\ [Next]_vars => PiecesInv'
<1> SUFFICES ASSUME TypeOK, SessionOrder, PiecesInv, [Next]_vars PROVE PiecesInv'
  OBVIOUS
<1>0. /\ SessionTypeOK /\ call \in Frame /\ Len(reqs) \in Nat
      /\ queue \in Seq(Event) /\ Len(queue) \in Nat /\ DOMAIN queue = 1 .. Len(queue)
      /\ reqs \in Seq(Request) /\ sent \in Seq(Nat) /\ Len(sent) = Len(reqs)
  BY DEF TypeOK, SessionTypeOK
<1>1. \A k \in DOMAIN queue : IsAns(k) =>
        /\ queue[k] \in Event /\ queue[k].req \in DOMAIN reqs /\ queue[k].req \in DOMAIN sent
        /\ sent[queue[k].req] \in Nat /\ queue[k].lo \in Nat /\ queue[k].hi \in Nat
  <2> SUFFICES ASSUME NEW k \in DOMAIN queue, IsAns(k)
               PROVE  /\ queue[k] \in Event /\ queue[k].req \in DOMAIN reqs /\ queue[k].req \in DOMAIN sent
                      /\ sent[queue[k].req] \in Nat /\ queue[k].lo \in Nat /\ queue[k].hi \in Nat
    OBVIOUS
  <2>1. queue[k].req \in 0 .. Len(reqs) /\ queue[k].req # 0
    BY <1>0 DEF SessionTypeOK, IsAns
  <2>2. queue[k].req \in DOMAIN reqs /\ queue[k].req \in DOMAIN sent
    BY <1>0, <2>1
  <2>3. queue[k] \in Event
    BY <1>0
  <2> QED BY <1>0, <2>2, <2>3, SMTT(20) DEF Event
<1>2. CASE UNCHANGED session
  BY <1>2 DEF session, PiecesInv, PieceOK, IsAns
<1>3. CASE SendStep
  <2>1. PICK kind \in Kinds, sec \in Seq(STRING), fld \in Flds \cup {"none"}, n \in Nat \ {0} :
          Send(kind, sec, fld, n)
    BY <1>3 DEF SendStep
  <2>2. /\ queue' = queue /\ sent' = Append(sent, 0)
        /\ reqs' = Append(reqs, [kind |-> kind, sec |-> sec, fld |-> fld, n |-> n])
    BY <2>1 DEF Send
  <2>3. \A r \in DOMAIN reqs : r \in DOMAIN sent => reqs'[r] = reqs[r] /\ sent'[r] = sent[r]
    BY <1>0, <2>2
  <2>4. ASSUME NEW k \in DOMAIN queue, IsAns(k) PROVE PieceOK(queue[k])'
    <3>1. PieceOK(queue[k]) /\ queue'[k] = queue[k]
      BY <2>2, <2>4 DEF PiecesInv
    <3>2. reqs'[queue[k].req] = reqs[queue[k].req] /\ sent'[queue[k].req] = sent[queue[k].req]
      BY <1>1, <2>3, <2>4
    <3> QED BY <3>1, <3>2 DEF PieceOK
  <2> QED BY <2>2, <2>4 DEF PiecesInv, IsAns
<1>4. CASE Take
  <2>1. /\ \A k \in DOMAIN queue' : k + 1 \in DOMAIN queue /\ queue'[k] = queue[k + 1]
        /\ reqs' = reqs /\ sent' = sent
    BY <1>0, <1>4, TakeType DEF Take
  <2>2. \A j, k \in DOMAIN queue' : j < k => j + 1 < k + 1
    <3>1. DOMAIN queue' \subseteq Nat
      BY <1>0, <1>4 DEF Take
    <3> QED BY <3>1
  <2> QED BY <2>1, <2>2 DEF PiecesInv, PieceOK, IsAns
<1>5. CASE Backend
  <2>1. PICK e \in Event :
           /\ queue' = Append(queue, e) /\ reqs' = reqs
           /\ \/ /\ e.type \notin {"PARTIAL_RESPONSE", "RESPONSE"} /\ sent' = sent
              \/ /\ e.type \in {"PARTIAL_RESPONSE", "RESPONSE"} /\ e.req \in open
                 /\ e.lo = sent[e.req] + 1 /\ sent' = [sent EXCEPT ![e.req] = e.hi]
                 /\ PieceOK(e)'
    BY <1>0, <1>5, BackendAnswers, SessionAssumption
  <2>2. /\ queue'[Len(queue) + 1] = e
        /\ \A k \in DOMAIN queue : k \in DOMAIN queue' /\ queue'[k] = queue[k]
        /\ \A k \in DOMAIN queue' : k \in DOMAIN queue \/ k = Len(queue) + 1
    BY <1>0, <2>1, AppendEvent
  <2>3. \A k \in DOMAIN queue : IsAns(k) => sent'[queue[k].req] >= sent[queue[k].req]
    <3>1. CASE sent' = sent
      BY <1>1, <3>1
    <3>2. CASE /\ e.lo = sent[e.req] + 1 /\ sent' = [sent EXCEPT ![e.req] = e.hi] /\ PieceOK(e)'
      <4>1. e.lo <= e.hi /\ e.hi \in Nat
        BY <3>2 DEF PieceOK, Event
      <4> QED BY <1>1, <3>2, <4>1
    <3> QED BY <2>1, <3>1, <3>2
  <2>4. ASSUME NEW k \in DOMAIN queue, IsAns(k) PROVE PieceOK(queue[k])'
    <3>1. PieceOK(queue[k])
      BY <2>4 DEF PiecesInv
    <3>2. queue'[k] = queue[k] /\ sent'[queue[k].req] >= sent[queue[k].req] /\ reqs' = reqs
      BY <2>1, <2>2, <2>3, <2>4
    <3>3. /\ queue[k].hi \in Nat /\ sent[queue[k].req] \in Nat /\ sent'[queue[k].req] \in Nat
      <4>1. sent' \in Seq(Nat) /\ Len(sent') = Len(sent)
        BY <1>0, <1>5, BackendType, SessionAssumption DEF SessionTypeOK
      <4> QED BY <1>0, <1>1, <2>4, <4>1
    <3> QED BY <3>1, <3>2, <3>3 DEF PieceOK
  <2>5. \A k \in DOMAIN queue' : IsAns(k)' => PieceOK(queue[k])'
    <3>1. ASSUME NEW k \in DOMAIN queue', IsAns(k)' PROVE PieceOK(queue[k])'
      <4>1. CASE k \in DOMAIN queue
        <5>1. IsAns(k)
          BY <2>2, <3>1, <4>1 DEF IsAns
        <5> QED BY <2>4, <4>1, <5>1 DEF PieceOK
      <4>2. CASE k = Len(queue) + 1
        <5>1. queue'[k] = e /\ PieceOK(e)'
          BY <2>1, <2>2, <3>1, <4>2 DEF IsAns
        <5> QED BY <5>1 DEF PieceOK
      <4> QED BY <2>2, <4>1, <4>2
    <3> QED BY <3>1
  <2>6. ASSUME NEW j \in DOMAIN queue', NEW k \in DOMAIN queue', j < k, IsAns(j)', IsAns(k)',
               queue'[j].req = queue'[k].req
        PROVE  queue'[j].hi < queue'[k].lo
    <3>1. j \in DOMAIN queue /\ queue'[j] = queue[j]
      BY <1>0, <2>2, <2>6
    <3>2. CASE k \in DOMAIN queue
      BY <2>2, <2>6, <3>1, <3>2 DEF PiecesInv, IsAns
    <3>3. CASE k = Len(queue) + 1
      <4>1. e = queue'[k] /\ e.lo = sent[e.req] + 1
        BY <2>1, <2>2, <2>6, <3>3 DEF IsAns
      <4>2. IsAns(j) /\ PieceOK(queue[j])
        BY <2>6, <3>1 DEF PiecesInv, IsAns
      <4>3. queue[j].hi <= sent[e.req] /\ queue[j].hi \in Nat /\ sent[e.req] \in Nat
        BY <1>1, <2>6, <3>1, <4>1, <4>2 DEF PieceOK
      <4> QED BY <3>1, <4>1, <4>3
    <3> QED BY <2>2, <3>2, <3>3
  <2> QED BY <2>5, <2>6 DEF PiecesInv
<1> QED BY <1>2, <1>3, <1>4, <1>5, NextCases DEF Begin, vars

\* A chunk that follows what was read keeps the row without a gap.
LEMMA RowAppend ==
  ASSUME NEW acc \in Seq(Chunk), InARow(acc), NEW c \in Chunk, c.lo <= c.hi,
         c.lo = (IF acc = <<>> THEN 0 ELSE acc[Len(acc)].hi) + 1
  PROVE  InARow(Append(acc, c)) /\ Append(acc, c) # <<>> /\ Append(acc, c)[Len(Append(acc, c))] = c
<1>1. c.lo \in Nat /\ c.hi \in Nat /\ Len(acc) \in Nat /\ DOMAIN acc = 1 .. Len(acc)
  BY DEF Chunk
<1> DEFINE b == Append(acc, c)
<1>2. /\ Len(b) = Len(acc) + 1 /\ b[Len(acc) + 1] = c /\ b # <<>>
      /\ \A i \in 1 .. Len(acc) : b[i] = acc[i]
  BY SMTT(20)
<1> HIDE DEF b
<1>3. CASE acc = <<>>
  <2>1. Len(acc) = 0
    BY <1>3
  <2>2. Len(b) = 1 /\ b[1] = c /\ c.lo = 1
    BY <1>2, <1>3, <2>1
  <2>3. b[Len(b)].hi >= 1
    BY <1>1, <2>2
  <2> QED BY <1>2, <2>2, <2>3 DEF InARow, b
<1>4. CASE acc # <<>>
  <2>1. Len(acc) >= 1 /\ 1 \in 1 .. Len(acc) /\ Len(acc) \in 1 .. Len(acc)
    BY <1>1, <1>4
  <2>2. acc[1].lo = 1 /\ acc[Len(acc)].hi >= 1 /\ c.lo = acc[Len(acc)].hi + 1
    BY <1>4 DEF InARow
  <2>3. acc[Len(acc)].hi \in Nat
    <3>1. acc[Len(acc)] \in Chunk
      BY <2>1
    <3> QED BY <3>1 DEF Chunk
  <2>4. b[1].lo = 1 /\ b[Len(b)].hi >= 1
    BY <1>1, <1>2, <2>1, <2>2, <2>3
  <2>5. ASSUME NEW i \in 1 .. Len(b) - 1 PROVE b[i + 1].lo = b[i].hi + 1
    <3>1. i \in 1 .. Len(acc)
      BY <1>1, <1>2
    <3>2. CASE i = Len(acc)
      BY <1>2, <2>1, <2>2, <3>2
    <3>3. CASE i # Len(acc)
      <4>1. i \in 1 .. Len(acc) - 1 /\ i + 1 \in 1 .. Len(acc)
        <5>1. Len(acc) \in Nat
          BY <1>1
        <5> QED BY <3>1, <3>3, <5>1
      <4>2. acc[i + 1].lo = acc[i].hi + 1
        BY <4>1 DEF InARow
      <4> QED BY <1>2, <3>1, <4>1, <4>2
    <3> QED BY <3>2, <3>3
  <2>6. InARow(b)
    BY <2>4, <2>5 DEF InARow
  <2> QED BY <1>2, <2>6 DEF b
<1> QED BY <1>3, <1>4

\* A call in sync finds pieces of its own answer in the queue, and no others.
LEMMA OwnPieces ==
  ASSUME TypeOK, SyncInv, PiecesInv, Waiting, call.clean, NEW k \in DOMAIN queue, IsAns(k)
  PROVE  /\ queue[k].req = call.req /\ PieceOK(queue[k])
         /\ queue[k].lo \in Nat /\ queue[k].hi \in Nat
<1>1. /\ SessionTypeOK /\ queue \in Seq(Event) /\ Len(reqs) \in Nat
      /\ Outstanding \subseteq {call.req}
  BY DEF TypeOK, SessionTypeOK, SyncInv
<1>2. queue[k].req \in 1 .. Len(reqs)
  <2>1. queue[k].req \in 0 .. Len(reqs) /\ queue[k].req # 0
    BY <1>1 DEF SessionTypeOK, IsAns
  <2> QED BY <1>1, <2>1
<1>3. queue[k].req \in Outstanding
  BY <1>2 DEF Outstanding
<1>4. queue[k] \in Event
  BY <1>1
<1> QED BY <1>1, <1>3, <1>4 DEF PiecesInv, Event

\* The next piece of its answer begins where it reads.
LEMMA NextPiece ==
  ASSUME TypeOK, SyncInv, PiecesInv, WholeInv,
         call.phase = "loop", call.clean, call.fn \in Lossless
  PROVE  /\ \A k \in DOMAIN queue : IsAns(k) =>
              /\ queue[k].req = call.req /\ PieceOK(queue[k])
              /\ queue[k].lo \in Nat /\ queue[k].hi \in Nat
         /\ ReadTo \in Nat
         /\ Take => Ev = queue[1] /\ 1 \in DOMAIN queue /\ (IsAnswer <=> IsAns(1))
         /\ Take /\ IsAnswer => Ev.lo = ReadTo + 1
<1>0. /\ SessionTypeOK /\ call \in Frame /\ Outstanding \subseteq {call.req}
      /\ queue \in Seq(Event) /\ Len(queue) \in Nat /\ DOMAIN queue = 1 .. Len(queue)
      /\ call.acc \in Seq(Chunk)
  BY DEF TypeOK, SessionTypeOK, SyncInv, Waiting, Frame
<1>1. ASSUME NEW k \in DOMAIN queue, IsAns(k)
      PROVE  /\ queue[k].req = call.req /\ PieceOK(queue[k])
             /\ queue[k].lo \in Nat /\ queue[k].hi \in Nat
  BY <1>1, OwnPieces DEF Waiting
<1>2. ReadTo \in Nat
  <2>1. CASE call.acc = <<>>
    BY <2>1 DEF ReadTo
  <2>2. CASE call.acc # <<>>
    <3>1. call.acc[Len(call.acc)] \in Chunk
      BY <1>0, <2>2
    <3> QED BY <2>2, <3>1 DEF ReadTo, Chunk
  <2> QED BY <2>1, <2>2
<1>3. ASSUME Take PROVE Ev = queue[1] /\ 1 \in DOMAIN queue /\ (IsAnswer <=> IsAns(1))
  <2>1. Ev = queue[1] /\ 1 \in DOMAIN queue
    BY <1>0, <1>3 DEF Take, Ev
  <2> QED BY <2>1 DEF IsAnswer, IsAns
<1>4. ASSUME Take, IsAnswer PROVE Ev.lo = ReadTo + 1
  <2>1. \A j \in DOMAIN queue : ~(j < 1)
    BY <1>0
  <2> QED BY <1>3, <1>4, <2>1 DEF WholeInv
<1> QED BY <1>1, <1>2, <1>3, <1>4

\* What an accessor that loses nothing makes of an event of its own answer:
\* it reads all of it, or fails, or passes over the rejection of the request,
\* or leaves when the session ends.
LEMMA LosslessEvent ==
  ASSUME TypeOK, SyncInv, PiecesInv, WholeInv, LoopEvent, call.clean, call.fn \in Lossless
  PROVE  /\ Take /\ call.phase = "loop"
         /\ \/ ~IsAnswer /\ call' = call
            \/ \E p \in {"raised", "undefined"} : End(p)
            \/ Ev.type = "SessionTerminated" /\ End("cut")
            \/ IsAnswer /\ Collect(Ev.hi)
            \/ IsAnswer /\ Ev.err = "responseError" /\ Ev.type = "RESPONSE" /\ PassRefusal
<1>1. Take /\ call.phase = "loop"
  BY LoopStep
<1>2. ASSUME IsAnswer
      PROVE  /\ MaxMsgs = 1 /\ Ev.err = "none" => Ev.lo = Ev.hi
             /\ Ev.err = "responseError" => Ev.type = "RESPONSE"
  BY <1>1, <1>2, NextPiece DEF PieceOK
<1>3. CASE BdpEvent
  <2>1. MaxMsgs = 1
    BY <1>3 DEF BdpEvent, InLoop, Lossless
  <2> QED BY <1>1, <1>2, <1>3, <2>1 DEF BdpEvent, Skip, Readable
<1>4. CASE BdhEvent
  <2>1. MaxMsgs = 1
    BY <1>4 DEF BdhEvent, InLoop, Lossless
  <2> QED BY <1>1, <1>2, <1>4, <2>1 DEF BdhEvent, Skip, Readable
<1>5. ASSUME NEW fn \in {"getBars", "getTicks", "lookup"}, StreamLoop(fn)
      PROVE  \/ ~IsAnswer /\ call' = call
             \/ \E p \in {"raised", "undefined"} : End(p)
             \/ Ev.type = "SessionTerminated" /\ End("cut")
             \/ IsAnswer /\ Collect(Ev.hi)
             \/ IsAnswer /\ Ev.err = "responseError" /\ Ev.type = "RESPONSE" /\ PassRefusal
  BY <1>2, <1>5 DEF StreamLoop, InLoop, Skip
<1>6. CASE SearchEvent
  BY <1>1, <1>6 DEF SearchEvent, Skip
<1>7. ~(BdsEvent \/ PortfolioEvent \/ BeqsEvent \/ BsrchEvent \/ AuthIdEvent \/ AuthAppEvent)
  BY DEF BdsEvent, PortfolioEvent, BeqsEvent, BsrchEvent, AuthIdEvent, AuthAppEvent, BulkLoop,
         GridLoop, InLoop, Lossless
<1> QED BY <1>1, <1>3, <1>4, <1>5, <1>6, <1>7 DEF LoopEvent, BarsEvent, TicksEvent, LookupEvent

\* One event fewer in the queue: the pieces after the first still follow.
LEMMA WholeTake ==
  ASSUME TypeOK, SyncInv, PiecesInv, WholeInv,
         call.phase = "loop", call.clean, call.fn \in Lossless, Take,
         call'.phase = "loop", call'.req = call.req, InARow(call'.acc),
         ReadTo' < reqs[call.req].n,
         ReadTo' = IF IsAnswer THEN Ev.hi ELSE ReadTo
  PROVE  WholeInv'
<1>1. /\ \A k \in DOMAIN queue : IsAns(k) =>
           /\ queue[k].req = call.req /\ PieceOK(queue[k])
           /\ queue[k].lo \in Nat /\ queue[k].hi \in Nat
      /\ ReadTo \in Nat /\ Ev = queue[1] /\ 1 \in DOMAIN queue /\ (IsAnswer <=> IsAns(1))
      /\ IsAnswer => Ev.lo = ReadTo + 1
  BY NextPiece
<1>2. /\ queue \in Seq(Event) /\ Len(queue) \in Nat /\ queue # <<>> /\ queue' = Tail(queue)
      /\ sent' = sent /\ reqs' = reqs
  BY DEF TypeOK, SessionTypeOK, Take
<1>3. /\ \A k \in DOMAIN queue' : /\ k \in Nat /\ k + 1 \in DOMAIN queue
                                  /\ k + 1 > 1 /\ queue'[k] = queue[k + 1]
      /\ \A k \in DOMAIN queue : k # 1 => /\ k \in Nat /\ k - 1 \in DOMAIN queue'
                                          /\ queue'[k - 1] = queue[k]
  BY <1>2
<1>4. \A k \in DOMAIN queue' : IsAns(k)' <=> IsAns(k + 1)
  BY <1>3 DEF IsAns
<1>5. ASSUME NEW k \in DOMAIN queue', IsAns(k)'
      PROVE  \/ queue'[k].lo = ReadTo' + 1
             \/ \E j \in DOMAIN queue' : j < k /\ IsAns(j)' /\ queue'[k].lo = queue'[j].hi + 1
  <2>1. k + 1 \in DOMAIN queue /\ IsAns(k + 1) /\ queue'[k] = queue[k + 1] /\ k \in Nat /\ k + 1 > 1
    BY <1>3, <1>4, <1>5
  <2>2. CASE queue[k + 1].lo = ReadTo + 1
    <3>1. CASE ~IsAnswer
      BY <2>1, <2>2, <3>1
    <3>2. CASE IsAnswer
      <4>1. queue[1].hi < queue[k + 1].lo
        BY <1>1, <2>1, <3>2 DEF PiecesInv
      <4>2. queue[1].lo <= queue[1].hi /\ queue[1].lo = ReadTo + 1
            /\ queue[1].lo \in Nat /\ queue[1].hi \in Nat /\ queue[k + 1].lo \in Nat
        BY <1>1, <2>1, <3>2 DEF PieceOK
      <4> QED BY <2>2, <4>1, <4>2
    <3> QED BY <3>1, <3>2
  <2>3. ASSUME NEW j \in DOMAIN queue, j < k + 1, IsAns(j), queue[k + 1].lo = queue[j].hi + 1
        PROVE  \/ queue'[k].lo = ReadTo' + 1
               \/ \E i \in DOMAIN queue' : i < k /\ IsAns(i)' /\ queue'[k].lo = queue'[i].hi + 1
    <3>1. CASE j = 1
      BY <1>1, <2>1, <2>3, <3>1
    <3>2. CASE j # 1
      <4>1. j - 1 \in DOMAIN queue' /\ queue'[j - 1] = queue[j] /\ j \in Nat
        BY <1>3, <2>3, <3>2
      <4>2. j - 1 < k
        BY <2>1, <2>3, <4>1
      <4>3. IsAns(j - 1)'
        BY <2>3, <4>1 DEF IsAns
      <4> QED BY <2>1, <2>3, <4>1, <4>2, <4>3
    <3> QED BY <3>1, <3>2
  <2>4. \/ queue[k + 1].lo = ReadTo + 1
        \/ \E j \in DOMAIN queue : j < k + 1 /\ IsAns(j) /\ queue[k + 1].lo = queue[j].hi + 1
    BY <2>1 DEF WholeInv
  <2> QED BY <2>2, <2>3, <2>4
<1>6. \/ sent'[call.req] = ReadTo'
      \/ \E k \in DOMAIN queue' : IsAns(k)' /\ queue'[k].hi = sent'[call.req]
  <2>1. CASE sent[call.req] = ReadTo
    <3>1. ~IsAnswer
      <4> SUFFICES ASSUME IsAnswer PROVE FALSE
        OBVIOUS
      <4>1. /\ Ev.lo <= Ev.hi /\ Ev.hi <= sent[call.req] /\ Ev.lo = ReadTo + 1
            /\ Ev.lo \in Nat /\ Ev.hi \in Nat
        BY <1>1 DEF PieceOK
      <4> QED BY <1>1, <2>1, <4>1
    <3> QED BY <1>2, <2>1, <3>1
  <2>2. ASSUME NEW k \in DOMAIN queue, IsAns(k), queue[k].hi = sent[call.req]
        PROVE  \/ sent'[call.req] = ReadTo'
               \/ \E i \in DOMAIN queue' : IsAns(i)' /\ queue'[i].hi = sent'[call.req]
    <3>1. CASE k = 1
      BY <1>1, <1>2, <2>2, <3>1
    <3>2. CASE k # 1
      <4>1. k - 1 \in DOMAIN queue' /\ queue'[k - 1] = queue[k]
        BY <1>3, <2>2, <3>2
      <4>2. IsAns(k - 1)'
        BY <2>2, <4>1 DEF IsAns
      <4> QED BY <1>2, <2>2, <4>1, <4>2
    <3> QED BY <3>1, <3>2
  <2> QED BY <2>1, <2>2 DEF WholeInv
<1> QED BY <1>2, <1>5, <1>6 DEF WholeInv

\* A step of the backend adds to the answer where it had stopped.
LEMMA WholeBackend ==
  ASSUME TypeOK, SessionOrder, SyncInv, PiecesInv, WholeInv, Backend, call' = call
  PROVE  WholeInv'
<1> SUFFICES ASSUME call.phase = "loop", call.clean, call.fn \in Lossless PROVE WholeInv'
  BY DEF WholeInv
<1>0. /\ SessionTypeOK /\ queue \in Seq(Event) /\ Len(queue) \in Nat
      /\ DOMAIN queue = 1 .. Len(queue) /\ ReadTo' = ReadTo
      /\ Outstanding \subseteq {call.req}
      /\ sent \in Seq(Nat) /\ Len(sent) = Len(reqs) /\ open \subseteq 1 .. Len(reqs)
  BY DEF TypeOK, SessionTypeOK, SyncInv, Waiting, ReadTo
<1>1. PICK e \in Event :
           /\ queue' = Append(queue, e) /\ reqs' = reqs
           /\ \/ /\ e.type \notin {"PARTIAL_RESPONSE", "RESPONSE"} /\ sent' = sent
              \/ /\ e.type \in {"PARTIAL_RESPONSE", "RESPONSE"} /\ e.req \in open
                 /\ e.lo = sent[e.req] + 1 /\ sent' = [sent EXCEPT ![e.req] = e.hi]
  BY <1>0, BackendAnswers, SessionAssumption
<1>2. /\ Len(queue) + 1 \in DOMAIN queue' /\ queue'[Len(queue) + 1] = e
      /\ \A k \in DOMAIN queue : /\ k \in DOMAIN queue' /\ queue'[k] = queue[k]
                                 /\ k < Len(queue) + 1
      /\ \A k \in DOMAIN queue' : k \in DOMAIN queue \/ k = Len(queue) + 1
  BY <1>0, <1>1, AppendEvent
<1>3. \A k \in DOMAIN queue : IsAns(k)' <=> IsAns(k)
  BY <1>2 DEF IsAns
<1>4. ASSUME NEW k \in DOMAIN queue, IsAns(k)
      PROVE  \/ queue'[k].lo = ReadTo' + 1
             \/ \E j \in DOMAIN queue' : j < k /\ IsAns(j)' /\ queue'[k].lo = queue'[j].hi + 1
  <2>1. \/ queue[k].lo = ReadTo + 1
        \/ \E j \in DOMAIN queue : j < k /\ IsAns(j) /\ queue[k].lo = queue[j].hi + 1
    BY <1>4 DEF WholeInv
  <2> QED BY <1>0, <1>2, <1>3, <2>1
<1>5. \/ sent[call.req] = ReadTo
      \/ \E k \in DOMAIN queue : IsAns(k) /\ queue[k].hi = sent[call.req]
  BY DEF WholeInv
<1>6. InARow(call.acc) /\ ReadTo' < reqs'[call.req].n
  BY <1>0, <1>1 DEF WholeInv
<1>7. CASE e.type \notin {"PARTIAL_RESPONSE", "RESPONSE"} /\ sent' = sent
  <2>1. \A k \in DOMAIN queue' : k = Len(queue) + 1 => ~IsAns(k)'
    BY <1>2, <1>7 DEF IsAns
  <2>2. \A k \in DOMAIN queue' : IsAns(k)' => k \in DOMAIN queue /\ IsAns(k)
    BY <1>2, <1>3, <2>1
  <2>3. \/ sent'[call.req] = ReadTo'
        \/ \E k \in DOMAIN queue' : IsAns(k)' /\ queue'[k].hi = sent'[call.req]
    BY <1>0, <1>2, <1>3, <1>5, <1>7
  <2> QED BY <1>4, <1>6, <2>2, <2>3 DEF WholeInv
<1>8. CASE /\ e.type \in {"PARTIAL_RESPONSE", "RESPONSE"} /\ e.req \in open
           /\ e.lo = sent[e.req] + 1 /\ sent' = [sent EXCEPT ![e.req] = e.hi]
  <2>1. e.req = call.req /\ e.req \in DOMAIN sent
    <3>1. e.req \in Outstanding
      BY <1>8 DEF Outstanding
    <3>2. e.req \in 1 .. Len(sent)
      BY <1>0, <1>8
    <3> QED BY <1>0, <3>1, <3>2
  <2>2. \E k \in DOMAIN queue' : k = Len(queue) + 1 /\ IsAns(k)' /\ queue'[k] = e
    BY <1>2, <1>8 DEF IsAns
  <2>3. sent'[call.req] = e.hi
    BY <1>0, <1>8, <2>1
  <2>4. \/ e.lo = ReadTo' + 1
        \/ \E j \in DOMAIN queue' : j < Len(queue) + 1 /\ IsAns(j)' /\ e.lo = queue'[j].hi + 1
    BY <1>0, <1>2, <1>3, <1>5, <1>8, <2>1
  <2>5. \A k \in DOMAIN queue' : IsAns(k)' =>
          \/ queue'[k].lo = ReadTo' + 1
          \/ \E j \in DOMAIN queue' : j < k /\ IsAns(j)' /\ queue'[k].lo = queue'[j].hi + 1
    BY <1>2, <1>3, <1>4, <2>4
  <2>6. \E k \in DOMAIN queue' : IsAns(k)' /\ queue'[k].hi = sent'[call.req]
    BY <2>2, <2>3
  <2> QED BY <1>6, <2>5, <2>6 DEF WholeInv
<1> QED BY <1>1, <1>7, <1>8

\* A call that returns what it has, with nothing lost: each step of it keeps
\* both the invariant and its result.
LEMMA WholeStep ==
  ASSUME TypeOK, SessionOrder, SyncInv, PiecesInv, RefusedInv, WholeInv, WholeAnswer, [Next]_vars
  PROVE  WholeInv' /\ WholeAnswer'
<1>0. /\ SessionTypeOK /\ call \in Frame /\ Len(reqs) \in Nat /\ call.acc \in Seq(Chunk)
      /\ sent \in Seq(Nat) /\ Len(sent) = Len(reqs)
  BY DEF TypeOK, SessionTypeOK, Frame
<1>1. ASSUME call'.phase \notin {"loop", "returned", "cut"} PROVE WholeInv' /\ WholeAnswer'
  BY <1>1 DEF WholeInv, WholeAnswer
<1>2. ASSUME ~(call'.clean /\ call'.fn \in Lossless) PROVE WholeInv' /\ WholeAnswer'
  BY <1>2 DEF WholeInv, WholeAnswer, Lossless
<1>3. CASE \E fn \in Fns : Begin(fn)
  <2>1. call'.phase \in {"ask", "send"}
    BY <1>3 DEF Begin
  <2> QED BY <1>1, <2>1
<1>4. CASE AskField \/ RaiseBeforeSend \/ AuthAppTimeout
  <2>1. call'.phase \in {"field", "raised"}
    BY <1>0, <1>4 DEF AskField, RaiseBeforeSend, AuthAppTimeout, End, Frame
  <2> QED BY <1>1, <2>1
<1>5. CASE SendData
  <2>1. /\ call.phase = "send" /\ call'.phase = "loop" /\ call'.req = Len(reqs) + 1
        /\ call'.acc = call.acc /\ call'.clean = call.clean /\ call'.fn = call.fn
    BY <1>0, <1>5 DEF SendData, Frame
  <2>7. reqs'[call'.req].n \in Nat \ {0}
    <3>0. SendStep
      BY <1>5, SendDataStep, SessionAssumption, EventLoopAssumption
    <3>1. PICK kind \in Kinds, sec \in Seq(STRING), fld \in Flds \cup {"none"}, n \in Nat \ {0} :
            Send(kind, sec, fld, n)
      BY <3>0 DEF SendStep
    <3>2. n \in Nat \ {0}
      OBVIOUS
    <3>3. reqs'[Len(reqs) + 1].n = n
      BY <1>0, <3>1 DEF Send, SessionTypeOK
    <3> QED BY <2>1, <3>2, <3>3
  <2>2. call'.acc = <<>> /\ ReadTo' = 0 /\ InARow(call'.acc)
    <3>1. call'.acc = <<>>
      BY <2>1 DEF SyncInv
    <3>2. Len(call'.acc) = 0
      BY <3>1
    <3> QED BY <3>1, <3>2 DEF ReadTo, InARow
  <2>3. queue' = queue /\ sent' = Append(sent, 0)
    BY <1>5 DEF SendData, Send
  <2>4. sent'[call'.req] = 0
    BY <1>0, <2>1, <2>3
  <2>5. ASSUME call'.clean, NEW k \in DOMAIN queue', IsAns(k)' PROVE FALSE
    <3>1. Outstanding = {}
      BY <2>1, <2>5 DEF SyncInv
    <3>2. k \in DOMAIN queue /\ IsAns(k)
      BY <2>3, <2>5 DEF IsAns
    <3>3. queue[k].req \in 0 .. Len(reqs) /\ queue[k].req # 0
      BY <1>0, <3>2 DEF SessionTypeOK, IsAns
    <3>4. queue[k].req \in 1 .. Len(reqs)
      BY <1>0, <3>3
    <3> QED BY <3>1, <3>2, <3>4 DEF Outstanding
  <2>6. WholeAnswer'
    BY <2>1 DEF WholeAnswer
  <2>8. ReadTo' < reqs'[call'.req].n
    BY <2>2, <2>7
  <2> QED BY <2>2, <2>4, <2>5, <2>6, <2>8 DEF WholeInv
<1>6. CASE FieldEvent
  <2>1. call.phase = "field" /\ (call' = call \/ End("raised") \/ FieldDone)
    BY <1>6 DEF FieldEvent, Skip
  <2>2. CASE call' = call
    BY <1>1, <2>1, <2>2
  <2>3. CASE End("raised")
    <3>1. call'.phase = "raised"
      BY <1>0, <2>3 DEF End, Frame
    <3> QED BY <1>1, <3>1
  <2>4. CASE FieldDone
    <3>1. /\ call'.phase \in {"ask", "send", "returned"} /\ call'.fn = call.fn
          /\ call'.phase = "returned" => call.fn = "fieldInfo"
      BY <1>0, <2>4 DEF FieldDone, Frame
    <3>2. "fieldInfo" \notin Lossless
      BY DEF Lossless
    <3>3. CASE call'.phase = "returned"
      BY <1>2, <3>1, <3>2, <3>3
    <3>4. CASE call'.phase # "returned"
      BY <1>1, <3>1, <3>4
    <3> QED BY <3>3, <3>4
  <2> QED BY <2>1, <2>2, <2>3, <2>4
<1>7. CASE LoopEvent
  <2>1. /\ Take /\ call.phase = "loop" /\ reqs' = reqs
        /\ call'.fn = call.fn /\ call'.clean = call.clean
    <3>1. Take /\ call.phase = "loop" /\ (SkipsEv \/ EndsEv \/ CollectsEv)
      BY <1>7, LoopStep
    <3>2. call'.fn = call.fn /\ call'.clean = call.clean
      BY <1>0, <3>1, EndsKeeps DEF SkipsEv, CollectsEv, Frame
    <3> QED BY <3>1, <3>2 DEF Take
  <2> SUFFICES ASSUME call.clean, call.fn \in Lossless PROVE WholeInv' /\ WholeAnswer'
    BY <1>2, <2>1 DEF Lossless
  <2>2. CASE ~IsAnswer /\ call' = call
    <3>1. ReadTo' = ReadTo /\ InARow(call'.acc)
      <4>1. InARow(call.acc)
        BY <2>1 DEF WholeInv
      <4>2. ReadTo' = ReadTo
        BY <2>2 DEF ReadTo
      <4> QED BY <2>2, <4>1, <4>2
    <3>2. WholeAnswer'
      BY <2>1, <2>2 DEF WholeAnswer
    <3>3. call'.phase = "loop" /\ call'.req = call.req
      BY <2>1, <2>2
    <3>4. WholeInv'
      <4>1. ~IsAnswer /\ ReadTo' = ReadTo /\ ReadTo' < reqs[call.req].n
        BY <2>1, <2>2, <3>1 DEF WholeInv
      <4> QED BY <2>1, <3>1, <3>3, <4>1, WholeTake
    <3> QED BY <3>2, <3>4
  <2>3. CASE \E p \in {"raised", "undefined"} : End(p)
    <3>1. call'.phase \in {"raised", "undefined"}
      BY <1>0, <2>3 DEF End, Frame
    <3> QED BY <1>1, <3>1
  <2>4. CASE IsAnswer /\ Collect(Ev.hi)
    <3>1. /\ Ev.lo = ReadTo + 1 /\ PieceOK(Ev) /\ Ev.req = call.req
          /\ Ev.lo \in Nat /\ Ev.hi \in Nat
      BY <2>1, <2>4, NextPiece
    <3>2. PICK c \in Chunk : c = [req |-> Ev.req, lo |-> Ev.lo, hi |-> Ev.hi]
      <4>1. Ev.req \in Nat
        BY <1>0, <2>1, TakeType DEF Ev, Event
      <4> QED BY <3>1, <4>1 DEF Chunk
    <3>3. c.lo = Ev.lo /\ c.hi = Ev.hi
      BY <3>2
    <3>4. /\ call'.acc = Append(call.acc, c) /\ call'.req = call.req
          /\ call'.phase = IF Ev.type = "RESPONSE" THEN "returned" ELSE "loop"
      BY <1>0, <2>4, <3>2 DEF Collect, Frame
    <3>5. /\ InARow(call'.acc) /\ call'.acc # <<>> /\ call'.acc[Len(call'.acc)] = c
      <4>1. InARow(call.acc)
        BY <2>1 DEF WholeInv
      <4>2. c.lo <= c.hi /\ c.lo = (IF call.acc = <<>> THEN 0 ELSE call.acc[Len(call.acc)].hi) + 1
        BY <3>1, <3>3 DEF PieceOK, ReadTo
      <4> DEFINE acc == call.acc
      <4>3. acc \in Seq(Chunk)
        BY <1>0 DEF Frame
      <4>4. /\ InARow(acc) /\ c.lo <= c.hi
            /\ c.lo = (IF acc = <<>> THEN 0 ELSE acc[Len(acc)].hi) + 1
        BY <4>1, <4>2
      <4> HIDE DEF acc
      <4>5. InARow(Append(acc, c)) /\ Append(acc, c) # <<>> /\ Append(acc, c)[Len(Append(acc, c))] = c
        BY <4>3, <4>4, RowAppend
      <4> QED BY <3>4, <4>5 DEF acc
    <3>6. ReadTo' = Ev.hi
      BY <3>3, <3>5 DEF ReadTo
    <3>7. CASE Ev.type = "RESPONSE"
      <4>1. Ev.hi = reqs[call.req].n
        BY <3>1, <3>7 DEF PieceOK
      <4>2. call'.acc[Len(call'.acc)].hi = reqs'[call'.req].n
        BY <2>1, <3>3, <3>4, <3>5, <4>1
      <4>3. InFull(call.acc, call.req)'
        BY <3>5, <4>2 DEF InFull, InOrder, InARow
      <4>4. call'.refused = {}
        BY <1>0, <2>1, <2>4 DEF RefusedInv, Busy, Waiting, Collect, Frame
      <4>5. call'.phase = "returned"
        BY <3>4, <3>7
      <4> QED BY <4>3, <4>4, <4>5 DEF WholeInv, WholeAnswer
    <3>8. CASE Ev.type # "RESPONSE"
      <4>1. call'.phase = "loop"
        BY <3>4, <3>8
      <4>3. ReadTo' < reqs[call.req].n
        <5>1. Ev.hi <= reqs[call.req].n /\ Ev.hi # reqs[call.req].n
          BY <3>1, <3>8 DEF PieceOK
        <5>2. reqs[call.req].n \in Nat
          <6>1. call.req \in DOMAIN reqs /\ reqs \in Seq(Request)
            BY <1>0, <2>1 DEF TypeOK, SessionTypeOK
          <6>2. reqs[call.req] \in Request
            BY <6>1
          <6> QED BY <6>2 DEF Request
        <5> QED BY <3>1, <3>6, <5>1, <5>2
      <4>2. WholeInv'
        BY <2>1, <2>4, <3>4, <3>5, <3>6, <4>1, <4>3, WholeTake
      <4> QED BY <4>1, <4>2 DEF WholeAnswer
    <3> QED BY <3>7, <3>8
  <2>5. CASE IsAnswer /\ Ev.err = "responseError" /\ Ev.type = "RESPONSE" /\ PassRefusal
    <3>1. /\ call'.phase = "returned" /\ call'.acc = call.acc /\ call'.req = call.req
          /\ call'.refused = call.refused \cup {Ev.req}
      BY <1>0, <2>5 DEF PassRefusal, Frame
    <3>2. Ev.lo = ReadTo + 1 /\ PieceOK(Ev) /\ ReadTo \in Nat /\ Ev.req = call.req
      BY <2>1, <2>5, NextPiece
    <3>3. ReadTo = 0
      BY <2>5, <3>2 DEF PieceOK
    <3>4. call.acc = <<>>
      <4> SUFFICES ASSUME call.acc # <<>> PROVE FALSE
        OBVIOUS
      <4>1. call.acc[Len(call.acc)].hi >= 1 /\ ReadTo = call.acc[Len(call.acc)].hi
        BY <2>1 DEF WholeInv, InARow, ReadTo
      <4> QED BY <3>3, <4>1
    <3>5. call'.refused = {call'.req}
      BY <2>1, <3>1, <3>2 DEF RefusedInv, Busy, Waiting
    <3> QED BY <3>1, <3>4, <3>5 DEF WholeInv, WholeAnswer
  <2>6. CASE Ev.type = "SessionTerminated" /\ End("cut")
    <3>1. /\ call'.phase = "cut" /\ call'.acc = call.acc /\ call'.req = call.req
          /\ call'.refused = call.refused
      BY <1>0, <2>6 DEF End, Frame
    <3>2. Ev = queue[1] /\ 1 \in DOMAIN queue /\ ReadTo \in Nat
      BY <2>1, NextPiece
    <3>3. ~up /\ Len(queue) = 1
      BY <2>6, <3>2 DEF SessionOrder
    <3>4. \A k \in DOMAIN queue : ~IsAns(k)
      <4>1. DOMAIN queue = {1}
        BY <1>0, <3>3 DEF SessionTypeOK
      <4> QED BY <2>6, <3>2, <4>1 DEF IsAns
    <3>5. sent[call.req] = ReadTo /\ ReadTo < reqs[call.req].n /\ InARow(call.acc)
      BY <2>1, <3>4 DEF WholeInv
    <3>6. InOrder(call.acc, ReadTo)
      BY <3>5 DEF InOrder, InARow, ReadTo
    <3>7. up' = up /\ sent' = sent /\ reqs' = reqs
      BY <2>1 DEF Take
    <3>8. call'.refused = {}
      BY <2>1, <3>1 DEF RefusedInv, Busy, Waiting
    <3>9. InOrder(call'.acc, sent'[call'.req]) /\ sent'[call'.req] < reqs'[call'.req].n /\ ~up'
      BY <3>1, <3>3, <3>5, <3>6, <3>7
    <3> QED BY <3>1, <3>8, <3>9 DEF WholeInv, WholeAnswer
  <2> QED BY <1>7, <2>2, <2>3, <2>4, <2>5, <2>6, LosslessEvent
<1>8. CASE Backend /\ UNCHANGED call
  <2>1. reqs' = reqs
    BY <1>0, <1>8, BackendType, SessionAssumption
  <2>2. WholeAnswer'
    <3>1. CASE call.phase = "cut" /\ call.clean /\ call.fn \in Lossless
      <4>1. ~up /\ open = {}
        BY <3>1 DEF WholeAnswer, SessionOrder
      <4> QED BY <1>8, <4>1 DEF Backend, Terminate, Notice
    <3>2. CASE ~(call.phase = "cut" /\ call.clean /\ call.fn \in Lossless)
      BY <1>8, <2>1, <3>2 DEF WholeAnswer, InFull, Lossless
    <3> QED BY <3>1, <3>2
  <2> QED BY <1>8, <2>2, WholeBackend
<1>9. CASE UNCHANGED vars
  BY <1>9 DEF vars, session, WholeInv, WholeAnswer, InFull, ReadTo, IsAns, Lossless
<1> QED BY <1>3, <1>4, <1>5, <1>6, <1>7, <1>8, <1>9 DEF Next, CallStep, LoopEvent

\* A call that passes over a refusal ends with it.
LEMMA RefusedStep == TypeOK /\ RefusedInv /\ [Next]_vars => RefusedInv'
<1> SUFFICES ASSUME TypeOK, RefusedInv, [Next]_vars PROVE RefusedInv'
  OBVIOUS
<1>0. call \in Frame
  BY DEF TypeOK
<1>1. CASE \E fn \in Fns : Begin(fn)
  BY <1>1 DEF Begin, RefusedInv
<1>2. CASE AskField \/ SendData \/ RaiseBeforeSend
  BY <1>0, <1>2 DEF AskField, SendData, RaiseBeforeSend, End, RefusedInv, Busy, Waiting, Frame
<1>3. CASE FieldEvent
  <2>1. call.phase = "field" /\ (call' = call \/ End("raised") \/ FieldDone)
    BY <1>3 DEF FieldEvent, Skip
  <2> QED BY <1>0, <2>1 DEF FieldDone, End, RefusedInv, Busy, Waiting, Frame
<1>4. CASE LoopEvent
  <2>1. Take /\ call.phase = "loop" /\ (SkipsEv \/ EndsEv \/ CollectsEv)
    BY <1>4, LoopStep
  <2>2. CASE EndsEv
    <3>1. call'.phase \in Ended
      BY <1>0, <2>2, EndsKeeps
    <3> QED BY <3>1 DEF RefusedInv, Busy, Waiting, Ended
  <2>3. CASE SkipsEv
    BY <2>3 DEF SkipsEv, RefusedInv, Busy, Waiting
  <2>4. CASE CollectsEv
    <3>1. call'.refused = call.refused
      BY <1>0, <2>4 DEF CollectsEv, Frame
    <3> QED BY <2>1, <3>1 DEF RefusedInv, Busy, Waiting
  <2> QED BY <2>1, <2>2, <2>3, <2>4
<1>5. CASE AuthAppTimeout
  BY <1>0, <1>5 DEF AuthAppTimeout, End, RefusedInv, Busy, Waiting, Frame
<1>6. CASE UNCHANGED call
  BY <1>6 DEF RefusedInv, Busy, Waiting
<1> QED BY <1>1, <1>2, <1>3, <1>4, <1>5, <1>6 DEF Next, CallStep, LoopEvent, vars

\* What getBars, getTicks, lookupSecurity and fieldSearch (and bdp and bdh
\* where an event holds one message) hand to R in sync is their whole answer,
\* each message once and in order, or the empty frame of a request that the
\* backend refused, or, when the session has ended, the answer as far as it
\* came, without a gap.
THEOREM WholeAnswerCorrect == Spec => []WholeAnswer
<1>1. Init => PiecesInv /\ RefusedInv /\ WholeInv /\ WholeAnswer
  <2> SUFFICES ASSUME Init PROVE PiecesInv /\ RefusedInv /\ WholeInv /\ WholeAnswer
    OBVIOUS
  <2>1. DOMAIN queue = {} /\ call.phase = "idle"
    BY DEF Init, SessionInit
  <2> QED BY <2>1 DEF PiecesInv, RefusedInv, Busy, Waiting, WholeInv, WholeAnswer
<1>2. /\ TypeOK /\ SessionOrder /\ SyncInv /\ PiecesInv /\ RefusedInv /\ WholeInv /\ WholeAnswer
      /\ [Next]_vars
      => (PiecesInv /\ RefusedInv /\ WholeInv /\ WholeAnswer)'
  BY PiecesStep, RefusedStep, WholeStep
<1> QED BY <1>1, <1>2, TypeCorrect, SyncCorrect, PTL DEF Spec

-----------------------------------------------------------------------------
(* A call in sync fails only for what its answer says.                     *)

\* the request getFieldType() waits for asks for the type of a field
FieldAsked == call.phase = "field" => reqs[call.req].kind = "fieldInfoResponse"

LEMMA FieldAskedStep == TypeOK /\ FieldAsked /\ [Next]_vars => FieldAsked'
<1> SUFFICES ASSUME TypeOK, FieldAsked, [Next]_vars, call'.phase = "field" PROVE FieldAsked'
  BY DEF FieldAsked
<1>0. SessionTypeOK /\ call \in Frame /\ reqs \in Seq(Request) /\ Len(reqs) \in Nat
  BY DEF TypeOK, SessionTypeOK
<1>1. CASE AskField
  <2>1. /\ call'.req = Len(reqs) + 1
        /\ reqs' = Append(reqs, [kind |-> "fieldInfoResponse", sec |-> <<>>, fld |-> call.fld, n |-> 1])
    BY <1>0, <1>1 DEF AskField, Send, Frame
  <2>2. reqs'[Len(reqs) + 1] = [kind |-> "fieldInfoResponse", sec |-> <<>>, fld |-> call.fld, n |-> 1]
    BY <1>0, <2>1
  <2> QED BY <2>1, <2>2 DEF FieldAsked
<1>2. ASSUME call' = call, reqs' = reqs PROVE FieldAsked'
  BY <1>2 DEF FieldAsked
<1>3. CASE Backend /\ UNCHANGED call
  BY <1>0, <1>2, <1>3, BackendType, SessionAssumption
<1>4. CASE UNCHANGED vars
  BY <1>2, <1>4 DEF vars, session
<1>5. CASE \E fn \in Fns : Begin(fn)
  <2>1. call'.phase \in {"ask", "send"}
    BY <1>5 DEF Begin
  <2> QED BY <2>1
<1>6. CASE SendData
  <2>1. call'.phase = "loop"
    BY <1>0, <1>6 DEF SendData, Frame
  <2> QED BY <2>1
<1>7. ASSUME EndsEv PROVE FALSE
  <2>1. call'.phase \in Ended
    BY <1>0, <1>7, EndsKeeps
  <2> QED BY <2>1 DEF Ended
<1>8. CASE RaiseBeforeSend \/ AuthAppTimeout
  <2>1. EndsEv
    BY <1>8 DEF RaiseBeforeSend, AuthAppTimeout, End, EndsEv, Ended
  <2> QED BY <1>7, <2>1
<1>9. CASE FieldEvent \/ LoopEvent
  <2>1. Take /\ reqs' = reqs
    BY <1>0, <1>9, FieldStep, LoopStep, TakeType
  <2>2. CASE SkipsEv
    BY <1>2, <2>1, <2>2 DEF SkipsEv
  <2>3. CASE FieldDone
    <3>1. call'.phase \in {"ask", "send", "returned"}
      BY <1>0, <2>3 DEF FieldDone, Frame
    <3> QED BY <3>1
  <2>4. CASE CollectsEv
    <3>1. call'.phase \in {"returned", "loop"}
      BY <1>0, <2>4 DEF CollectsEv, Frame
    <3> QED BY <3>1
  <2> QED BY <1>7, <1>9, <2>2, <2>3, <2>4, FieldStep, LoopStep
<1> QED BY <1>1, <1>3, <1>4, <1>5, <1>6, <1>8, <1>9 DEF Next, CallStep, LoopEvent

\* A call has no more entries than messages it was sent: each event it read
\* brought one at least.
CountInv ==
  call.phase = "loop" /\ call.clean =>
    /\ Len(call.acc) <= sent[call.req]
    /\ \A k \in DOMAIN queue : IsAns(k) => Len(call.acc) < queue[k].lo

\* taking an event, and keeping at most one entry of it
LEMMA CountTake ==
  ASSUME TypeOK, SyncInv, PiecesInv, CountInv, Take, call.phase = "loop",
         call'.clean = call.clean, call'.req = call.req, call'.acc \in Seq(Chunk),
         \/ Len(call'.acc) <= Len(call.acc)
         \/ IsAnswer /\ Len(call'.acc) <= Len(call.acc) + 1
  PROVE  CountInv'
<1> SUFFICES ASSUME call.clean PROVE CountInv'
  BY DEF CountInv
<1>1. /\ queue \in Seq(Event) /\ Len(queue) \in Nat /\ queue # <<>> /\ queue' = Tail(queue)
      /\ sent' = sent /\ Ev = queue[1] /\ Waiting
      /\ call.acc \in Seq(Chunk) /\ Len(call.acc) \in Nat /\ Len(call'.acc) \in Nat
  BY DEF TypeOK, SessionTypeOK, Take, Ev, Waiting, Frame
<1>2. \A k \in DOMAIN queue' : /\ 1 \in DOMAIN queue /\ k + 1 \in DOMAIN queue /\ 1 < k + 1
                               /\ queue'[k] = queue[k + 1] /\ (IsAns(k)' => IsAns(k + 1))
  <2>1. \A k \in DOMAIN queue' : /\ 1 \in DOMAIN queue /\ k + 1 \in DOMAIN queue /\ 1 < k + 1
                                 /\ queue'[k] = queue[k + 1]
    BY <1>1
  <2> QED BY <2>1 DEF IsAns
<1>3. Len(call.acc) <= sent[call.req] /\ sent[call.req] \in Nat
  <2>1. call.req \in 0 .. Len(reqs) /\ call.req # 0 /\ sent \in Seq(Nat) /\ Len(sent) = Len(reqs)
        /\ Len(reqs) \in Nat
    BY DEF TypeOK, SessionTypeOK
  <2>2. call.req \in DOMAIN sent
    BY <2>1
  <2> QED BY <2>1, <2>2 DEF CountInv
<1>4. CASE Len(call'.acc) <= Len(call.acc)
  <2>1. ASSUME NEW k \in DOMAIN queue', IsAns(k)' PROVE Len(call'.acc) < queue'[k].lo
    <3>1. k + 1 \in DOMAIN queue /\ IsAns(k + 1) /\ queue'[k] = queue[k + 1]
      BY <1>2, <2>1
    <3>2. Len(call.acc) < queue[k + 1].lo /\ queue[k + 1].lo \in Nat
      BY <1>1, <3>1, OwnPieces DEF CountInv
    <3> QED BY <1>1, <1>4, <3>1, <3>2
  <2>2. Len(call'.acc) <= sent'[call'.req]
    BY <1>1, <1>3, <1>4
  <2> QED BY <2>1, <2>2 DEF CountInv
<1>5. CASE IsAnswer /\ Len(call'.acc) <= Len(call.acc) + 1
  <2>1. 1 \in DOMAIN queue /\ IsAns(1)
    BY <1>1, <1>5 DEF IsAnswer, IsAns
  <2>2. /\ Len(call.acc) < Ev.lo /\ Ev.lo <= Ev.hi /\ Ev.hi <= sent[call.req]
        /\ Ev.lo \in Nat /\ Ev.hi \in Nat /\ Ev.req = call.req
    BY <1>1, <2>1, OwnPieces DEF CountInv, PieceOK
  <2>3. ASSUME NEW k \in DOMAIN queue', IsAns(k)' PROVE Len(call'.acc) < queue'[k].lo
    <3>1. k + 1 \in DOMAIN queue /\ IsAns(k + 1) /\ queue'[k] = queue[k + 1] /\ 1 < k + 1
      BY <1>2, <2>3
    <3>2. queue[k + 1].lo \in Nat /\ queue[k + 1].req = call.req
      BY <1>1, <3>1, OwnPieces
    <3>3. Ev.hi < queue[k + 1].lo
      BY <1>1, <2>1, <2>2, <3>1, <3>2 DEF PiecesInv
    <3> QED BY <1>1, <1>5, <2>2, <3>1, <3>2, <3>3, SMTT(20)
  <2>4. Len(call'.acc) <= sent'[call'.req]
    BY <1>1, <1>3, <1>5, <2>2
  <2> QED BY <2>3, <2>4 DEF CountInv
<1> QED BY <1>4, <1>5

LEMMA CountBackend ==
  ASSUME TypeOK, SessionOrder, SyncInv, CountInv, Backend, call' = call
  PROVE  CountInv'
<1> SUFFICES ASSUME call.phase = "loop", call.clean PROVE CountInv'
  BY DEF CountInv
<1>1. /\ SessionTypeOK /\ queue \in Seq(Event) /\ Outstanding \subseteq {call.req}
      /\ sent \in Seq(Nat) /\ Len(sent) = Len(reqs) /\ Len(reqs) \in Nat
      /\ call.req \in 0 .. Len(reqs) /\ call.req # 0
      /\ open \subseteq Outstanding /\ Len(call.acc) \in Nat
  BY DEF TypeOK, SessionTypeOK, SyncInv, Waiting, Outstanding, Frame
<1>2. call.req \in DOMAIN sent /\ sent[call.req] \in Nat
  BY <1>1
<1>3. PICK e \in Event :
           /\ queue' = Append(queue, e) /\ reqs' = reqs
           /\ \/ /\ e.type \notin {"PARTIAL_RESPONSE", "RESPONSE"} /\ sent' = sent
              \/ /\ e.type \in {"PARTIAL_RESPONSE", "RESPONSE"} /\ e.req \in open
                 /\ e.lo = sent[e.req] + 1 /\ sent' = [sent EXCEPT ![e.req] = e.hi]
                 /\ PieceOK(e)'
  BY <1>1, BackendAnswers, SessionAssumption
<1>4. /\ queue'[Len(queue) + 1] = e
      /\ \A k \in DOMAIN queue : k \in DOMAIN queue' /\ queue'[k] = queue[k]
      /\ \A k \in DOMAIN queue' : k \in DOMAIN queue \/ k = Len(queue) + 1
  BY <1>1, <1>3, AppendEvent
<1>5. Len(call.acc) <= sent[call.req]
  BY DEF CountInv
<1>6. ASSUME NEW k \in DOMAIN queue', IsAns(k)', k \in DOMAIN queue
      PROVE  Len(call'.acc) < queue'[k].lo
  <2>1. IsAns(k)
    BY <1>4, <1>6 DEF IsAns
  <2> QED BY <1>4, <1>6, <2>1 DEF CountInv
<1>7. CASE e.type \notin {"PARTIAL_RESPONSE", "RESPONSE"} /\ sent' = sent
  <2>1. \A k \in DOMAIN queue' : IsAns(k)' => k \in DOMAIN queue
    BY <1>4, <1>7 DEF IsAns
  <2> QED BY <1>5, <1>6, <1>7, <2>1 DEF CountInv
<1>8. CASE /\ e.req \in open /\ e.lo = sent[e.req] + 1
           /\ sent' = [sent EXCEPT ![e.req] = e.hi] /\ PieceOK(e)'
  <2>1. e.req = call.req
    BY <1>1, <1>8
  <2>2. sent'[call.req] = e.hi /\ e.lo = sent[call.req] + 1 /\ e.lo <= e.hi
        /\ e.hi \in Nat /\ e.lo \in Nat
    BY <1>2, <1>8, <2>1 DEF PieceOK, Event
  <2>3. Len(call.acc) < e.lo /\ Len(call.acc) <= sent'[call.req]
    BY <1>1, <1>2, <1>5, <2>2, SMTT(20)
  <2>4. \A k \in DOMAIN queue' : IsAns(k)' => Len(call'.acc) < queue'[k].lo
    BY <1>4, <1>6, <2>3
  <2> QED BY <2>3, <2>4 DEF CountInv
<1> QED BY <1>3, <1>7, <1>8

LEMMA CountStep ==
  TypeOK /\ SessionOrder /\ SyncInv /\ PiecesInv /\ CountInv /\ [Next]_vars => CountInv'
<1> SUFFICES ASSUME TypeOK, SessionOrder, SyncInv, PiecesInv, CountInv, [Next]_vars
             PROVE  CountInv'
  OBVIOUS
<1>0. /\ SessionTypeOK /\ call \in Frame /\ Len(reqs) \in Nat /\ call.acc \in Seq(Chunk)
      /\ sent \in Seq(Nat) /\ Len(sent) = Len(reqs)
  BY DEF TypeOK, SessionTypeOK, Frame
<1>1. ASSUME call'.phase # "loop" PROVE CountInv'
  BY <1>1 DEF CountInv
<1>2. CASE \E fn \in Fns : Begin(fn)
  <2>1. call'.phase \in {"ask", "send"}
    BY <1>2 DEF Begin
  <2> QED BY <1>1, <2>1
<1>3. CASE call' = [call EXCEPT !.phase = "field", !.req = Len(reqs) + 1]
  <2>1. call'.phase = "field"
    BY <1>0, <1>3 DEF Frame
  <2> QED BY <1>1, <2>1
<1>4. CASE /\ SendStep /\ call.phase = "send"
           /\ call' = [call EXCEPT !.phase = "loop", !.req = Len(reqs) + 1]
  <2>1. /\ call'.req = Len(reqs) + 1 /\ call'.acc = call.acc /\ call'.clean = call.clean
    BY <1>0, <1>4 DEF Frame
  <2>2. queue' = queue /\ sent' = Append(sent, 0)
    BY <1>4 DEF SendStep, Send
  <2>3. sent'[call'.req] = 0
    BY <1>0, <2>1, <2>2
  <2>4. Len(call'.acc) = 0
    <3>1. call.acc = <<>>
      BY <1>4 DEF SyncInv
    <3> QED BY <2>1, <3>1
  <2>5. ASSUME call.clean, NEW k \in DOMAIN queue, IsAns(k) PROVE FALSE
    <3>1. queue[k].req \in 0 .. Len(reqs) /\ queue[k].req # 0
      BY <1>0, <2>5 DEF SessionTypeOK, IsAns
    <3>2. queue[k].req \in 1 .. Len(reqs)
      BY <1>0, <3>1
    <3>3. Outstanding = {}
      BY <1>4, <2>5 DEF SyncInv
    <3> QED BY <2>5, <3>2, <3>3 DEF Outstanding
  <2>6. ASSUME call'.clean, NEW k \in DOMAIN queue', IsAns(k)' PROVE FALSE
    BY <2>1, <2>2, <2>5, <2>6 DEF IsAns
  <2> QED BY <2>3, <2>4, <2>6 DEF CountInv
<1>5. CASE EndsEv
  <2>1. call'.phase # "loop"
    BY <1>0, <1>5, EndsKeeps DEF Ended
  <2> QED BY <1>1, <2>1
<1>6. CASE call.phase = "field" /\ SkipsEv
  BY <1>1, <1>6 DEF SkipsEv
<1>7. CASE FieldDone
  <2>1. call'.phase \in {"ask", "send", "returned"}
    BY <1>0, <1>7 DEF FieldDone, Frame
  <2> QED BY <1>1, <2>1
<1>8. CASE Take /\ call.phase = "loop" /\ SkipsEv
  <2>1. call' = call /\ Len(call'.acc) <= Len(call.acc)
    BY <1>0, <1>8 DEF SkipsEv
  <2> QED BY <1>0, <1>8, <2>1, CountTake
<1>9. CASE Take /\ call.phase = "loop" /\ CollectsEv
  <2>1. PICK old \in {call.acc, <<>>}, c \in Chunk, p \in {"returned", "loop"} :
             IsAnswer /\ call' = [call EXCEPT !.acc = Append(old, c), !.phase = p]
    BY <1>9 DEF CollectsEv
  <2>2. call'.acc = Append(old, c) /\ call'.clean = call.clean /\ call'.req = call.req
    BY <1>0, <2>1 DEF Frame
  <2>3. old \in Seq(Chunk) /\ Len(old) <= Len(call.acc)
    <3>1. Len(call.acc) \in Nat /\ Len(<<>>) = 0 /\ <<>> \in Seq(Chunk)
      BY <1>0
    <3>2. CASE old = call.acc
      BY <1>0, <3>1, <3>2
    <3>3. CASE old = <<>>
      BY <3>1, <3>3
    <3> QED BY <2>1, <3>2, <3>3
  <2>4. call'.acc \in Seq(Chunk) /\ Len(call'.acc) <= Len(call.acc) + 1
    BY <1>0, <2>2, <2>3
  <2> QED BY <1>9, <2>1, <2>2, <2>4, CountTake
<1>10. CASE Backend /\ UNCHANGED call
  BY <1>10, CountBackend
<1>11. CASE UNCHANGED vars
  BY <1>11 DEF vars, session, CountInv, IsAns
<1> QED BY <1>2, <1>3, <1>4, <1>5, <1>6, <1>7, <1>8, <1>9, <1>10, <1>11, NextCases

\* In sync, an event without an error is one the accessor can read, and there
\* is room for it.
LEMMA CleanReadable ==
  ASSUME TypeOK, SyncInv, SessionOrder, PiecesInv, AskedInv, CountInv,
         Take, call.phase = "loop", call.clean, IsAnswer, Ev.err = "none"
  PROVE  /\ Readable /\ OwnTypes
         /\ reqs[Ev.req].sec = call.sec /\ reqs[Ev.req].fld = call.fld
         /\ call.fn \in {"bdp", "bdh"} => /\ Len(call.acc) < Len(call.sec)
                                          /\ Row <= Len(call.sec) /\ RightRow
<1>1. Ev.req = call.req
  BY OwnEvent DEF Waiting
<1>2. Readable /\ reqs[Ev.req].sec = call.sec /\ reqs[Ev.req].fld = call.fld
  BY <1>1 DEF AskedInv, Readable, KindOfEv
<1>3. OwnTypes
  BY DEF SyncInv, OwnAnswer
<1>4. ASSUME call.fn \in {"bdp", "bdh"}
      PROVE  Len(call.acc) < Len(call.sec) /\ Row <= Len(call.sec) /\ RightRow
  <2>1. reqs[call.req].n = Len(call.sec)
    BY <1>4 DEF AskedInv, Pieces
  <2>2. 1 \in DOMAIN queue /\ IsAns(1) /\ Ev = queue[1]
    <3>1. queue \in Seq(Event) /\ queue # <<>>
      BY DEF TypeOK, SessionTypeOK, Take
    <3> QED BY <3>1 DEF Ev, IsAnswer, IsAns
  <2>3. /\ Len(call.acc) < Ev.lo /\ Ev.lo <= Ev.hi /\ Ev.hi <= Len(call.sec)
        /\ Ev.lo \in Nat /\ Ev.hi \in Nat
    BY <1>1, <2>1, <2>2, OwnPieces DEF CountInv, PieceOK, Waiting
  <2>4. Len(call.sec) \in Nat /\ Len(call.acc) \in Nat
    BY DEF TypeOK, Frame
  <2>5. Row = Ev.lo
    BY <1>2, <2>3, <2>4 DEF Row
  <2> QED BY <1>2, <2>3, <2>4, <2>5 DEF RightRow
<1> QED BY <1>2, <1>3, <1>4

\* A call in sync that fails once its request is out fails on an error in its
\* own answer, on the backend's refusal or on a timeout: the checks of the
\* loops against answers to others never go off.
THEOREM NoSpuriousFailureCorrect == Spec => NoSpuriousFailure
<1>1. Init => PiecesInv /\ FieldAsked /\ CountInv
  <2> SUFFICES ASSUME Init PROVE PiecesInv /\ FieldAsked /\ CountInv
    OBVIOUS
  <2>1. DOMAIN queue = {} /\ call.phase = "idle"
    BY DEF Init, SessionInit
  <2> QED BY <2>1 DEF PiecesInv, FieldAsked, CountInv
<1>2. /\ TypeOK /\ SessionOrder /\ SyncInv /\ PiecesInv /\ FieldAsked /\ CountInv /\ [Next]_vars
      => (PiecesInv /\ FieldAsked /\ CountInv)'
  BY PiecesStep, FieldAskedStep, CountStep
<1>3. /\ TypeOK /\ SessionOrder /\ SyncInv /\ AskedInv /\ PiecesInv /\ FieldAsked /\ CountInv
      /\ [Next]_vars
      => [Waiting /\ call.clean /\ call'.phase = "raised" =>
            \/ queue # <<>> /\ (Ev.err # "none" \/ Ev.type = "REQUEST_STATUS")
            \/ AuthAppTimeout]_vars
  <2> SUFFICES ASSUME TypeOK, SessionOrder, SyncInv, AskedInv, PiecesInv, FieldAsked, CountInv, Next,
                      Waiting, call.clean, call'.phase = "raised", ~AuthAppTimeout,
                      queue # <<>> => Ev.err = "none" /\ Ev.type # "REQUEST_STATUS"
               PROVE  FALSE
    OBVIOUS
  <2>0. call \in Frame /\ SessionTypeOK
    BY DEF TypeOK
  <2>1. call.phase \in {"field", "loop"} /\ call' # call
    BY DEF Waiting
  <2>2. LoopEvent \/ FieldEvent
    BY <2>1 DEF Next, Begin, Busy, CallStep, AskField, SendData, RaiseBeforeSend, LoopEvent, Waiting
  <2>3. Take /\ Ev.err = "none" /\ Ev.type # "REQUEST_STATUS"
    <3>1. Take
      BY <2>2, FieldStep, LoopStep
    <3> QED BY <3>1 DEF Take
  <2>4. \A hi : ~Collect(hi)
    <3> SUFFICES ASSUME NEW hi, Collect(hi) PROVE FALSE
      OBVIOUS
    <3> QED BY <2>0 DEF Collect, Frame
  <2>5. ~FieldDone
    BY <2>0 DEF FieldDone, Frame
  <2>6. CASE FieldEvent
    <3>1. call.phase = "field" /\ IsAnswer /\ KindOfEv # "fieldInfoResponse"
      BY <2>1, <2>3, <2>5, <2>6 DEF FieldEvent, Skip
    <3>2. Ev.req = call.req
      BY <2>3, <3>1, OwnEvent
    <3> QED BY <3>1, <3>2 DEF FieldAsked, KindOfEv
  <2>7. CASE LoopEvent
    <3>1. call.phase = "loop"
      BY <2>7, LoopStep
    <3>2. IsAnswer =>
            /\ Readable /\ OwnTypes
            /\ reqs[Ev.req].fld = call.fld
            /\ call.fn \in {"bdp", "bdh"} => /\ Len(call.acc) < Len(call.sec)
                                             /\ Row <= Len(call.sec) /\ RightRow
      BY <2>3, <3>1, CleanReadable
    <3>3. \A acc, p : p \in {"returned", "loop"} => call' # [call EXCEPT !.acc = acc, !.phase = p]
      <4> SUFFICES ASSUME NEW acc, NEW p \in {"returned", "loop"},
                          call' = [call EXCEPT !.acc = acc, !.phase = p]
                   PROVE  FALSE
        OBVIOUS
      <4> QED BY <2>0 DEF Frame
    <3>4. ~BdpEvent
      <4>1. ASSUME BdpEvent PROVE FALSE
        <5>1. call.fn = "bdp"
          BY <4>1 DEF BdpEvent, InLoop
        <5>2. Row > Len(call.sec) => ~(Row <= Len(call.sec))
          <6>1. Ev.lo \in Nat /\ Len(call.sec) \in Nat
            BY <2>0, <2>3, TakeType DEF Ev, Event, Frame
          <6>2. Row \in Nat
            BY <6>1 DEF Row
          <6> QED BY <6>1, <6>2
        <5> QED BY <2>1, <2>4, <3>2, <4>1, <5>1, <5>2 DEF BdpEvent, Skip
      <4> QED BY <4>1
    <3>5. ~BdhEvent
      BY <2>1, <2>3, <2>4, <3>2 DEF BdhEvent, InLoop, Skip
    <3>6. \A fn : ~BulkLoop(fn)
      BY <2>1, <3>2, <3>3 DEF BulkLoop, Skip
    <3>7. ~End("cut") /\ ~End("returned")
      BY <2>0 DEF End, Frame
    <3>8. \A fn : ~GridLoop(fn)
      BY <2>1, <3>2, <3>3, <3>7 DEF GridLoop, Skip
    <3>9. \A fn : ~StreamLoop(fn)
      BY <2>1, <2>3, <2>4, <3>2, <3>7 DEF StreamLoop, Skip
    <3>10. ~SearchEvent
      <4>1. KindOf["fieldSearch"] = "fieldSearchResponse"
        BY DEF KindOf, Accessors
      <4> QED BY <2>1, <2>3, <2>4, <3>2, <4>1 DEF SearchEvent, InLoop, Skip, Readable
    <3>11. ~AuthIdEvent /\ ~AuthAppEvent
      BY <2>1, <2>3, <2>4, <3>2, <3>3 DEF AuthIdEvent, AuthAppEvent, Skip
    <3> QED BY <2>7, <3>4, <3>5, <3>6, <3>8, <3>9, <3>10, <3>11
            DEF LoopEvent, BdsEvent, PortfolioEvent, BeqsEvent, BsrchEvent, BarsEvent, TicksEvent,
                LookupEvent
  <2> QED BY <2>2, <2>6, <2>7
<1> QED BY <1>1, <1>2, <1>3, TypeCorrect, SyncCorrect, AskedCorrect, PTL DEF Spec, NoSpuriousFailure

-----------------------------------------------------------------------------
(* A connection that is behind stays behind.                               *)

\* counting two sets of requests of which one loses or gains at most a little
LEMMA CountSets ==
  ASSUME NEW n \in Nat, NEW S \in SUBSET (1 .. n), NEW T \in SUBSET (1 .. n)
  PROVE  /\ Cardinality(S) \in Nat /\ Cardinality(T) \in Nat
         /\ S \subseteq T => Cardinality(S) <= Cardinality(T)
         /\ \A x : S \ {x} \subseteq T => Cardinality(S) <= Cardinality(T) + 1
         /\ \A x : x \notin S /\ T = S \cup {x} => Cardinality(T) = Cardinality(S) + 1
<1>1. IsFiniteSet(1 .. n)
  BY FS_Interval
<1>2. IsFiniteSet(S) /\ IsFiniteSet(T)
  BY <1>1, FS_Subset
<1>3. Cardinality(S) \in Nat /\ Cardinality(T) \in Nat
  BY <1>2, FS_CardinalityType
<1>4. ASSUME NEW x, S \ {x} \subseteq T PROVE Cardinality(S) <= Cardinality(T) + 1
  <2>1. Cardinality(S \ {x}) <= Cardinality(T)
    BY <1>2, <1>4, FS_Subset
  <2>2. Cardinality(S \ {x}) = IF x \in S THEN Cardinality(S) - 1 ELSE Cardinality(S)
    BY <1>2, FS_RemoveElement
  <2> QED BY <1>3, <2>1, <2>2
<1>5. ASSUME NEW x, x \notin S, T = S \cup {x} PROVE Cardinality(T) = Cardinality(S) + 1
  BY <1>2, <1>5, FS_AddElement
<1>6. S \subseteq T => Cardinality(S) <= Cardinality(T)
  BY <1>2, FS_Subset
<1> QED BY <1>3, <1>4, <1>5, <1>6

\* The requests owed an answer, as one set of numbers.
LEMMA OwedNumbers ==
  ASSUME TypeOK
  PROVE  Owed \in SUBSET (1 .. Len(reqs)) /\ Len(reqs) \in Nat
<1>1. open \subseteq 1 .. Len(reqs) /\ Len(reqs) \in Nat
  BY DEF TypeOK, SessionTypeOK
<1> QED BY <1>1 DEF Owed

\* A new request is owed its answer, and the call that sent it waits.
LEMMA LagSend ==
  ASSUME TypeOK, SendStep, ~Waiting, Waiting'
  PROVE  Lag' >= Lag
<1>1. SessionTypeOK /\ Owed \in SUBSET (1 .. Len(reqs)) /\ Len(reqs) \in Nat
  BY OwedNumbers DEF TypeOK
<1>2. Len(reqs') = Len(reqs) + 1 /\ open' = open \cup {Len(reqs) + 1} /\ queue' = queue
  BY <1>1, SendType DEF SendStep, Send
<1>3. \A k \in DOMAIN queue : queue[k].req # Len(reqs) + 1
  BY <1>1 DEF SessionTypeOK
<1>4. 1 .. Len(reqs') = 1 .. Len(reqs) \cup {Len(reqs) + 1} /\ Len(reqs) + 1 \notin 1 .. Len(reqs)
  BY <1>1, <1>2
<1>5. Owed' = Owed \cup {Len(reqs) + 1} /\ Len(reqs) + 1 \notin Owed
  BY <1>1, <1>2, <1>3, <1>4 DEF Owed
<1>6. Len(reqs') \in Nat /\ Owed \in SUBSET (1 .. Len(reqs')) /\ Owed' \in SUBSET (1 .. Len(reqs'))
  <2>1. Len(reqs') \in Nat
    BY <1>1, <1>2
  <2>2. \A x \in Owed' : x \in Owed \/ x = Len(reqs) + 1
    BY <1>5
  <2>3. \A x \in Owed : x \in 1 .. Len(reqs)
    BY <1>1
  <2> QED BY <1>4, <2>1, <2>2, <2>3
<1>7. Cardinality(Owed') = Cardinality(Owed) + 1 /\ Cardinality(Owed) \in Nat
  BY <1>5, <1>6, CountSets
<1> QED BY <1>7 DEF Lag

\* Nothing that is owed goes away, and the call does not begin to wait.
LEMMA LagKeeps ==
  ASSUME TypeOK, reqs' = reqs, Owed \subseteq Owed', Waiting' => Waiting,
         Owed' \in SUBSET (1 .. Len(reqs))
  PROVE  Lag' >= Lag
<1>1. Cardinality(Owed) <= Cardinality(Owed') /\ Cardinality(Owed) \in Nat /\ Cardinality(Owed') \in Nat
  BY OwedNumbers, CountSets
<1> QED BY <1>1 DEF Lag

\* The RESPONSE of one request is read, and the call ends its wait.
LEMMA LagPays ==
  ASSUME TypeOK, reqs' = reqs, NEW r, Owed \ {r} \subseteq Owed', Waiting, ~Waiting',
         Owed' \in SUBSET (1 .. Len(reqs))
  PROVE  Lag' >= Lag
<1>1. /\ Cardinality(Owed) <= Cardinality(Owed') + 1
      /\ Cardinality(Owed) \in Nat /\ Cardinality(Owed') \in Nat
  BY OwedNumbers, CountSets
<1> QED BY <1>1 DEF Lag

\* Taking an event pays for the request whose RESPONSE it is, if any.
LEMMA OwedTake ==
  ASSUME TypeOK, Take
  PROVE  /\ Owed' \in SUBSET (1 .. Len(reqs)) /\ reqs' = reqs
         /\ Owed \ {Ev.req} \subseteq Owed'
         /\ Ev.type # "RESPONSE" => Owed \subseteq Owed'
<1>1. /\ queue \in Seq(Event) /\ queue # <<>> /\ queue' = Tail(queue) /\ Len(queue) \in Nat
      /\ reqs' = reqs /\ open' = open /\ open \subseteq 1 .. Len(reqs) /\ Ev = queue[1]
  BY DEF TypeOK, SessionTypeOK, Take, Ev
<1>2. \A k \in DOMAIN queue : k # 1 => k - 1 \in DOMAIN queue' /\ queue'[k - 1] = queue[k]
  BY <1>1
<1>3. Owed' \in SUBSET (1 .. Len(reqs))
  BY <1>1 DEF Owed
<1>4. ASSUME NEW r \in Owed, r # Ev.req \/ Ev.type # "RESPONSE" PROVE r \in Owed'
  <2>1. CASE r \in open
    BY <1>1, <2>1 DEF Owed
  <2>2. ASSUME r \in 1 .. Len(reqs), NEW k \in DOMAIN queue, queue[k].req = r, queue[k].type = "RESPONSE"
        PROVE  r \in Owed'
    <3>1. k # 1
      BY <1>1, <1>4, <2>2
    <3>2. k - 1 \in DOMAIN queue' /\ queue'[k - 1] = queue[k]
      BY <1>2, <2>2, <3>1
    <3> QED BY <1>1, <2>2, <3>2 DEF Owed
  <2> QED BY <2>1, <2>2 DEF Owed
<1> QED BY <1>1, <1>3, <1>4

\* What the backend answers goes on being owed until it is read.
LEMMA OwedBackend ==
  ASSUME TypeOK, Backend, ~Terminate, \A r \in open : ~Drop(r)
  PROVE  Owed' \in SUBSET (1 .. Len(reqs)) /\ reqs' = reqs /\ Owed \subseteq Owed'
<1>1. SessionTypeOK /\ queue \in Seq(Event) /\ open \subseteq 1 .. Len(reqs)
  BY DEF TypeOK, SessionTypeOK
<1>2. SessionTypeOK' /\ reqs' = reqs
  BY <1>1, BackendType, SessionAssumption
<1>3. Owed' \in SUBSET (1 .. Len(reqs))
  <2>1. open' \subseteq 1 .. Len(reqs)
    BY <1>2 DEF SessionTypeOK
  <2> QED BY <1>2, <2>1 DEF Owed
<1>4. PICK e \in Event :
        /\ queue' = Append(queue, e)
        /\ open' = open \/ (e.type = "RESPONSE" /\ open' = open \ {e.req})
  <2>1. CASE \E r \in open : Deliver(r) \/ DeliverBad(r) \/ Reject(r)
    <3>1. PICK r \in open : Deliver(r) \/ DeliverBad(r) \/ Reject(r)
      BY <2>1
    <3>2. PICK e \in Event :
            /\ queue' = Append(queue, e) /\ e.req = r
            /\ \/ e.type = "REQUEST_STATUS" /\ sent' = sent /\ open' = open \ {r}
               \/ e.type = "RESPONSE" /\ open' = open \ {r}
               \/ e.type = "PARTIAL_RESPONSE" /\ open' = open
      BY <1>1, <3>1, BackendStep, SessionAssumption
    <3>3. e.type # "REQUEST_STATUS"
      <4>1. \E hi, err : Answer(r, hi, err)
        BY <3>1 DEF Deliver, DeliverBad, Reject
      <4>2. PICK hi, err : Answer(r, hi, err)
        BY <4>1
      <4>3. Len(queue) \in Nat /\ queue'[Len(queue) + 1] = e
        BY <1>1, <3>2, AppendEvent
      <4>4. queue'[Len(queue) + 1].type \in {"RESPONSE", "PARTIAL_RESPONSE"}
        BY <1>1, <4>2 DEF Answer
      <4> QED BY <4>3, <4>4
    <3> QED BY <3>2, <3>3
  <2>2. CASE Notice
    <3>1. PICK e \in Event :
            /\ queue' = Append(queue, e)
            /\ \/ e.type = "SessionTerminated" /\ open' = {} /\ up' = FALSE
               \/ e.type = "SERVICE_STATUS" /\ open' = open /\ up' = up
      BY <1>1, <2>2, SessionStep
    <3>2. open' = open
      BY <2>2 DEF Notice
    <3> QED BY <3>1, <3>2
  <2> QED BY <2>1, <2>2 DEF Backend
<1>5. /\ Len(queue) + 1 \in DOMAIN queue' /\ queue'[Len(queue) + 1] = e
      /\ \A k \in DOMAIN queue : k \in DOMAIN queue' /\ queue'[k] = queue[k]
  <2>1. Len(queue) \in Nat /\ Len(queue') = Len(queue) + 1 /\ queue' \in Seq(Event)
    BY <1>1, <1>4, AppendEvent
  <2> QED BY <1>1, <1>4, <2>1, AppendEvent
<1>6. ASSUME NEW r \in Owed PROVE r \in Owed'
  <2>1. r \in 1 .. Len(reqs)
    BY <1>1, <1>6 DEF Owed
  <2>2. CASE r \in open'
    BY <2>2 DEF Owed
  <2>3. CASE \E k \in DOMAIN queue : queue[k].req = r /\ queue[k].type = "RESPONSE"
    BY <1>2, <1>5, <2>1, <2>3 DEF Owed
  <2>4. CASE r \in open /\ r \notin open'
    <3>1. e.type = "RESPONSE" /\ e.req = r
      BY <1>4, <2>4
    <3> QED BY <1>2, <1>5, <2>1, <3>1 DEF Owed
  <2> QED BY <1>6, <2>2, <2>3, <2>4 DEF Owed
<1> QED BY <1>2, <1>3, <1>6

\* No call reads more closing events than it sends requests: the answers left
\* to later calls become fewer only when the backend drops a request or ends
\* the session.  A connection that is one answer behind never catches up.
THEOREM LagCorrect == Spec => LagNeverShrinks
<1>1. TypeOK /\ [Next]_vars => [(\E r \in open : Drop(r)) \/ Terminate \/ Lag' >= Lag]_vars
  <2> SUFFICES ASSUME TypeOK, [Next]_vars, \A r \in open : ~Drop(r), ~Terminate, vars' # vars
               PROVE  Lag' >= Lag
    OBVIOUS
  <2>1. call \in Frame /\ Owed \in SUBSET (1 .. Len(reqs))
    BY OwedNumbers DEF TypeOK
  <2>2. ASSUME UNCHANGED session PROVE Owed' = Owed /\ reqs' = reqs
    BY <2>2 DEF session, Owed
  <2>3. CASE \E fn \in Fns : Begin(fn)
    <3>1. ~Waiting' /\ UNCHANGED session
      BY <2>3 DEF Begin, Waiting
    <3> QED BY <2>1, <2>2, <3>1, LagKeeps
  <2>4. ASSUME SendStep, call.phase \in {"ask", "send"}, NEW p \in {"field", "loop"},
               call' = [call EXCEPT !.phase = p, !.req = Len(reqs) + 1]
        PROVE  Lag' >= Lag
    <3>1. ~Waiting /\ Waiting'
      BY <2>1, <2>4 DEF Waiting, Frame
    <3> QED BY <2>4, <3>1, LagSend
  <2>5. ASSUME EndsEv PROVE ~Waiting'
    <3>1. call'.phase \in Ended
      BY <2>1, <2>5, EndsKeeps
    <3> QED BY <3>1 DEF Ended, Waiting
  <2>6. CASE UNCHANGED session /\ EndsEv
    BY <2>1, <2>2, <2>5, <2>6, LagKeeps
  <2>7. ASSUME Take, Waiting, Waiting' => Ev.type # "RESPONSE" PROVE Lag' >= Lag
    <3>1. CASE Ev.type # "RESPONSE"
      BY <2>7, <3>1, OwedTake, LagKeeps
    <3>2. CASE Ev.type = "RESPONSE"
      BY <2>7, <3>2, OwedTake, LagPays
    <3> QED BY <3>1, <3>2
  <2>8. "RESPONSE" \in EndsOn
    BY DEF EndsOn
  <2>9. CASE /\ Take /\ call.phase = "field"
             /\ SkipsEv \/ EndsEv \/ (Ev.type = "RESPONSE" /\ FieldDone)
    <3>1. ASSUME FieldDone PROVE ~Waiting'
      <4>1. call'.phase \in {"ask", "send", "returned"}
        BY <2>1, <3>1 DEF FieldDone, Frame
      <4> QED BY <4>1 DEF Waiting
    <3> QED BY <2>5, <2>7, <2>8, <2>9, <3>1 DEF SkipsEv, Waiting
  <2>10. CASE /\ Take /\ call.phase = "loop" /\ (SkipsEv \/ EndsEv \/ CollectsEv)
    <3>1. ASSUME CollectsEv PROVE Waiting' => Ev.type # "RESPONSE"
      <4>1. PICK p \in {"returned", "loop"} :
              call'.phase = p /\ (p = "loop" => Ev.type \notin EndsOn)
        BY <2>1, <3>1 DEF CollectsEv, Frame
      <4> QED BY <2>8, <4>1 DEF Waiting
    <3> QED BY <2>5, <2>7, <2>8, <2>10, <3>1 DEF SkipsEv, Waiting
  <2>11. CASE Backend /\ UNCHANGED call
    <3>1. Waiting' = Waiting
      BY <2>11 DEF Waiting
    <3> QED BY <2>11, <3>1, OwedBackend, LagKeeps
  <2> QED BY <2>3, <2>4, <2>6, <2>9, <2>10, <2>11, NextCases
<1> QED BY <1>1, TypeCorrect, PTL DEF Spec, LagNeverShrinks
===============================================================================
