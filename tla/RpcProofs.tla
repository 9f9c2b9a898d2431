------------------------------- MODULE RpcProofs ------------------------------
(***************************************************************************)
(* The event loops implement the service of RpcService, for all constants: *)
(* a call in sync gets its own answer or nothing else, a part of it where  *)
(* the accessor is one that may give a part, and only a failure or a part  *)
(* leaves a connection out of sync while the session lasts.                *)
(***************************************************************************)
EXTENDS EventLoopRpc, SyncProofs, SequenceTheorems

-----------------------------------------------------------------------------
(* The steps of the service, by what they take of the frame.          *)

\* The user sees nothing: the state and the result are kept, and sync is not
\* lost.
LEMMA Quiet ==
  ASSUME call'.fn = call.fn, call'.clean = call.clean, CallState' = CallState,
         CallResult' = CallResult, up' = up, InSync => InSync'
  PROVE  [Rpc!RpcNext]_(Rpc!rpcVars)
<1>1. CASE InSync' = InSync
  BY <1>1 DEF Rpc!rpcVars
<1>2. CASE ~InSync /\ InSync'
  BY <1>2 DEF Rpc!RpcNext, Rpc!Recover
<1> QED BY <1>1, <1>2 DEF InSync

\* A running call goes on to another of its stages.
LEMMA GoesOn ==
  ASSUME Busy, Busy', call'.fn = call.fn, call'.clean = call.clean, up' = up,
         InSync => InSync'
  PROVE  [Rpc!RpcNext]_(Rpc!rpcVars)
<1>1. CallState = "busy" /\ CallState' = "busy"
  BY DEF CallState, Gave, Busy, Waiting
<1>2. CallResult = "nothing" /\ CallResult' = "nothing"
  BY DEF CallResult, Gave, Busy, Waiting
<1> QED BY <1>1, <1>2, Quiet

\* The session ends under a call or between two.
LEMMA Ends ==
  ASSUME call' = call, reqs' = reqs, up, ~up', InSync => InSync'
  PROVE  [Rpc!RpcNext]_(Rpc!rpcVars)
<1>1. CallState' = CallState /\ CallResult' = CallResult
  BY DEF CallState, Busy, Waiting, CallResult, Gave, OwnTypes, OwnChunks, InFull, InOrder
<1>2. InSync' \in BOOLEAN
  BY DEF InSync
<1> QED BY <1>1, <1>2 DEF Rpc!RpcNext, Rpc!SessionEnds

\* A running call fails.
LEMMA Fails ==
  ASSUME Busy, call'.phase \in {"raised", "undefined"},
         call'.fn = call.fn, call'.clean = call.clean, up' = up
  PROVE  [Rpc!RpcNext]_(Rpc!rpcVars)
<1>1. CallState = "busy" /\ CallState' = "failed"
  BY DEF CallState, Gave, Busy, Waiting
<1>2. CallResult = "nothing" /\ CallResult' = "nothing"
  BY DEF CallResult, Gave, Busy, Waiting
<1>3. InSync' \in BOOLEAN
  BY DEF InSync
<1> QED BY <1>1, <1>2, <1>3 DEF Rpc!RpcNext, Rpc!Fail

\* A running call returns, in sync with what the service promises.
LEMMA Returns ==
  ASSUME Busy, call'.phase \in Gave, call'.fn = call.fn, call'.clean = call.clean, up' = up,
         call.clean =>
           \/ CallResult' = "whole" /\ InSync'
           \/ CallResult' = "part" /\ call.fn \in MayPart
           \/ CallResult' = "refused" /\ call.fn \in MayRefuse /\ InSync'
           \/ CallResult' \in {"part", "empty"} /\ call.fn \in MayCut /\ ~up /\ InSync'
  PROVE  [Rpc!RpcNext]_(Rpc!rpcVars)
<1>1. CallState = "busy" /\ CallState' = "returned"
  BY DEF CallState, Gave, Busy, Waiting
<1>2. CallResult' \in Rpc!Results \ {"nothing"}
  BY DEF CallResult, Rpc!Results
<1>3. InSync' \in BOOLEAN
  BY DEF InSync
<1> QED BY <1>1, <1>2, <1>3 DEF Rpc!RpcNext, Rpc!Return

-----------------------------------------------------------------------------
(* What a call returns.                                                    *)

\* An event keeps whose call it is, and what it asked.
LEMMA LoopKeeps ==
  ASSUME TypeOK, LoopEvent
  PROVE  /\ Take /\ call.phase = "loop" /\ reqs' = reqs /\ up' = up
         /\ call'.fn = call.fn /\ call'.clean = call.clean /\ call'.req = call.req
         /\ call'.phase \in {"loop"} \cup Ended
<1>1. call \in Frame /\ Take /\ call.phase = "loop" /\ (SkipsEv \/ EndsEv \/ CollectsEv)
  BY LoopStep DEF TypeOK
<1>2. CASE SkipsEv
  BY <1>1, <1>2 DEF SkipsEv, Take
<1>3. CASE EndsEv
  BY <1>1, <1>3, EndsKeeps DEF Take
<1>4. CASE CollectsEv
  <2>1. PICK old \in {call.acc, <<>>}, c \in Chunk, p \in {"returned", "loop"} :
          call' = [call EXCEPT !.acc = Append(old, c), !.phase = p]
    BY <1>4 DEF CollectsEv
  <2>2. /\ call'.fn = call.fn /\ call'.clean = call.clean /\ call'.req = call.req
        /\ call'.phase = p
    BY <1>1, <2>1 DEF Frame
  <2> QED BY <1>1, <2>1, <2>2 DEF Take, Ended
<1> QED BY <1>1, <1>2, <1>3, <1>4

\* the chunk that was read of the event
Read(hi) == [req |-> Ev.req, lo |-> Ev.lo, hi |-> hi]

\* An accessor returns on an answer, of which it keeps what it reads, and
\* only some of them on one that is not the last.
LEMMA ReturnsOn ==
  ASSUME TypeOK, LoopEvent, call'.phase = "returned"
  PROVE  /\ IsAnswer
         /\ call.fn \notin {"bds", "getPortfolio", "authApp"} => Ev.type = "RESPONSE"
         /\ \/ call.fn \in MayRefuse
            \/ /\ call.fn \in {"bds", "getPortfolio"}
               /\ call'.acc = Append(call.acc, Read(Ev.lo))
            \/ /\ call.fn \in {"beqs", "bsrch"}
               /\ call'.acc = <<Read(Ev.lo)>>
            \/ /\ call.fn \in {"bdp", "bdh", "fieldSearch", "authId", "authApp"}
               /\ \E hi \in {Ev.lo, Ev.hi} : call'.acc = Append(call.acc, Read(hi))
<1>0. call \in Frame /\ call.phase = "loop"
  BY LoopStep DEF TypeOK
<1>1. call' # call
  BY <1>0
<1>2. \A p \in Phases : End(p) => p = "returned"
  BY <1>0 DEF End, Frame
<1>3. \A hi : Collect(hi) => Ev.type = "RESPONSE" /\ call'.acc = Append(call.acc, Read(hi))
  BY <1>0 DEF Collect, Frame, Read
<1>4. \A acc, p : call' = [call EXCEPT !.acc = acc, !.phase = p] => p = "returned" /\ call'.acc = acc
  BY <1>0 DEF Frame
<1>5. Phases # {} /\ {"raised", "undefined", "cut", "returned"} \subseteq Phases
  BY DEF Phases
<1>6. ~End("raised") /\ ~End("undefined") /\ ~End("cut") /\ ~Skip
  BY <1>1, <1>2, <1>5 DEF Skip
<1>7. CASE BdpEvent
  BY <1>3, <1>6, <1>7 DEF BdpEvent, InLoop
<1>8. CASE BdhEvent
  BY <1>3, <1>6, <1>8 DEF BdhEvent, InLoop
<1>9. CASE SearchEvent
  BY <1>3, <1>6, <1>9 DEF SearchEvent, InLoop
<1>10. CASE AuthIdEvent
  BY <1>3, <1>6, <1>10 DEF AuthIdEvent, InLoop
<1>11. ASSUME NEW fn \in {"bds", "getPortfolio"}, BulkLoop(fn)
       PROVE  IsAnswer /\ call.fn = fn /\ call'.acc = Append(call.acc, Read(Ev.lo))
  <2>1. /\ IsAnswer /\ call.fn = fn
        /\ call' = [call EXCEPT !.acc = Append(call.acc, Read(Ev.lo)), !.phase = "returned"]
    BY <1>6, <1>11 DEF BulkLoop, InLoop, Read
  <2> QED BY <1>4, <2>1
<1>12. ASSUME NEW fn \in {"beqs", "bsrch"}, GridLoop(fn)
       PROVE  IsAnswer /\ call.fn = fn /\ Ev.type = "RESPONSE" /\ call'.acc = <<Read(Ev.lo)>>
  <2>1. /\ IsAnswer /\ call.fn = fn
        /\ call' = [call EXCEPT !.acc = <<Read(Ev.lo)>>,
                                !.phase = IF Ev.type = "RESPONSE" THEN "returned" ELSE "loop"]
    BY <1>6, <1>12 DEF GridLoop, InLoop, Read
  <2> QED BY <1>4, <2>1
<1>13. ASSUME NEW fn \in MayRefuse, StreamLoop(fn)
       PROVE  IsAnswer /\ call.fn = fn /\ Ev.type = "RESPONSE"
  <2>1. PassRefusal => Ev.type = "RESPONSE"
    BY <1>6 DEF PassRefusal
  <2> QED BY <1>3, <1>6, <1>13, <2>1 DEF StreamLoop, InLoop
<1>14. CASE AuthAppEvent
  <2>1. /\ IsAnswer /\ call.fn = "authApp"
        /\ call' = [call EXCEPT !.acc = Append(call.acc, Read(Ev.hi)), !.phase = "returned"]
    BY <1>6, <1>14 DEF AuthAppEvent, InLoop, Read
  <2> QED BY <1>4, <2>1
<1> QED BY <1>7, <1>8, <1>9, <1>10, <1>11, <1>12, <1>13, <1>14
        DEF LoopEvent, BdsEvent, PortfolioEvent, BeqsEvent, BsrchEvent, BarsEvent, TicksEvent,
            LookupEvent, MayRefuse

\* An accessor that leaves its loop with what it has does so at the end of the
\* session, and is one that looks for it.
LEMMA CutOn ==
  ASSUME TypeOK, LoopEvent, call'.phase = "cut"
  PROVE  Ev.type = "SessionTerminated" /\ call.fn \in MayCut /\ End("cut")
<1>0. call \in Frame /\ call.phase = "loop"
  BY LoopStep DEF TypeOK
<1>1. ~Skip
  BY <1>0 DEF Skip
<1>2. \A p : End(p) => p = "cut"
  BY <1>0 DEF End, Frame
<1>3. \A hi : ~Collect(hi)
  BY <1>0 DEF Collect, Frame
<1>4. ~PassRefusal
  BY <1>0, <1>1 DEF PassRefusal, Frame
<1>5. \A acc, p : call' = [call EXCEPT !.acc = acc, !.phase = p] => p = "cut"
  BY <1>0 DEF Frame
<1>6. ~(BdpEvent \/ BdhEvent \/ SearchEvent \/ AuthIdEvent)
  BY <1>1, <1>2, <1>3 DEF BdpEvent, BdhEvent, SearchEvent, AuthIdEvent
<1>7. ~AuthAppEvent
  BY <1>1, <1>2, <1>5 DEF AuthAppEvent
<1>8. \A fn : ~BulkLoop(fn)
  BY <1>1, <1>2, <1>5 DEF BulkLoop
<1>9. ASSUME NEW fn \in {"beqs", "bsrch"}, GridLoop(fn)
      PROVE  Ev.type = "SessionTerminated" /\ call.fn = fn /\ End("cut")
  <2>1. ASSUME call' = [call EXCEPT !.acc = <<Read(Ev.lo)>>,
                                   !.phase = IF Ev.type = "RESPONSE" THEN "returned" ELSE "loop"]
        PROVE  FALSE
    BY <1>5, <2>1
  <2> QED BY <1>1, <1>2, <1>9, <2>1 DEF GridLoop, InLoop, Read
<1>10. ASSUME NEW fn \in {"getBars", "getTicks", "lookup"}, StreamLoop(fn)
       PROVE  Ev.type = "SessionTerminated" /\ call.fn = fn /\ End("cut")
  BY <1>1, <1>2, <1>3, <1>4, <1>10 DEF StreamLoop, InLoop
<1> QED BY <1>6, <1>7, <1>8, <1>9, <1>10
        DEF LoopEvent, BdsEvent, PortfolioEvent, BeqsEvent, BsrchEvent, BarsEvent, TicksEvent,
            LookupEvent, MayCut

\* What a call in sync reads of an answer is a piece of its own, and what it
\* was given before comes before that.
LEMMA OwnPiece ==
  ASSUME TypeOK, SessionOrder, SyncInv, PiecesInv, CountInv, Take, IsAnswer,
         call.phase = "loop", call.clean
  PROVE  /\ Ev.req = call.req /\ PieceOK(Ev) /\ Ev.lo \in Nat /\ Ev.hi \in Nat
         /\ reqs[call.req].n \in Nat
         /\ call.acc \in Seq(Chunk) /\ Len(call.acc) < Ev.lo
<1>1. Ev = queue[1] /\ 1 \in DOMAIN queue /\ IsAns(1)
  <2>1. queue \in Seq(Event) /\ queue # <<>>
    BY DEF TypeOK, SessionTypeOK, Take
  <2> QED BY <2>1 DEF Ev, IsAnswer, IsAns
<1>2. /\ Ev.req = call.req /\ PieceOK(Ev) /\ Ev.lo \in Nat /\ Ev.hi \in Nat
      /\ Len(call.acc) < Ev.lo
  BY <1>1, OwnPieces DEF Waiting, CountInv
<1>3. reqs[call.req] \in Request /\ call.acc \in Seq(Chunk)
  <2>1. reqs \in Seq(Request) /\ call.req \in 0 .. Len(reqs) /\ call.req # 0 /\ call \in Frame
    BY DEF TypeOK, SessionTypeOK
  <2> QED BY <2>1 DEF Frame
<1> QED BY <1>2, <1>3 DEF Request

\* The first piece of an answer of one message is all of it.
LEMMA SingleAnswer ==
  ASSUME TypeOK, SessionOrder, SyncInv, AskedInv, PiecesInv, CountInv, Take, IsAnswer,
         call.phase = "loop", call.clean, call.fn \in {"authId", "authApp"},
         NEW hi \in {Ev.lo, Ev.hi}, call'.acc = Append(call.acc, Read(hi)),
         call'.req = call.req, reqs' = reqs
  PROVE  Ev.type = "RESPONSE" /\ InFull(call.acc, call.req)'
<1>1. reqs[call.req].n = 1
  BY DEF AskedInv, Pieces
<1>2. Ev.lo = 1 /\ Ev.hi = 1 /\ Ev.type = "RESPONSE"
  BY <1>1, OwnPiece DEF PieceOK
<1>3. call.acc = <<>>
  <2>1. Len(call.acc) < 1 /\ call.acc \in Seq(Chunk)
    BY <1>2, OwnPiece
  <2> QED BY <2>1
<1>4. call'.acc = <<Read(1)>> /\ Read(1).lo = 1 /\ Read(1).hi = 1
  BY <1>2, <1>3 DEF Read
<1> QED BY <1>1, <1>2, <1>4 DEF InFull, InOrder

\* A call in sync that returns gives what the service promises.
LEMMA OwnResult ==
  ASSUME TypeOK, SessionOrder, SyncInv, AskedInv, PiecesInv, CountInv, LoopEvent, call.clean,
         call'.phase = "returned", OwnAnswer', WholeAnswer'
  PROVE  \/ CallResult' = "whole" /\ InSync'
         \/ CallResult' = "part" /\ call.fn \in MayPart
         \/ CallResult' = "refused" /\ call.fn \in MayRefuse /\ InSync'
<1>0. /\ Take /\ call.phase = "loop" /\ reqs' = reqs
      /\ call'.fn = call.fn /\ call'.clean = call.clean /\ call'.req = call.req
  BY LoopKeeps
<1>1. /\ IsAnswer
      /\ call.fn \notin {"bds", "getPortfolio", "authApp"} => Ev.type = "RESPONSE"
      /\ \/ call.fn \in MayRefuse
         \/ /\ call.fn \in {"bds", "getPortfolio"}
            /\ call'.acc = Append(call.acc, Read(Ev.lo))
         \/ /\ call.fn \in {"beqs", "bsrch"}
            /\ call'.acc = <<Read(Ev.lo)>>
         \/ /\ call.fn \in {"bdp", "bdh", "fieldSearch", "authId", "authApp"}
            /\ \E hi \in {Ev.lo, Ev.hi} : call'.acc = Append(call.acc, Read(hi))
  BY ReturnsOn
<1>2. /\ Ev.req = call.req /\ PieceOK(Ev) /\ Ev.lo \in Nat /\ Ev.hi \in Nat
      /\ reqs[call.req].n \in Nat
      /\ call.acc \in Seq(Chunk) /\ Len(call.acc) < Ev.lo
  BY <1>0, <1>1, OwnPiece
<1>3. ASSUME Ev.type = "RESPONSE" PROVE InSync'
  <2>1. Outstanding' = {}
    BY <1>0, <1>3, FinalClears DEF SyncInv, Waiting, Final
  <2> QED BY <2>1 DEF InSync
<1>4. CallResult' = IF call.fn = "fieldInfo" \/ InFull(call.acc, call.req)' THEN "whole"
                    ELSE IF call'.acc # <<>> THEN "part"
                    ELSE IF call.req \in call'.refused THEN "refused" ELSE "empty"
  BY <1>0 DEF CallResult, Gave, OwnAnswer, OwnChunks
<1>9. call.fn \notin MayRefuse => call'.acc # <<>>
  <2>1. Read(Ev.lo) \in Chunk /\ Read(Ev.hi) \in Chunk
    <3>1. call.req \in Nat
      BY DEF TypeOK, Frame
    <3> QED BY <1>2, <3>1 DEF Read, Chunk
  <2>2. call.acc \in Seq(Chunk)
    BY <1>2
  <2>3. Append(call.acc, Read(Ev.lo)) # <<>> /\ Append(call.acc, Read(Ev.hi)) # <<>>
    BY <2>1, <2>2, AppendProperties
  <2>4. <<Read(Ev.lo)>> # <<>>
    OBVIOUS
  <2> QED BY <1>1, <2>3, <2>4
<1>5. call.fn # "fieldInfo"
  BY <1>1 DEF MayRefuse
<1>6. CASE call.fn \in {"authId", "authApp"}
  <2>1. Ev.type = "RESPONSE" /\ InFull(call.acc, call.req)'
    <3>1. PICK hi \in {Ev.lo, Ev.hi} : call'.acc = Append(call.acc, Read(hi))
      BY <1>1, <1>6 DEF MayRefuse
    <3> QED BY <1>0, <1>1, <1>6, <3>1, SingleAnswer
  <2> QED BY <1>3, <1>4, <2>1
<1>7. CASE call.fn \in Lossless
  <2>1. Ev.type = "RESPONSE"
    BY <1>1, <1>7 DEF Lossless
  <2>2. \/ InFull(call.acc, call.req)'
        \/ call'.acc = <<>> /\ call'.refused = {call.req}
    <3>1. call'.clean /\ call'.fn \in Lossless
      BY <1>0, <1>7
    <3> QED BY <1>0, <3>1 DEF WholeAnswer, Lossless
  <2>3. CASE call.fn \in MayRefuse
    BY <1>3, <1>4, <2>1, <2>2, <2>3
  <2>4. CASE call.fn \notin MayRefuse
    BY <1>3, <1>4, <1>9, <2>1, <2>2, <2>4
  <2> QED BY <2>3, <2>4
<1>8. CASE call.fn \in MayPart \ {"authId"}
  <2>1. call.fn \notin MayRefuse
    BY <1>8 DEF MayPart, MayRefuse
  <2>3. call'.acc # <<>>
    BY <1>9, <2>1
  <2>4. CASE Ev.type = "RESPONSE"
    BY <1>3, <1>4, <1>8, <2>3, <2>4
  <2>5. CASE Ev.type # "RESPONSE"
    <3>1. call'.acc = Append(call.acc, Read(Ev.lo))
      BY <1>1, <1>8, <2>1, <2>5 DEF MayPart
    <3>2. Ev.lo # reqs[call.req].n
      BY <1>2, <2>5 DEF PieceOK
    <3>3. call'.acc[Len(call'.acc)] = Read(Ev.lo)
      BY <1>2, <3>1
    <3>4. ~InFull(call.acc, call.req)'
      BY <1>0, <2>3, <3>2, <3>3 DEF InFull, InOrder, Read
    <3> QED BY <1>4, <1>5, <1>8, <2>3, <3>4
  <2> QED BY <2>4, <2>5
<1> QED BY <1>1, <1>6, <1>7, <1>8 DEF MayPart, Lossless, MayRefuse

\* A call in sync that the end of the session cuts short gives what it has.
LEMMA CutResult ==
  ASSUME TypeOK, SessionOrder, SyncInv, RefusedInv, LoopEvent, call.clean,
         call'.phase = "cut", OwnAnswer'
  PROVE  /\ InSync' /\ call.fn \in MayCut /\ ~up
         /\ CallResult' \in {"whole", "part", "empty"}
<1>0. /\ Take /\ call.phase = "loop" /\ reqs' = reqs
      /\ call'.fn = call.fn /\ call'.clean = call.clean /\ call'.req = call.req
  BY LoopKeeps
<1>1. Ev.type = "SessionTerminated" /\ call.fn \in MayCut /\ End("cut")
  BY CutOn
<1>2. Outstanding' = {}
  BY <1>0, <1>1, FinalClears DEF SyncInv, Waiting
<1>3. ~up
  <2>1. 1 \in DOMAIN queue /\ Ev = queue[1]
    BY <1>0 DEF Ev, Take, TypeOK, SessionTypeOK
  <2> QED BY <1>1, <2>1 DEF SessionOrder
<1>4. call'.refused = {}
  <2>1. call'.refused = call.refused
    BY <1>1 DEF End, TypeOK, Frame
  <2> QED BY <1>0, <2>1 DEF RefusedInv, Busy, Waiting
<1>5. CallResult' \in {"whole", "part", "empty"}
  BY <1>0, <1>4 DEF CallResult, Gave, OwnAnswer, OwnChunks
<1> QED BY <1>1, <1>2, <1>3, <1>5 DEF InSync

-----------------------------------------------------------------------------
(* The step simulation.                                                    *)

\* Sending a request keeps a connection as much in sync as it was.
LEMMA SendKeepsSync ==
  ASSUME TypeOK, SessionOrder, SendStep, InSync, ~Waiting, call'.req = Len(reqs) + 1,
         Waiting'
  PROVE  InSync'
<1>1. PICK kind \in Kinds, sec \in Seq(STRING), fld \in Flds \cup {"none"}, n \in Nat \ {0} :
        Send(kind, sec, fld, n)
  BY DEF SendStep
<1>2. Outstanding' = Outstanding \cup {Len(reqs) + 1}
  BY <1>1, SendOrder DEF TypeOK, SendStep
<1> QED BY <1>2 DEF InSync

\* Reading an event of its wait does too.
LEMMA TakeKeepsSync ==
  ASSUME TypeOK, SessionOrder, Take, InSync, Waiting,
         \/ Waiting' /\ call'.req = call.req
         \/ Ev.type \in Final
  PROVE  InSync'
<1>1. Outstanding \subseteq {call.req} /\ Outstanding' \subseteq Outstanding
  BY TakeOrder DEF InSync, TypeOK
<1>2. CASE Waiting' /\ call'.req = call.req
  BY <1>1, <1>2 DEF InSync
<1>3. CASE Ev.type \in Final
  <2>1. Outstanding' = {}
    BY <1>1, <1>3, FinalClears
  <2> QED BY <2>1 DEF InSync
<1> QED BY <1>2, <1>3

LEMMA RpcStep ==
  /\ TypeOK /\ SessionOrder /\ SyncInv /\ AskedInv /\ PiecesInv /\ RefusedInv /\ CountInv
  /\ [Next]_vars /\ OwnAnswer' /\ WholeAnswer'
  => [Rpc!RpcNext]_(Rpc!rpcVars)
<1> SUFFICES ASSUME TypeOK, SessionOrder, SyncInv, AskedInv, PiecesInv, RefusedInv, CountInv,
                    [Next]_vars, OwnAnswer', WholeAnswer'
             PROVE  [Rpc!RpcNext]_(Rpc!rpcVars)
  OBVIOUS
<1>0. SessionTypeOK /\ call \in Frame
  BY DEF TypeOK
<1>1. ASSUME NEW fn \in Fns, Begin(fn) PROVE [Rpc!RpcNext]_(Rpc!rpcVars)
  <2>1. /\ ~Busy /\ UNCHANGED session
        /\ call'.phase \in {"ask", "send"} /\ call'.fn = fn /\ call'.clean = (Outstanding = {})
    BY <1>1 DEF Begin
  <2>2. Outstanding' = Outstanding
    BY <2>1 DEF session, Outstanding
  <2>3. InSync = (Outstanding = {}) /\ InSync' = (Outstanding = {})
    BY <2>1, <2>2 DEF InSync, Busy, Waiting
  <2>4. CallState # "busy" /\ CallState' = "busy" /\ CallResult' = "nothing" /\ up' = up
    BY <2>1 DEF CallState, CallResult, Gave, Busy, Waiting, session
  <2>5. fn \in Accessors
    BY EventLoopAssumption DEF EventLoopAssumption
  <2> QED BY <2>1, <2>3, <2>4, <2>5 DEF Rpc!RpcNext, Rpc!Invoke
<1>2. ASSUME SendStep, call.phase \in {"ask", "send"}, NEW p \in {"field", "loop"},
             call' = [call EXCEPT !.phase = p, !.req = Len(reqs) + 1]
      PROVE  [Rpc!RpcNext]_(Rpc!rpcVars)
  <2>1. /\ call'.phase = p /\ call'.req = Len(reqs) + 1
        /\ call'.fn = call.fn /\ call'.clean = call.clean
    BY <1>0, <1>2 DEF Frame
  <2>2. Busy /\ ~Waiting /\ Busy' /\ Waiting'
    BY <1>2, <2>1 DEF Busy, Waiting
  <2>3. up' = up
    BY <1>2 DEF SendStep, Send
  <2> QED BY <1>2, <2>1, <2>2, <2>3, SendKeepsSync, GoesOn
<1>3. ASSUME NEW p \in {"raised", "undefined"}, End(p), Busy, up' = up
      PROVE  [Rpc!RpcNext]_(Rpc!rpcVars)
  <2>1. call'.phase = p /\ call'.fn = call.fn /\ call'.clean = call.clean
    BY <1>0, <1>3 DEF End, Frame
  <2> QED BY <1>3, <2>1, Fails
<1>4. CASE RaiseBeforeSend \/ AuthAppTimeout
  BY <1>3, <1>4 DEF RaiseBeforeSend, AuthAppTimeout, Busy, Waiting, session
<1>5. ASSUME Take, Waiting, call' = call PROVE [Rpc!RpcNext]_(Rpc!rpcVars)
  <2>1. Busy /\ Busy' /\ Waiting' /\ up' = up
    BY <1>5 DEF Busy, Waiting, Take
  <2> QED BY <1>5, <2>1, TakeKeepsSync, GoesOn
<1>6. CASE FieldEvent
  <2>1. Take /\ Waiting /\ Busy /\ up' = up
    BY <1>6 DEF FieldEvent, Waiting, Busy, Take
  <2>2. CASE Ev.type = "RESPONSE" /\ FieldDone
    <3>1. /\ call'.phase \in {"ask", "send", "returned"} /\ call'.acc = call.acc
          /\ call'.fn = call.fn /\ call'.clean = call.clean
          /\ call'.phase = "returned" => call.fn = "fieldInfo"
      BY <1>0, <2>2 DEF FieldDone, Frame
    <3>2. InSync => InSync'
      BY <2>1, <2>2, TakeKeepsSync DEF Final
    <3>3. CASE call'.phase \in {"ask", "send"}
      <4>1. Busy'
        BY <3>3 DEF Busy
      <4> QED BY <2>1, <3>1, <3>2, <4>1, GoesOn
    <3>4. CASE call'.phase = "returned"
      <4>1. call.clean => CallResult' = "whole"
        BY <3>1, <3>4 DEF CallResult, Gave, OwnAnswer, OwnChunks
      <4>2. call.clean => InSync
        BY <2>1 DEF SyncInv, InSync
      <4> QED BY <2>1, <3>1, <3>2, <3>4, <4>1, <4>2, Returns DEF Gave
    <3> QED BY <3>1, <3>3, <3>4
  <2> QED BY <1>3, <1>5, <1>6, <2>1, <2>2 DEF FieldEvent, Skip
<1>7. CASE LoopEvent
  <2>1. /\ Take /\ call.phase = "loop" /\ up' = up
        /\ call'.fn = call.fn /\ call'.clean = call.clean /\ call'.req = call.req
        /\ call'.phase \in {"loop"} \cup Ended
    BY <1>7, LoopKeeps
  <2>2. Busy /\ Waiting
    BY <2>1 DEF Busy, Waiting
  <2>3. CASE call'.phase = "loop"
    <3>1. Busy' /\ Waiting'
      BY <2>3 DEF Busy, Waiting
    <3> QED BY <2>1, <2>2, <3>1, TakeKeepsSync, GoesOn
  <2>4. CASE call'.phase \in {"raised", "undefined"}
    BY <2>1, <2>2, <2>4, Fails
  <2>5. CASE call'.phase = "returned"
    BY <1>7, <2>1, <2>2, <2>5, OwnResult, Returns DEF Gave
  <2>6. CASE call'.phase = "cut"
    <3>1. call.clean => /\ InSync' /\ call.fn \in MayCut /\ ~up
                        /\ CallResult' \in {"whole", "part", "empty"}
      BY <1>7, <2>6, CutResult
    <3> QED BY <2>1, <2>2, <2>6, <3>1, Returns DEF Gave
  <2> QED BY <2>1, <2>3, <2>4, <2>5, <2>6 DEF Ended
<1>8. ASSUME call' = call, reqs' = reqs, Outstanding' \subseteq Outstanding,
             up' = up \/ (up /\ ~up')
      PROVE  [Rpc!RpcNext]_(Rpc!rpcVars)
  <2>1. InSync => InSync'
    BY <1>8 DEF InSync, Waiting
  <2>2. CallState' = CallState /\ CallResult' = CallResult
    BY <1>8 DEF CallState, Busy, Waiting, CallResult, Gave, OwnTypes, OwnChunks, InFull, InOrder
  <2> QED BY <1>8, <2>1, <2>2, Quiet, Ends
<1>9. CASE Backend /\ UNCHANGED call
  <2>1. up' = up \/ (up /\ ~up')
    BY <1>9 DEF Backend, Deliver, DeliverBad, Reject, Answer, Drop, Terminate, Notice
  <2> QED BY <1>0, <1>8, <1>9, <2>1, BackendOrder, BackendType, SessionAssumption
<1>10. CASE UNCHANGED vars
  <2>1. Outstanding' = Outstanding /\ reqs' = reqs /\ call' = call /\ up' = up
    BY <1>10 DEF vars, session, Outstanding
  <2> QED BY <1>8, <2>1
<1>11. CASE AskField \/ SendData
  BY <1>2, <1>11, AskFieldStep, SendDataStep, SessionAssumption, EventLoopAssumption
<1> QED BY <1>1, <1>4, <1>6, <1>7, <1>9, <1>10, <1>11 DEF Next, CallStep, LoopEvent

\* The accessors, in whatever order the user calls them and whatever the
\* backend does, are an implementation of the service.
THEOREM RefinementCorrect == Spec => RpcRefinement
<1>1. Init => Rpc!RpcInit
  <2> SUFFICES ASSUME Init PROVE Rpc!RpcInit
    OBVIOUS
  <2>1. call.phase = "idle" /\ call.fn = "bdp" /\ call.clean = TRUE
    BY DEF Init
  <2>2. Outstanding = {}
    BY DEF Init, SessionInit, Outstanding
  <2>3. CallState = "idle" /\ CallResult = "nothing"
    BY <2>1 DEF CallState, CallResult, Gave, Busy, Waiting
  <2>4. InSync = TRUE
    BY <2>2 DEF InSync
  <2>5. call.fn \in Accessors
    BY <2>1 DEF Accessors
  <2>6. (~up) = FALSE
    BY DEF Init, SessionInit
  <2> QED BY <2>1, <2>3, <2>4, <2>5, <2>6 DEF Rpc!RpcInit
<1>2. Init => PiecesInv /\ RefusedInv /\ CountInv
  <2> SUFFICES ASSUME Init PROVE PiecesInv /\ RefusedInv /\ CountInv
    OBVIOUS
  <2>1. DOMAIN queue = {} /\ call.phase = "idle"
    BY DEF Init, SessionInit
  <2> QED BY <2>1 DEF PiecesInv, RefusedInv, Busy, Waiting, CountInv
<1>3. TypeOK /\ SessionOrder /\ SyncInv /\ PiecesInv /\ RefusedInv /\ CountInv /\ [Next]_vars
      => (PiecesInv /\ RefusedInv /\ CountInv)'
  BY PiecesStep, RefusedStep, CountStep
<1> QED BY <1>1, <1>2, <1>3, RpcStep, TypeCorrect, SyncCorrect, AskedCorrect, OwnAnswerCorrect,
           WholeAnswerCorrect, PTL
        DEF Spec, RpcRefinement, Rpc!RpcSpec
===============================================================================
