------------------------------ MODULE EventLoop -------------------------------
(***************************************************************************)
(* The request/response accessors of Rblpapi (bdp, bdh, bds, getPortfolio, *)
(* beqs, bsrch, getBars, getTicks, lookupSecurity, fieldSearch, fieldInfo  *)
(* and the two authentications), all running on one session.               *)
(*                                                                         *)
(* R is single-threaded: one call runs at a time and blocks R.  It sends   *)
(* its request and takes events off the SHARED queue until it sees one it  *)
(* ends on; no call looks at correlation ids, so whatever an earlier call  *)
(* left behind is read as the answer to the present one.                   *)
(***************************************************************************)
EXTENDS BlpSession

CONSTANTS
  Fns,        \* the accessors the user calls in this instance
  MaxReqs,    \* bound: requests sent over the life of the session
  MaxPieces,  \* bound: messages in the answer to a request of unknown length
  MaxFields   \* bound: fields a typed accessor looks up first

Accessors == {"bdp", "bdh", "bds", "getPortfolio", "beqs", "bsrch", "getBars", "getTicks",
              "lookup", "fieldSearch", "fieldInfo", "authId", "authApp"}

ASSUME EventLoopAssumption ==
  /\ Fns \subseteq Accessors
  /\ MaxReqs \in Nat /\ MaxPieces \in Nat \ {0} /\ MaxFields \in Nat \ {0}

\* accessors that ask for the types of their fields before anything else
TypedFns == {"bdp", "bdh", "fieldInfo"}

\* the name of the message each data request is answered with
KindOf == [fn \in Accessors |->
  CASE fn \in {"bdp", "bds"} -> "ReferenceDataResponse"
    [] fn = "bdh" -> "HistoricalDataResponse"
    [] fn = "getPortfolio" -> "PortfolioDataResponse"
    [] fn = "beqs" -> "BeqsResponse"
    [] fn = "bsrch" -> "GridResponse"
    [] fn = "getBars" -> "IntradayBarResponse"
    [] fn = "getTicks" -> "IntradayTickResponse"
    [] fn = "lookup" -> "InstrumentListResponse"
    [] fn = "fieldSearch" -> "fieldSearchResponse"
    [] fn = "fieldInfo" -> "fieldInfoResponse"
    [] fn \in {"authId", "authApp"} -> "AuthorizationResponse"]

VARIABLE
  call  \* the frame of the running accessor; its result stays until the next call

vars == <<session, call>>

Phases == {"idle", "ask", "field", "send", "loop", "returned", "cut", "raised", "undefined"}
\* ask/field: getFieldTypes() between two fields / waiting for one
\* send/loop: before the data request / in the event loop
\* cut: returned because the session ended; undefined: read out of bounds

\* the `securities' an accessor may be given
SecArgs(fn) ==
  IF fn \in {"bdp", "bdh"} THEN Secs
  ELSE IF fn \in {"bds", "getPortfolio", "getBars", "getTicks"}
    THEN {s \in Secs : Len(s) = 1}   \* R/bds.R:59, R/portfolio.R:52
    ELSE {<<>>}

Chunk == [req: Nat, lo: Nat, hi: Nat]   \* messages lo .. hi of a request, as read

Frame == [fn: Accessors, phase: Phases, sec: Seq(STRING), fld: Flds \cup {"none"},
          todo: Nat,        \* fields still to look up
          req: Nat,         \* the request sent last
          types: Seq(Nat),  \* for each field the request its type was read from
          acc: Seq(Chunk),  \* what the call has collected
          refused: SUBSET Nat, \* history: requests refused by the RESPONSE it ended on
          base: Nat,        \* history: requests sent before the call
          clean: BOOLEAN]   \* history: no answer was outstanding at its start

TypeOK ==
  /\ SessionTypeOK
  /\ call \in Frame
  /\ call.req \in 0 .. Len(reqs)
  /\ call.base \in 0 .. Len(reqs)
  /\ call.phase # "idle" => call.sec \in SecArgs(call.fn)
  /\ call.phase \in {"ask", "field"} => call.todo > 0
  /\ call.phase \in {"field", "loop"} => call.req # 0

Init ==
  /\ SessionInit
  /\ call = [fn |-> "bdp", phase |-> "idle", sec |-> <<>>, fld |-> "none", todo |-> 0,
             req |-> 0, types |-> <<>>, acc |-> <<>>, refused |-> {}, base |-> 0, clean |-> TRUE]

Waiting == call.phase \in {"field", "loop"}
Busy == Waiting \/ call.phase \in {"ask", "send"}

-----------------------------------------------------------------------------
(* Calling an accessor, up to its sendRequest().                           *)

FldArgs(fn) == IF fn \in {"bdp", "bdh", "bds", "getPortfolio", "fieldInfo"} THEN Flds ELSE {"none"}

FieldCounts(fn) == IF fn \in TypedFns THEN 1 .. MaxFields ELSE {0}

\* mutant: the accumulators outlive the call
BeginKeepingAcc(fn) ==
  /\ ~Busy
  /\ \E sec \in SecArgs(fn), fld \in FldArgs(fn), k \in FieldCounts(fn) :
       /\ Len(reqs) + k + (IF fn = "fieldInfo" THEN 0 ELSE 1) <= MaxReqs
       /\ call' = [call EXCEPT !.fn = fn, !.phase = IF fn \in TypedFns THEN "ask" ELSE "send",
                     !.sec = sec, !.fld = fld, !.todo = k, !.types = <<>>, !.refused = {},
                     !.base = Len(reqs), !.clean = Outstanding = {}]
  /\ UNCHANGED session

Begin(fn) ==
  /\ ~Busy
  /\ \E sec \in SecArgs(fn), fld \in FldArgs(fn), k \in FieldCounts(fn) :
       /\ Len(reqs) + k + (IF fn = "fieldInfo" THEN 0 ELSE 1) <= MaxReqs
       /\ call' = [fn |-> fn, phase |-> IF fn \in TypedFns THEN "ask" ELSE "send",
                   sec |-> sec, fld |-> fld, todo |-> k, req |-> 0, types |-> <<>>,
                   acc |-> <<>>, refused |-> {}, base |-> Len(reqs), clean |-> Outstanding = {}]
  /\ UNCHANGED session

End(phase) == call' = [call EXCEPT !.phase = phase]

\* getFieldType() up to its sendRequest()
AskField ==
  /\ call.phase = "ask" /\ up
  /\ Send("fieldInfoResponse", <<>>, call.fld, 1)
  /\ call' = [call EXCEPT !.phase = "field", !.req = Len(reqs) + 1]

\* how many messages the answer to the data request has: bdp and bdh get one
\* for each security
Pieces == IF call.fn \in {"bdp", "bdh"} THEN {Len(call.sec)}
          ELSE IF call.fn \in {"authId", "authApp"} THEN {1}
          ELSE 1 .. MaxPieces

\* mutant: the request goes out twice
SendDataTwice ==
  /\ call.phase = "send" /\ up
  /\ \E n \in Pieces :
       LET r == [kind |-> KindOf[call.fn], sec |-> call.sec, fld |-> call.fld, n |-> n]
       IN  /\ reqs' = reqs \o <<r, r>> /\ sent' = sent \o <<0, 0>>
           /\ open' = open \cup {Len(reqs) + 1, Len(reqs) + 2}
  /\ call' = [call EXCEPT !.phase = "loop", !.req = Len(reqs) + 1]
  /\ UNCHANGED <<queue, up>>

SendData ==
  /\ call.phase = "send" /\ up
  /\ \E n \in Pieces : Send(KindOf[call.fn], call.sec, call.fld, n)
  /\ call' = [call EXCEPT !.phase = "loop", !.req = Len(reqs) + 1]

\* openService() fails, or sendRequest() throws (always, once the session is
\* down), or an option, override, identity or token is refused: nothing is
\* sent.  (authenticateWithApp() then returns a null identity, an error too.)
RaiseBeforeSend ==
  /\ call.phase \in {"ask", "send"}
  /\ End("raised")
  /\ UNCHANGED session

-----------------------------------------------------------------------------
(* The event loops.  Each step takes one event.                            *)

Ev == Head(queue)
IsAnswer == Ev.type \in {"PARTIAL_RESPONSE", "RESPONSE"}
KindOfEv == reqs[Ev.req].kind

\* the event names the message the accessor checks for and no conversion throws
Readable == KindOfEv = KindOf[call.fn] /\ Ev.err = "none"

InLoop(fn) == call.phase = "loop" /\ call.fn = fn /\ Take

Skip == UNCHANGED call

\* append what the call read, and leave the loop after the RESPONSE
Collect(hi) ==
  call' = [call EXCEPT !.acc = Append(@, [req |-> Ev.req, lo |-> Ev.lo, hi |-> hi]),
                       !.phase = IF Ev.type = "RESPONSE" THEN "returned" ELSE "loop"]

\* mutant: one field too many
FieldDoneOneMore ==
  call' = [call EXCEPT !.types = Append(@, Ev.req), !.todo = @ - 1,
             !.phase = IF call.todo > 0 THEN "ask"
                       ELSE IF call.fn = "fieldInfo" THEN "returned" ELSE "send"]

\* mutant: the types come out in reverse
FieldDoneReversed ==
  call' = [call EXCEPT !.types = <<Ev.req>> \o @, !.todo = @ - 1,
             !.phase = IF call.todo > 1 THEN "ask"
                       ELSE IF call.fn = "fieldInfo" THEN "returned" ELSE "send"]

\* the field is done when its RESPONSE is read; the next one, or the data
\* request, follows
FieldDone ==
  call' = [call EXCEPT !.types = Append(@, Ev.req), !.todo = @ - 1,
             !.phase = IF call.todo > 1 THEN "ask"
                       ELSE IF call.fn = "fieldInfo" THEN "returned" ELSE "send"]

\* getFieldType(): every event that is no response is skipped; a message of a
\* field search is a fieldData array too, of one element or of more
FieldEvent ==
  /\ call.phase = "field"
  /\ Take
  /\ \/ ~IsAnswer /\ Skip
     \/ /\ IsAnswer
        /\ Ev.err # "none" \/ KindOfEv # "fieldInfoResponse"
        /\ End("raised")
     \/ /\ IsAnswer
        /\ Ev.err = "none" /\ KindOfEv \in {"fieldInfoResponse", "fieldSearchResponse"}
        /\ IF Ev.type = "RESPONSE" THEN FieldDone ELSE Skip

\* mutant: sequence numbers start at one
RowFromOne == IF Ev.lo <= Len(reqs[Ev.req].sec) THEN Ev.lo + 1 ELSE 1

\* the sequenceNumber of the security a message is about: a bdp answer has one
\* message for each, every message of a bds answer is about the only one
Row == IF Ev.lo <= Len(reqs[Ev.req].sec) THEN Ev.lo ELSE 1

\* the row of a security goes where its sequence number says, after its name
\* has been compared with securities[sequenceNumber]: no bound is checked
RightRow == reqs[Ev.req].sec[Row] = call.sec[Row] /\ reqs[Ev.req].fld = call.fld

\* the columns are typed by the call's own lookups; types read from the answers
\* to others need not fit the values
OwnTypes == \A j \in DOMAIN call.types : call.types[j] = call.base + j

BdpEvent ==
  /\ InLoop("bdp")
  /\ \/ ~IsAnswer /\ Skip
     \/ IsAnswer /\ ~Readable /\ End("raised")
     \/ /\ IsAnswer /\ Readable /\ Row > Len(call.sec)
        /\ End("raised") \/ End("undefined")
     \/ /\ IsAnswer /\ Readable /\ Row <= Len(call.sec)
        /\ IF RightRow THEN Collect(Ev.lo) ELSE End("raised")
     \/ IsAnswer /\ ~OwnTypes /\ End("raised")

\* mutant: the last entry is refused
BdhEventShort ==
  /\ InLoop("bdh")
  /\ \/ Ev.type = "REQUEST_STATUS" /\ End("raised")
     \/ ~IsAnswer /\ Ev.type # "REQUEST_STATUS" /\ Skip
     \/ /\ IsAnswer
        /\ IF Readable /\ reqs[Ev.req].fld = call.fld /\ Len(call.acc) + 1 < Len(call.sec)
             THEN Collect(Ev.lo) ELSE End("raised")

\* mutant: the loop runs until there is an entry for each security
BdhEventUntilFull ==
  /\ InLoop("bdh")
  /\ \/ Ev.type = "REQUEST_STATUS" /\ End("raised")
     \/ ~IsAnswer /\ Ev.type # "REQUEST_STATUS" /\ Skip
     \/ /\ IsAnswer
        /\ IF Readable /\ reqs[Ev.req].fld = call.fld
             THEN call' = [call EXCEPT
                    !.acc = Append(@, [req |-> Ev.req, lo |-> Ev.lo, hi |-> Ev.lo]),
                    !.phase = IF Len(call.acc) + 1 = Len(call.sec) THEN "returned" ELSE "loop"]
             ELSE End("raised")

\* ans[i++] = ...: one entry per event, for as many as there are securities;
\* the name of the security is read, not compared
BdhEvent ==
  /\ InLoop("bdh")
  /\ \/ Ev.type = "REQUEST_STATUS" /\ End("raised")
     \/ ~IsAnswer /\ Ev.type # "REQUEST_STATUS" /\ Skip
     \/ /\ IsAnswer
        /\ IF Readable /\ reqs[Ev.req].fld = call.fld /\ Len(call.acc) < Len(call.sec)
             THEN Collect(Ev.lo) ELSE End("raised")
     \/ IsAnswer /\ ~OwnTypes /\ End("raised")

\* mutant: only a PARTIAL_RESPONSE returns
BulkLoopPartialOnly(fn) ==
  /\ InLoop(fn)
  /\ \/ Ev.type # "PARTIAL_RESPONSE" /\ Skip
     \/ /\ Ev.type = "PARTIAL_RESPONSE"
        /\ IF Readable
             THEN call' = [call EXCEPT !.acc = Append(@, [req |-> Ev.req, lo |-> Ev.lo, hi |-> Ev.lo]),
                                       !.phase = "returned"]
             ELSE End("raised")

\* bds() and getPortfolio() return from inside the switch, at the first
\* response event of either type
BulkLoop(fn) ==
  /\ InLoop(fn)
  /\ \/ ~IsAnswer /\ Skip
     \/ IsAnswer /\ ~Readable /\ End("raised")
     \/ /\ IsAnswer /\ Readable
        /\ call' = [call EXCEPT !.acc = Append(@, [req |-> Ev.req, lo |-> Ev.lo, hi |-> Ev.lo]),
                                !.phase = "returned"]

BdsEvent == BulkLoop("bds")
PortfolioEvent == BulkLoop("getPortfolio")

\* mutant: the end of the session goes unseen
GridLoopDeaf(fn) ==
  /\ InLoop(fn)
  /\ \/ ~IsAnswer /\ Skip
     \/ IsAnswer /\ ~Readable /\ End("raised")
     \/ IsAnswer /\ Readable /\ Collect(Ev.lo)

\* beqs() and bsrch(): `ans' is assigned, not extended, by each event
GridLoop(fn) ==
  /\ InLoop(fn)
  /\ \/ Ev.type = "SessionTerminated" /\ End("cut")
     \/ ~IsAnswer /\ Ev.type # "SessionTerminated" /\ Skip
     \/ IsAnswer /\ ~Readable /\ End("raised")
     \/ /\ IsAnswer /\ Readable
        /\ call' = [call EXCEPT !.acc = <<[req |-> Ev.req, lo |-> Ev.lo, hi |-> Ev.lo]>>,
                                !.phase = IF Ev.type = "RESPONSE" THEN "returned" ELSE "loop"]

BeqsEvent == GridLoop("beqs")
BsrchEvent == GridLoop("bsrch")

\* `continue': nothing of the message is kept, and the loop is left after the
\* RESPONSE as ever
PassRefusal ==
  IF Ev.type = "RESPONSE"
  THEN call' = [call EXCEPT !.refused = @ \cup {Ev.req}, !.phase = "returned"]
  ELSE Skip

\* mutant: a message that cannot be read is skipped as well
StreamLoopLenient(fn) ==
  /\ InLoop(fn)
  /\ \/ Ev.type = "SessionTerminated" /\ End("cut")
     \/ ~IsAnswer /\ Ev.type # "SessionTerminated" /\ Skip
     \/ IsAnswer /\ Ev.err = "responseError" /\ PassRefusal
     \/ /\ IsAnswer /\ Ev.err # "responseError"
        /\ IF Readable THEN Collect(Ev.hi)
           ELSE IF Ev.type = "RESPONSE" THEN End("returned") ELSE Skip

\* mutant: the last event is dropped with the session
StreamLoopForgets(fn) ==
  /\ InLoop(fn)
  /\ \/ Ev.type = "SessionTerminated" /\ call' = [call EXCEPT !.phase = "cut", !.acc = <<>>]
     \/ ~IsAnswer /\ Ev.type # "SessionTerminated" /\ Skip
     \/ IsAnswer /\ Ev.err = "responseError" /\ PassRefusal
     \/ /\ IsAnswer /\ Ev.err # "responseError"
        /\ IF Readable THEN Collect(Ev.hi) ELSE End("raised")

\* mutant: each event starts the result afresh
StreamLoopAfresh(fn) ==
  /\ InLoop(fn)
  /\ \/ Ev.type = "SessionTerminated" /\ End("cut")
     \/ ~IsAnswer /\ Ev.type # "SessionTerminated" /\ Skip
     \/ IsAnswer /\ ~Readable /\ End("raised")
     \/ /\ IsAnswer /\ Readable
        /\ call' = [call EXCEPT !.acc = <<[req |-> Ev.req, lo |-> Ev.lo, hi |-> Ev.hi]>>,
                                !.phase = IF Ev.type = "RESPONSE" THEN "returned" ELSE "loop"]

\* getBars(), getTicks(), lookupSecurity(): a message with a responseError,
\* whoever asked for it, is reported on stderr and skipped
StreamLoop(fn) ==
  /\ InLoop(fn)
  /\ \/ Ev.type = "SessionTerminated" /\ End("cut")
     \/ ~IsAnswer /\ Ev.type # "SessionTerminated" /\ Skip
     \/ IsAnswer /\ Ev.err = "responseError" /\ PassRefusal
     \/ /\ IsAnswer /\ Ev.err # "responseError"
        /\ IF Readable THEN Collect(Ev.hi) ELSE End("raised")

BarsEvent == StreamLoop("getBars")
TicksEvent == StreamLoop("getTicks")
LookupEvent == StreamLoop("lookup")

\* fieldSearch(): an answer to a field info request looks the same
SearchEvent ==
  /\ InLoop("fieldSearch")
  /\ \/ ~IsAnswer /\ Skip
     \/ /\ IsAnswer
        /\ IF Ev.err = "none" /\ KindOfEv \in {"fieldInfoResponse", "fieldSearchResponse"}
             THEN Collect(Ev.hi) ELSE End("raised")

\* authenticateWithId(): a RESPONSE ends it, AuthorizationSuccess or not
AuthIdEvent ==
  /\ InLoop("authId")
  /\ \/ ~IsAnswer /\ Skip
     \/ IsAnswer /\ ~Readable /\ End("raised")
     \/ IsAnswer /\ Readable /\ Collect(Ev.lo)

\* mutant: an event of any other type fails the authorization
AuthAppEventStrict ==
  /\ InLoop("authApp")
  /\ IF IsAnswer /\ Readable THEN Collect(Ev.hi) ELSE End("raised")

\* authenticateWithApp(): any message of a response or of a REQUEST_STATUS
\* that is not AuthorizationSuccess fails it
AuthAppEvent ==
  /\ InLoop("authApp")
  /\ \/ Ev.type = "REQUEST_STATUS" /\ End("raised")
     \/ ~IsAnswer /\ Ev.type # "REQUEST_STATUS" /\ Skip
     \/ IsAnswer /\ ~Readable /\ End("raised")
     \/ /\ IsAnswer /\ Readable
        /\ call' = [call EXCEPT !.acc = Append(@, [req |-> Ev.req, lo |-> Ev.lo, hi |-> Ev.hi]),
                                !.phase = "returned"]

\* nextEvent(100000) gives a TIMEOUT event when nothing has come
AuthAppTimeout ==
  /\ call.phase = "loop" /\ call.fn = "authApp" /\ queue = <<>>
  /\ End("raised")
  /\ UNCHANGED session

-----------------------------------------------------------------------------
CallStep ==
  \/ AskField \/ SendData \/ RaiseBeforeSend
  \/ FieldEvent \/ BdpEvent \/ BdhEvent \/ BdsEvent \/ PortfolioEvent
  \/ BeqsEvent \/ BsrchEvent \/ BarsEvent \/ TicksEvent \/ LookupEvent
  \/ SearchEvent \/ AuthIdEvent \/ AuthAppEvent \/ AuthAppTimeout

Next ==
  \/ \E fn \in Fns : Begin(fn)
  \/ CallStep
  \/ Backend /\ UNCHANGED call

Spec == Init /\ [][Next]_vars

\* A running call runs on, and the backend answers what it has not dropped.
\* Nothing makes the user call again, and no fault has to happen.
Fairness ==
  /\ WF_vars(CallStep)
  /\ \A r \in 1 .. MaxReqs : WF_vars(Deliver(r) /\ UNCHANGED call)

FairSpec == Spec /\ Fairness

-----------------------------------------------------------------------------
(* Properties.                                                             *)

\* A call that starts when nothing is outstanding collects messages of its
\* own request only, and reads the type of its j-th field from the j-th
\* request it sent: the loops need no correlation ids as long as every call
\* consumes its whole answer.
OwnAnswer ==
  call.clean =>
    /\ \A i \in DOMAIN call.acc : call.acc[i].req = call.req
    /\ OwnTypes

\* OwnAnswer made inductive: what may be outstanding while a clean call is at
\* each of its stages, and which request it is at.
SyncInv ==
  /\ OwnAnswer
  /\ call.clean /\ Waiting => Outstanding \subseteq {call.req}
  /\ call.clean /\ call.phase \in {"ask", "send"} => Outstanding = {}
  /\ call.phase \in {"ask", "field", "send"} => call.acc = <<>>
  /\ call.phase = "ask" => Len(reqs) = call.base + Len(call.types)
  /\ call.phase = "field" => call.req = Len(reqs) /\ Len(reqs) = call.base + Len(call.types) + 1

\* the accessors that lose nothing: all the messages of an event are read by
\* the last four, the first one only by bdp and bdh
Lossless == {"getBars", "getTicks", "lookup", "fieldSearch"}
              \cup IF MaxMsgs = 1 THEN {"bdp", "bdh"} ELSE {}

\* the chunks hold the messages 1 .. n, each once and in order
InOrder(acc, n) ==
  \/ n = 0 /\ acc = <<>>
  \/ /\ acc # <<>> /\ acc[1].lo = 1 /\ acc[Len(acc)].hi = n
     /\ \A i \in 1 .. Len(acc) - 1 : acc[i + 1].lo = acc[i].hi + 1

InFull(acc, r) == InOrder(acc, reqs[r].n)

\* What such an accessor hands to R as its result, when nothing was outstanding
\* at its start.  It returns on a RESPONSE with the whole answer, each message
\* once and in order, or with an empty frame, and then the backend refused this
\* very request, which the user learns from stderr alone (getBars.cpp:147).  It
\* returns on the end of the session with the beginning of the answer, as far
\* as the backend had sent it and without a gap, and nothing tells the user that
\* the rest is missing (getBars.cpp:201-219).
WholeAnswer ==
  call.clean /\ call.fn \in Lossless =>
    /\ call.phase = "returned" =>
         \/ InFull(call.acc, call.req) /\ call.refused = {}
         \/ call.acc = <<>> /\ call.refused = {call.req}
    /\ call.phase = "cut" =>
         /\ InOrder(call.acc, sent[call.req]) /\ sent[call.req] < reqs[call.req].n
         /\ call.refused = {} /\ ~up

\* The check `it's a grave error to screw this up' of bdp does not stop the
\* read of securities[row_index] past the end; only an answer to an earlier
\* call can get there.
NoOutOfRangeInSync == call.phase = "undefined" => ~call.clean

\* the events the running call ends on
EndsOn ==
  IF call.phase = "field" THEN {"RESPONSE"}
  ELSE CASE call.fn \in {"bdh", "authApp"} -> {"RESPONSE", "REQUEST_STATUS"}
         [] call.fn \in {"beqs", "bsrch", "getBars", "getTicks", "lookup"} -> {"RESPONSE", "SessionTerminated"}
         [] OTHER -> {"RESPONSE"}

\* the request was lost in a way the loop does not look at
Deaf ==
  /\ Waiting
  /\ \/ up /\ Dropped(call.req) /\ "REQUEST_STATUS" \notin EndsOn
     \/ ~up /\ "SessionTerminated" \notin EndsOn

\* A call that blocks R in nextEvent() is owed an event that ends it: its
\* request is open, or an event it ends on is in the queue.  The exceptions
\* are the loops that skip REQUEST_STATUS or SessionTerminated, which block R
\* for ever.  In particular an earlier call's events never use up the event a
\* call waits for without ending it.
WaitOwed ==
  Waiting => \/ call.req \in open
             \/ \E k \in DOMAIN queue :
                  queue[k].type \in EndsOn /\ queue[k].req \in {0, call.req}
             \/ Deaf

\* A call that starts when nothing is outstanding fails, once its request is
\* sent, only because of what its own answer says: never on a mismatched
\* security, an unexpected column, a message of another kind or one entry too
\* many.
NoSpuriousFailure ==
  [][Waiting /\ call.clean /\ call'.phase = "raised" =>
       \/ queue # <<>> /\ (Ev.err # "none" \/ Ev.type = "REQUEST_STATUS")
       \/ AuthAppTimeout]_vars

\* A call that started with nothing outstanding leaves an unread answer to
\* the next call only by ending on a PARTIAL_RESPONSE (bds and getPortfolio
\* always do, the others when they throw there) or on the timeout of the
\* application's authorization.
DesyncOnlyFromPartial ==
  [][call.clean /\ Waiting /\ ~Busy' /\ Outstanding' # {} =>
       \/ queue # <<>> /\ Ev.type = "PARTIAL_RESPONSE"
       \/ AuthAppTimeout]_vars

\* the requests whose RESPONSE is still to be read
Owed == open \cup {r \in 1 .. Len(reqs) :
                     \E k \in DOMAIN queue : queue[k].req = r /\ queue[k].type = "RESPONSE"}

Lag == Cardinality(Owed) - IF Waiting THEN 1 ELSE 0

\* Once behind, a connection stays behind: no call ever reads more closing
\* events than it sends requests, so the number of answers left to later
\* calls shrinks only when the backend drops a request or ends the session.
LagNeverShrinks ==
  [][(\E r \in open : Drop(r)) \/ Terminate \/ Lag' >= Lag]_vars

\* Every call returns to R, whatever earlier calls left in the queue, unless
\* its request was lost in a way its loop does not look at.
CallsEnd == Busy ~> (~Busy \/ Deaf)
===============================================================================
