------------------------------ MODULE BlpSession ------------------------------
(***************************************************************************)
(* The blpapi::Session one R connection holds, as the code of src/src uses *)
(* it.  The library is not part of the repository: sendRequest() adds a    *)
(* request, nextEvent() takes the head of ONE event queue that every call  *)
(* on the connection shares, and the backend answers a request with zero   *)
(* or more PARTIAL_RESPONSE events and a closing RESPONSE, or drops it     *)
(* with a REQUEST_STATUS.  Requests may be answered in any interleaving;   *)
(* the answer to one request arrives in order.                             *)
(*                                                                         *)
(* The answer to request r is its messages 1 .. reqs[r].n; an event        *)
(* carries the messages lo .. hi of one request.                           *)
(***************************************************************************)
EXTENDS Integers, Sequences, FiniteSets

CONSTANTS
  Secs,     \* the `securities' vectors calls ask for (non-empty sequences of tickers)
  Flds,     \* the `fields' vectors calls ask for, as names
  MaxMsgs,  \* bound: messages in one event
  Faults    \* which of FaultKinds the backend shows in this instance

\* bad: a message the converter throws on; reject: a RESPONSE that holds a
\* responseError; fail: a REQUEST_STATUS instead of the rest of the answer;
\* terminate: the session ends; notice: an event that no loop looks at.
FaultKinds == {"bad", "reject", "fail", "terminate", "notice"}

ASSUME SessionAssumption ==
  /\ \A s \in Secs : s \in Seq(STRING) /\ s # <<>>
  /\ MaxMsgs \in Nat \ {0}
  /\ Faults \subseteq FaultKinds

VARIABLES
  queue,  \* the session's event queue
  reqs,   \* every request sent so far; a request is its index
  sent,   \* sent[r]: how many messages of r the backend has put in the queue
  open,   \* the requests the backend has not closed yet
  up      \* FALSE once the session has terminated

session == <<queue, reqs, sent, open, up>>

Kinds == {"ReferenceDataResponse", "HistoricalDataResponse", "PortfolioDataResponse",
          "BeqsResponse", "GridResponse", "IntradayBarResponse", "IntradayTickResponse",
          "InstrumentListResponse", "fieldInfoResponse", "fieldSearchResponse",
          "AuthorizationResponse"}

\* what a request asks for, the name of the message that answers it, and the
\* number of messages of its answer
Request == [kind: Kinds, sec: Seq(STRING), fld: Flds \cup {"none"}, n: Nat \ {0}]

EventTypes == {"PARTIAL_RESPONSE", "RESPONSE", "REQUEST_STATUS",
               "SessionTerminated", "SERVICE_STATUS"}

\* req = 0 for an event of the session itself
Event == [type: EventTypes, req: Nat, lo: Nat, hi: Nat,
          err: {"none", "bad", "responseError"}]

SessionTypeOK ==
  /\ reqs \in Seq(Request)
  /\ sent \in Seq(Nat) /\ Len(sent) = Len(reqs)
  /\ queue \in Seq(Event)
  /\ \A k \in DOMAIN queue : queue[k].req \in 0 .. Len(reqs)
  /\ \A k \in DOMAIN queue :
        queue[k].type \in {"PARTIAL_RESPONSE", "RESPONSE"} => queue[k].req # 0
  /\ open \subseteq 1 .. Len(reqs)
  /\ up \in BOOLEAN

SessionInit ==
  /\ queue = <<>>
  /\ reqs = <<>>
  /\ sent = <<>>
  /\ open = {}
  /\ up = TRUE

-----------------------------------------------------------------------------
\* session->sendRequest(), as the callers' next-state step uses it
Send(kind, sec, fld, n) ==
  /\ reqs' = Append(reqs, [kind |-> kind, sec |-> sec, fld |-> fld, n |-> n])
  /\ sent' = Append(sent, 0)
  /\ open' = open \cup {Len(reqs) + 1}
  /\ UNCHANGED <<queue, up>>

\* session->nextEvent(): blocks while the queue is empty
Take ==
  /\ queue # <<>>
  /\ queue' = Tail(queue)
  /\ UNCHANGED <<reqs, sent, open, up>>

-----------------------------------------------------------------------------
(* The backend. *)

\* put the next messages of r, up to hi, in the queue
Answer(r, hi, err) ==
  /\ queue' = Append(queue, [type |-> IF hi = reqs[r].n THEN "RESPONSE" ELSE "PARTIAL_RESPONSE",
                             req |-> r, lo |-> sent[r] + 1, hi |-> hi, err |-> err])
  /\ sent' = [sent EXCEPT ![r] = hi]
  /\ open' = IF hi = reqs[r].n THEN open \ {r} ELSE open
  /\ UNCHANGED <<reqs, up>>

Deliver(r) ==
  /\ r \in open
  /\ \E hi \in sent[r] + 1 .. sent[r] + MaxMsgs : hi <= reqs[r].n /\ Answer(r, hi, "none")

\* A message whose content the converter refuses: a value that does not fit
\* the column (the int overflow of test_bdh.R), an unexpected element, a
\* fieldError, an AuthorizationFailure.
DeliverBad(r) ==
  /\ "bad" \in Faults
  /\ r \in open
  /\ sent[r] + 1 <= reqs[r].n
  /\ Answer(r, sent[r] + 1, "bad")

Reject(r) ==
  /\ "reject" \in Faults
  /\ r \in open /\ sent[r] = 0
  /\ Answer(r, reqs[r].n, "responseError")

Drop(r) ==
  /\ "fail" \in Faults
  /\ r \in open
  /\ queue' = Append(queue, [type |-> "REQUEST_STATUS", req |-> r, lo |-> 0, hi |-> 0, err |-> "none"])
  /\ open' = open \ {r}
  /\ UNCHANGED <<reqs, sent, up>>

Terminate ==
  /\ "terminate" \in Faults
  /\ up
  /\ queue' = Append(queue, [type |-> "SessionTerminated", req |-> 0, lo |-> 0, hi |-> 0, err |-> "none"])
  /\ open' = {}
  /\ up' = FALSE
  /\ UNCHANGED <<reqs, sent>>

\* ServiceOpened and the other events no loop looks at; one at a time in the
\* queue (bound)
Notice ==
  /\ "notice" \in Faults
  /\ up
  /\ \A k \in DOMAIN queue : queue[k].type # "SERVICE_STATUS"
  /\ queue' = Append(queue, [type |-> "SERVICE_STATUS", req |-> 0, lo |-> 0, hi |-> 0, err |-> "none"])
  /\ UNCHANGED <<reqs, sent, open, up>>

Backend ==
  \/ \E r \in open : Deliver(r) \/ DeliverBad(r) \/ Reject(r) \/ Drop(r)
  \/ Terminate
  \/ Notice

-----------------------------------------------------------------------------
\* the requests with an event in the queue or still to come
Outstanding == open \cup {r \in 1 .. Len(reqs) : \E k \in DOMAIN queue : queue[k].req = r}

Final == {"RESPONSE", "REQUEST_STATUS"}

\* What the session's queue guarantees a reader: a RESPONSE or REQUEST_STATUS
\* is the last there is of its request, so reading one finishes the request.
\* Nothing is answered once the session has ended, and its end is the last event.
SessionOrder ==
  /\ ~up => open = {}
  /\ \A k \in DOMAIN queue : queue[k].type = "SessionTerminated" => ~up /\ k = Len(queue)
  /\ \A r \in open : sent[r] < reqs[r].n
  /\ \A k \in DOMAIN queue : queue[k].type \in Final =>
        /\ queue[k].req # 0 /\ queue[k].req \notin open
        /\ \A j \in DOMAIN queue : j > k => queue[j].req # queue[k].req

\* the request was dropped: no RESPONSE to it will ever come
Dropped(r) == r \notin open /\ sent[r] < reqs[r].n
===============================================================================
