---------------------------- MODULE EventLoopProofs ---------------------------
(***************************************************************************)
(* Theorems about the session and the event loops, for all constants.      *)
(***************************************************************************)
EXTENDS EventLoop, TLAPS

-----------------------------------------------------------------------------
(* What every step of the session keeps, whoever takes events from it.     *)

\* sendRequest() keeps the session well formed and adds one request to it.
LEMMA SendType ==
  ASSUME SessionTypeOK,
         NEW kind \in Kinds, NEW sec \in Seq(STRING), NEW fld \in Flds \cup {"none"},
         NEW n \in Nat \ {0}, Send(kind, sec, fld, n)
  PROVE  SessionTypeOK' /\ Len(reqs') = Len(reqs) + 1
<1>1. [kind |-> kind, sec |-> sec, fld |-> fld, n |-> n] \in Request
  BY DEF Request
<1>2. reqs' \in Seq(Request) /\ Len(reqs') = Len(reqs) + 1
  BY <1>1 DEF Send, SessionTypeOK
<1>3. sent' \in Seq(Nat) /\ Len(sent') = Len(reqs')
  BY <1>2 DEF Send, SessionTypeOK
<1>4. open' \subseteq 1 .. Len(reqs')
  <2>1. Len(reqs) \in Nat /\ \A r \in open : r \in 1 .. Len(reqs)
    BY DEF SessionTypeOK
  <2>2. open' = open \cup {Len(reqs) + 1}
    BY DEF Send
  <2>3. ASSUME NEW r \in open' PROVE r \in 1 .. (Len(reqs) + 1)
    <3>1. r \in open \/ r = Len(reqs) + 1
      BY <2>2
    <3> QED BY <2>1, <3>1
  <2> QED BY <1>2, <2>3
<1>5. queue' = queue /\ up' = up
  BY DEF Send
<1> QED BY <1>2, <1>3, <1>4, <1>5 DEF SessionTypeOK

\* Taking an event keeps the session well formed.
LEMMA TakeType ==
  ASSUME SessionTypeOK, Take
  PROVE  /\ SessionTypeOK' /\ reqs' = reqs
         /\ Head(queue) \in Event /\ Head(queue).req \in 0 .. Len(reqs)
         /\ Head(queue).type \in {"PARTIAL_RESPONSE", "RESPONSE"} => Head(queue).req # 0
         /\ Len(queue') = Len(queue) - 1
         /\ \A k \in DOMAIN queue' : k + 1 \in DOMAIN queue /\ queue'[k] = queue[k + 1]
<1>1. queue \in Seq(Event) /\ queue # <<>> /\ queue' = Tail(queue)
  BY DEF Take, SessionTypeOK
<1>2. Head(queue) = queue[1] /\ 1 \in DOMAIN queue /\ Head(queue) \in Event
  BY <1>1
<1>3. /\ queue' \in Seq(Event) /\ Len(queue') = Len(queue) - 1
      /\ \A k \in DOMAIN queue' : k + 1 \in DOMAIN queue /\ queue'[k] = queue[k + 1]
  BY <1>1
<1>4. reqs' = reqs /\ sent' = sent /\ open' = open /\ up' = up
  BY DEF Take
<1> QED BY <1>2, <1>3, <1>4 DEF SessionTypeOK

\* An event appended by the backend about request r (0: about the session).
LEMMA AppendEvent ==
  ASSUME queue \in Seq(Event), NEW e \in Event, queue' = Append(queue, e)
  PROVE  /\ queue' \in Seq(Event) /\ Len(queue') = Len(queue) + 1
         /\ queue'[Len(queue) + 1] = e
         /\ \A k \in DOMAIN queue : k \in DOMAIN queue' /\ queue'[k] = queue[k]
         /\ \A k \in DOMAIN queue' : k \in DOMAIN queue \/ k = Len(queue) + 1
OBVIOUS

\* Every backend step about a request puts exactly one event about it in the
\* queue, and closes the request unless the event is a PARTIAL_RESPONSE.
LEMMA BackendStep ==
  ASSUME SessionTypeOK, SessionAssumption, NEW r \in open,
         Deliver(r) \/ DeliverBad(r) \/ Reject(r) \/ Drop(r)
  PROVE  \E e \in Event :
           /\ queue' = Append(queue, e) /\ e.req = r
           /\ \/ e.type = "REQUEST_STATUS" /\ sent' = sent /\ open' = open \ {r}
              \/ /\ e.type = "RESPONSE" /\ open' = open \ {r} /\ e.hi = reqs[r].n
                 /\ e.lo = sent[r] + 1 /\ sent' = [sent EXCEPT ![r] = e.hi]
              \/ /\ e.type = "PARTIAL_RESPONSE" /\ open' = open /\ e.hi # reqs[r].n
                 /\ e.lo = sent[r] + 1 /\ e.hi >= e.lo /\ e.hi <= reqs[r].n
                 /\ sent' = [sent EXCEPT ![r] = e.hi]
           /\ reqs' = reqs /\ up' = up
<1>0. r \in DOMAIN reqs /\ r \in DOMAIN sent /\ reqs[r].n \in Nat \ {0} /\ sent[r] \in Nat /\ r \in Nat
  <2>1. /\ reqs \in Seq(Request) /\ sent \in Seq(Nat) /\ Len(sent) = Len(reqs)
        /\ r \in 1 .. Len(reqs) /\ Len(reqs) \in Nat
    BY DEF SessionTypeOK
  <2>2. r \in DOMAIN reqs /\ r \in DOMAIN sent /\ r \in Nat
    BY <2>1
  <2>3. reqs[r] \in Request /\ sent[r] \in Nat
    BY <2>1, <2>2
  <2> QED BY <2>2, <2>3 DEF Request
<1>1. ASSUME NEW hi \in Nat, NEW err \in {"none", "bad", "responseError"}, Answer(r, hi, err),
             hi >= sent[r] + 1 \/ hi = reqs[r].n, hi <= reqs[r].n
      PROVE  \E e \in Event :
           /\ queue' = Append(queue, e) /\ e.req = r
           /\ \/ /\ e.type = "RESPONSE" /\ open' = open \ {r} /\ e.hi = reqs[r].n
                 /\ e.lo = sent[r] + 1 /\ sent' = [sent EXCEPT ![r] = e.hi]
              \/ /\ e.type = "PARTIAL_RESPONSE" /\ open' = open /\ e.hi # reqs[r].n
                 /\ e.lo = sent[r] + 1 /\ e.hi >= e.lo /\ e.hi <= reqs[r].n
                 /\ sent' = [sent EXCEPT ![r] = e.hi]
           /\ reqs' = reqs /\ up' = up
  <2> DEFINE e == [type |-> IF hi = reqs[r].n THEN "RESPONSE" ELSE "PARTIAL_RESPONSE",
                   req |-> r, lo |-> sent[r] + 1, hi |-> hi, err |-> err]
  <2>1. e \in Event
    BY <1>0, <1>1 DEF Event, EventTypes
  <2> WITNESS e \in Event
  <2>2. queue' = Append(queue, e) /\ sent' = [sent EXCEPT ![r] = e.hi] /\ reqs' = reqs /\ up' = up
    BY <1>1 DEF Answer
  <2>3. open' = IF hi = reqs[r].n THEN open \ {r} ELSE open
    BY <1>1 DEF Answer
  <2> QED BY <1>1, <2>2, <2>3
<1>2. CASE Deliver(r)
  <2>1. PICK hi \in sent[r] + 1 .. sent[r] + MaxMsgs : hi <= reqs[r].n /\ Answer(r, hi, "none")
    BY <1>2 DEF Deliver
  <2>2. hi \in Nat /\ hi >= sent[r] + 1
    BY <1>0, <2>1 DEF SessionAssumption
  <2> QED BY <1>1, <2>1, <2>2
<1>3. CASE DeliverBad(r)
  BY <1>0, <1>1, <1>3 DEF DeliverBad
<1>4. CASE Reject(r)
  BY <1>0, <1>1, <1>4 DEF Reject
<1>5. CASE Drop(r)
  <2> DEFINE e == [type |-> "REQUEST_STATUS", req |-> r, lo |-> 0, hi |-> 0, err |-> "none"]
  <2>1. e \in Event
    BY <1>0 DEF Event, EventTypes
  <2> WITNESS e \in Event
  <2> QED BY <1>5 DEF Drop
<1> QED BY <1>2, <1>3, <1>4, <1>5

\* The steps of the session itself add an event that belongs to no request.
LEMMA SessionStep ==
  ASSUME SessionTypeOK, Terminate \/ Notice
  PROVE  \E e \in Event :
           /\ queue' = Append(queue, e) /\ e.req = 0
           /\ \/ e.type = "SessionTerminated" /\ open' = {} /\ up' = FALSE
              \/ e.type = "SERVICE_STATUS" /\ open' = open /\ up' = up
           /\ reqs' = reqs /\ sent' = sent /\ up
<1>1. CASE Terminate
  <2> DEFINE e == [type |-> "SessionTerminated", req |-> 0, lo |-> 0, hi |-> 0, err |-> "none"]
  <2>1. e \in Event
    BY DEF Event, EventTypes
  <2> WITNESS e \in Event
  <2> QED BY <1>1 DEF Terminate
<1>2. CASE Notice
  <2> DEFINE e == [type |-> "SERVICE_STATUS", req |-> 0, lo |-> 0, hi |-> 0, err |-> "none"]
  <2>1. e \in Event
    BY DEF Event, EventTypes
  <2> WITNESS e \in Event
  <2> QED BY <1>2 DEF Notice
<1> QED BY <1>1, <1>2

\* The backend keeps the session well formed.
LEMMA BackendType ==
  ASSUME SessionTypeOK, SessionAssumption, Backend
  PROVE  SessionTypeOK' /\ reqs' = reqs
<1>0. reqs \in Seq(Request) /\ Len(reqs) \in Nat /\ \A r \in open : r \in 1 .. Len(reqs)
  BY DEF SessionTypeOK
<1>1. ASSUME NEW e \in Event, queue' = Append(queue, e), e.req \in 0 .. Len(reqs), reqs' = reqs,
             e.type \in {"PARTIAL_RESPONSE", "RESPONSE"} => e.req # 0,
             sent' \in Seq(Nat), Len(sent') = Len(sent), open' \subseteq open, up' \in BOOLEAN
      PROVE  SessionTypeOK'
  <2>1. /\ queue' \in Seq(Event)
        /\ \A k \in DOMAIN queue' : (k \in DOMAIN queue /\ queue'[k] = queue[k]) \/ queue'[k] = e
    BY <1>1, AppendEvent DEF SessionTypeOK
  <2>2. open' \subseteq 1 .. Len(reqs')
    BY <1>0, <1>1
  <2> QED BY <1>1, <2>1, <2>2 DEF SessionTypeOK
<1>2. ASSUME NEW r \in open, Deliver(r) \/ DeliverBad(r) \/ Reject(r) \/ Drop(r)
      PROVE  SessionTypeOK' /\ reqs' = reqs
  <2>1. PICK e \in Event :
          /\ queue' = Append(queue, e) /\ e.req = r /\ reqs' = reqs /\ up' = up
          /\ sent' = sent \/ sent' = [sent EXCEPT ![r] = e.hi]
          /\ open' \subseteq open
    BY <1>2, BackendStep
  <2>2. r \in 1 .. Len(reqs) /\ e.hi \in Nat
    BY <1>0, <1>2 DEF Event
  <2>3. sent' \in Seq(Nat) /\ Len(sent') = Len(sent)
    <3>1. sent \in Seq(Nat) /\ Len(sent) = Len(reqs)
      BY DEF SessionTypeOK
    <3>2. CASE sent' = sent
      BY <3>1, <3>2
    <3>3. CASE sent' = [sent EXCEPT ![r] = e.hi]
      <4>1. sent \in [1 .. Len(sent) -> Nat]
        BY <3>1
      <4>2. [sent EXCEPT ![r] = e.hi] \in [1 .. Len(sent) -> Nat]
        BY <2>2, <4>1
      <4> QED BY <3>1, <3>3, <4>2
    <3> QED BY <2>1, <3>2, <3>3
  <2>4. up' \in BOOLEAN
    BY <2>1 DEF SessionTypeOK
  <2>5. e.req \in 0 .. Len(reqs) /\ e.req # 0
    BY <1>0, <2>1, <2>2
  <2> QED BY <1>1, <2>1, <2>3, <2>4, <2>5
<1>3. ASSUME Terminate \/ Notice
      PROVE  SessionTypeOK' /\ reqs' = reqs
  <2>1. PICK e \in Event :
          /\ queue' = Append(queue, e) /\ e.req = 0 /\ reqs' = reqs /\ sent' = sent
          /\ e.type \notin {"PARTIAL_RESPONSE", "RESPONSE"}
          /\ open' \subseteq open /\ (up' = up \/ up' = FALSE)
    BY <1>3, SessionStep
  <2>2. sent' \in Seq(Nat) /\ up' \in BOOLEAN
    BY <2>1 DEF SessionTypeOK
  <2> QED BY <1>0, <1>1, <2>1, <2>2
<1> QED BY <1>2, <1>3 DEF Backend

-----------------------------------------------------------------------------
(* The order of the events of a request, and what is outstanding.          *)

\* A new request is open and has no event in the queue yet.
LEMMA SendOrder ==
  ASSUME SessionTypeOK, SessionOrder, up,
         NEW kind \in Kinds, NEW sec \in Seq(STRING), NEW fld \in Flds \cup {"none"},
         NEW n \in Nat \ {0}, Send(kind, sec, fld, n)
  PROVE  SessionOrder' /\ Outstanding' = Outstanding \cup {Len(reqs) + 1}
<1>0. /\ Len(reqs) \in Nat /\ Len(sent) = Len(reqs) /\ reqs \in Seq(Request) /\ sent \in Seq(Nat)
      /\ \A r \in open : r \in 1 .. Len(reqs)
      /\ \A k \in DOMAIN queue : queue[k].req \in 0 .. Len(reqs)
  BY DEF SessionTypeOK
<1>1. /\ reqs' = Append(reqs, [kind |-> kind, sec |-> sec, fld |-> fld, n |-> n])
      /\ sent' = Append(sent, 0)
      /\ open' = open \cup {Len(reqs) + 1} /\ queue' = queue /\ up' = up
  BY DEF Send
<1>2. \A r \in open' : sent'[r] < reqs'[r].n
  <2>1. ASSUME NEW r \in open PROVE sent'[r] < reqs'[r].n
    <3>1. sent'[r] = sent[r] /\ reqs'[r] = reqs[r]
      BY <1>0, <1>1, <2>1
    <3> QED BY <2>1, <3>1 DEF SessionOrder
  <2>2. sent'[Len(reqs) + 1] = 0 /\ reqs'[Len(reqs) + 1].n = n
    BY <1>0, <1>1
  <2>3. \A r \in open' : r \in open \/ r = Len(reqs) + 1
    BY <1>1
  <2> QED BY <2>1, <2>2, <2>3
<1>3. \A k \in DOMAIN queue : queue[k].req # Len(reqs) + 1
  BY <1>0
<1>4. SessionOrder'
  BY <1>1, <1>2, <1>3 DEF SessionOrder
<1>5. Len(reqs') = Len(reqs) + 1
  BY <1>0, <1>1
<1>6. Outstanding' = Outstanding \cup {Len(reqs) + 1}
  BY <1>0, <1>1, <1>3, <1>5 DEF Outstanding
<1> QED BY <1>4, <1>6

\* Taking an event leaves no more outstanding than before; taking the last
\* event of a request finishes that request.
LEMMA TakeOrder ==
  ASSUME SessionTypeOK, SessionOrder, Take
  PROVE  /\ SessionOrder' /\ Outstanding' \subseteq Outstanding
         /\ Head(queue).req # 0 => Head(queue).req \in Outstanding
         /\ Head(queue).type \in Final => Head(queue).req \notin Outstanding'
         /\ Head(queue).type = "SessionTerminated" => Outstanding' = {}
<1>1. /\ \A k \in DOMAIN queue' : k + 1 \in DOMAIN queue /\ queue'[k] = queue[k + 1]
      /\ Head(queue).req \in 0 .. Len(reqs)
  BY TakeType
<1>2. /\ Head(queue) = queue[1] /\ 1 \in DOMAIN queue /\ DOMAIN queue \subseteq Nat
      /\ DOMAIN queue' \subseteq Nat \ {0}
  BY DEF Take, SessionTypeOK
<1>3. open' = open /\ sent' = sent /\ reqs' = reqs /\ up' = up
  BY DEF Take
<1>4. SessionOrder'
  <2>1. ASSUME NEW k \in DOMAIN queue', queue'[k].type \in Final,
               NEW j \in DOMAIN queue', j > k
        PROVE  queue'[j].req # queue'[k].req
    BY <1>1, <1>2, <2>1 DEF SessionOrder
  <2>2. ASSUME NEW k \in DOMAIN queue', queue'[k].type \in Final
        PROVE  queue'[k].req # 0 /\ queue'[k].req \notin open'
    BY <1>1, <1>3, <2>2 DEF SessionOrder
  <2>3. ASSUME NEW k \in DOMAIN queue', queue'[k].type = "SessionTerminated"
        PROVE  ~up' /\ k = Len(queue')
    <3>1. Len(queue) \in Nat /\ Len(queue') = Len(queue) - 1
      BY TakeType DEF SessionTypeOK
    <3>2. ~up /\ k + 1 = Len(queue)
      BY <1>1, <2>3 DEF SessionOrder
    <3> QED BY <1>2, <1>3, <3>1, <3>2
  <2> QED BY <1>3, <2>1, <2>2, <2>3 DEF SessionOrder
<1>5. Outstanding' \subseteq Outstanding
  BY <1>1, <1>3 DEF Outstanding
<1>6. Head(queue).req # 0 => Head(queue).req \in Outstanding
  BY <1>1, <1>2 DEF Outstanding
<1>7. ASSUME Head(queue).type \in Final PROVE Head(queue).req \notin Outstanding'
  <2>1. \A k \in DOMAIN queue' : queue'[k].req # Head(queue).req
    BY <1>1, <1>2, <1>7 DEF SessionOrder
  <2>2. Head(queue).req \notin open'
    BY <1>2, <1>3, <1>7 DEF SessionOrder
  <2> QED BY <2>1, <2>2 DEF Outstanding
<1>8. ASSUME Head(queue).type = "SessionTerminated" PROVE Outstanding' = {}
  <2>1. 1 = Len(queue) /\ open' = {}
    BY <1>2, <1>3, <1>8 DEF SessionOrder
  <2>2. \A k \in DOMAIN queue' : FALSE
    <3>1. SessionTypeOK' /\ Len(queue') = Len(queue) - 1
      BY TakeType
    <3>2. queue' \in Seq(Event) /\ Len(queue') = 0
      BY <2>1, <3>1 DEF SessionTypeOK
    <3> QED BY <3>2
  <2> QED BY <2>1, <2>2 DEF Outstanding
<1> QED BY <1>4, <1>5, <1>6, <1>7, <1>8

\* The backend closes a request with its last event and starts no answer to a
\* request that is not open.
LEMMA BackendOrder ==
  ASSUME SessionTypeOK, SessionOrder, SessionAssumption, Backend
  PROVE  SessionOrder' /\ Outstanding' \subseteq Outstanding
<1>0. /\ queue \in Seq(Event) /\ Len(queue) \in Nat /\ DOMAIN queue = 1 .. Len(queue)
      /\ reqs \in Seq(Request) /\ sent \in Seq(Nat) /\ Len(sent) = Len(reqs)
      /\ \A r \in open : r \in DOMAIN sent /\ r \in DOMAIN reqs /\ r # 0
  BY DEF SessionTypeOK
<1>1. ASSUME NEW r \in open, Deliver(r) \/ DeliverBad(r) \/ Reject(r) \/ Drop(r)
      PROVE  SessionOrder' /\ Outstanding' \subseteq Outstanding
  <2>1. PICK e \in Event :
          /\ queue' = Append(queue, e) /\ e.req = r /\ reqs' = reqs /\ up' = up
          /\ \/ e.type \in Final /\ open' = open \ {r}
             \/ e.type = "PARTIAL_RESPONSE" /\ open' = open /\ e.hi # reqs[r].n /\ e.hi <= reqs[r].n
          /\ sent' = sent \/ sent' = [sent EXCEPT ![r] = e.hi]
          /\ r \in open' => sent' = [sent EXCEPT ![r] = e.hi]
    BY <1>1, BackendStep DEF Final
  <2>2. /\ Len(queue') = Len(queue) + 1 /\ queue'[Len(queue) + 1] = e
        /\ \A k \in DOMAIN queue : k \in DOMAIN queue' /\ queue'[k] = queue[k]
        /\ \A k \in DOMAIN queue' : k \in DOMAIN queue \/ k = Len(queue) + 1
    BY <1>0, <2>1, AppendEvent
  <2>3. e.hi \in Nat /\ reqs[r].n \in Nat
    <3>1. e.hi \in Nat
      BY <2>1 DEF Event
    <3>2. reqs[r] \in Request
      BY <1>0, <1>1
    <3> QED BY <3>1, <3>2 DEF Request
  <2>4. \A s \in open' : sent'[s] < reqs'[s].n
    <3>1. ASSUME NEW s \in open', s # r PROVE sent'[s] < reqs'[s].n
      <4>1. s \in open /\ sent'[s] = sent[s]
        BY <1>0, <2>1, <3>1
      <4> QED BY <2>1, <4>1 DEF SessionOrder
    <3>2. ASSUME r \in open' PROVE sent'[r] < reqs'[r].n
      BY <1>0, <1>1, <2>1, <2>3, <3>2 DEF Final
    <3> QED BY <3>1, <3>2
  <2>5. ASSUME NEW k \in DOMAIN queue', queue'[k].type \in Final
        PROVE  /\ queue'[k].req # 0 /\ queue'[k].req \notin open'
               /\ \A j \in DOMAIN queue' : j > k => queue'[j].req # queue'[k].req
    <3>1. CASE k \in DOMAIN queue
      <4>1. queue[k].req # 0 /\ queue[k].req \notin open /\ queue'[k] = queue[k]
        BY <2>2, <2>5, <3>1 DEF SessionOrder
      <4>2. ASSUME NEW j \in DOMAIN queue', j > k PROVE queue'[j].req # queue'[k].req
        <5>1. CASE j \in DOMAIN queue
          BY <2>2, <2>5, <3>1, <4>2, <5>1 DEF SessionOrder
        <5>2. CASE j = Len(queue) + 1
          BY <1>1, <2>1, <2>2, <4>1, <5>2
        <5> QED BY <2>2, <4>2, <5>1, <5>2
      <4>3. open' \subseteq open
        BY <2>1
      <4> QED BY <4>1, <4>2, <4>3
    <3>2. CASE k = Len(queue) + 1
      <4>1. queue'[k] = e /\ r \notin open' /\ r # 0
        BY <1>0, <1>1, <2>1, <2>2, <2>5, <3>2 DEF Final
      <4>2. \A j \in DOMAIN queue' : ~(j > k)
        BY <1>0, <2>2, <3>2
      <4> QED BY <2>1, <4>1, <4>2
    <3> QED BY <2>2, <2>5, <3>1, <3>2
  <2>6. \A k \in DOMAIN queue' : queue'[k].type # "SessionTerminated"
    BY <1>1, <2>1, <2>2 DEF SessionOrder, Final
  <2>7. SessionOrder'
    BY <1>1, <2>1, <2>4, <2>5, <2>6 DEF SessionOrder
  <2>8. Outstanding' \subseteq Outstanding
    BY <1>1, <2>1, <2>2 DEF Outstanding
  <2> QED BY <2>7, <2>8
<1>2. ASSUME Terminate \/ Notice
      PROVE  SessionOrder' /\ Outstanding' \subseteq Outstanding
  <2>1. PICK e \in Event :
          /\ queue' = Append(queue, e) /\ e.req = 0 /\ reqs' = reqs /\ sent' = sent
          /\ e.type \notin Final /\ open' \subseteq open /\ up
          /\ \/ up' = up /\ e.type # "SessionTerminated"
             \/ ~up' /\ open' = {}
    BY <1>2, SessionStep DEF Final
  <2>2. /\ Len(queue') = Len(queue) + 1 /\ queue'[Len(queue) + 1] = e
        /\ \A k \in DOMAIN queue : k \in DOMAIN queue' /\ queue'[k] = queue[k]
        /\ \A k \in DOMAIN queue' : k \in DOMAIN queue \/ k = Len(queue) + 1
    BY <1>0, <2>1, AppendEvent
  <2>3. ASSUME NEW k \in DOMAIN queue', queue'[k].type = "SessionTerminated"
        PROVE  ~up' /\ k = Len(queue')
    BY <2>1, <2>2, <2>3 DEF SessionOrder
  <2>4. ASSUME NEW k \in DOMAIN queue', queue'[k].type \in Final
        PROVE  /\ queue'[k].req # 0 /\ queue'[k].req \notin open'
               /\ \A j \in DOMAIN queue' : j > k => queue'[j].req # queue'[k].req
    BY <2>1, <2>2, <2>4 DEF SessionOrder
  <2>5. SessionOrder'
    BY <2>1, <2>3, <2>4 DEF SessionOrder
  <2>6. Outstanding' \subseteq Outstanding
    BY <2>1, <2>2 DEF Outstanding
  <2> QED BY <2>5, <2>6
<1> QED BY <1>1, <1>2 DEF Backend

-----------------------------------------------------------------------------
(* The event loops.                                                        *)

\* Every step of a running call, seen from the session and from its frame.
SendStep ==
  /\ up
  /\ \E kind \in Kinds, sec \in Seq(STRING), fld \in Flds \cup {"none"}, n \in Nat \ {0} :
        Send(kind, sec, fld, n)

LEMMA KindOfType == \A fn \in Accessors : KindOf[fn] \in Kinds
BY DEF KindOf, Accessors, Kinds

\* asking for a field
LEMMA AskFieldStep ==
  ASSUME TypeOK, AskField
  PROVE  /\ SendStep
         /\ call.phase = "ask"
         /\ call' = [call EXCEPT !.phase = "field", !.req = Len(reqs) + 1]
<1>1. "fieldInfoResponse" \in Kinds /\ <<>> \in Seq(STRING) /\ call.fld \in Flds \cup {"none"}
  BY DEF TypeOK, Frame, Kinds
<1>2. Send("fieldInfoResponse", <<>>, call.fld, 1)
  BY DEF AskField
<1>3. \E kind \in Kinds, sec \in Seq(STRING), fld \in Flds \cup {"none"}, n \in Nat \ {0} :
         Send(kind, sec, fld, n)
  <2> USE <1>1
  <2> WITNESS "fieldInfoResponse" \in Kinds, <<>> \in Seq(STRING),
              call.fld \in Flds \cup {"none"}, 1 \in Nat \ {0}
  <2> QED BY <1>2
<1>4. SendStep
  BY <1>3 DEF AskField, SendStep
<1> QED BY <1>4 DEF AskField

\* sending the data request
LEMMA SendDataStep ==
  ASSUME TypeOK, SendData, SessionAssumption, EventLoopAssumption
  PROVE  /\ SendStep
         /\ call.phase = "send"
         /\ call' = [call EXCEPT !.phase = "loop", !.req = Len(reqs) + 1]
<1>1. PICK n \in Pieces : Send(KindOf[call.fn], call.sec, call.fld, n)
  BY DEF SendData
<1>2. KindOf[call.fn] \in Kinds /\ call.sec \in Seq(STRING) /\ call.fld \in Flds \cup {"none"}
  BY KindOfType DEF TypeOK, Frame
<1>3. n \in Nat \ {0}
  <2>1. CASE call.fn \in {"bdp", "bdh"}
    <3>1. call.sec \in Secs
      BY <2>1 DEF SendData, TypeOK, SecArgs
    <3>2. call.sec # <<>> /\ n = Len(call.sec)
      BY <1>1, <2>1, <3>1 DEF Pieces, SessionAssumption
    <3> QED BY <1>2, <3>2
  <2>2. CASE call.fn \notin {"bdp", "bdh"}
    BY <1>1, <2>2 DEF Pieces, EventLoopAssumption
  <2> QED BY <2>1, <2>2
<1>4. SendStep
  BY <1>1, <1>2, <1>3 DEF SendData, SendStep
<1> QED BY <1>4 DEF SendData

LoopEvent ==
  \/ BdpEvent \/ BdhEvent \/ BdsEvent \/ PortfolioEvent
  \/ BeqsEvent \/ BsrchEvent \/ BarsEvent \/ TicksEvent \/ LookupEvent
  \/ SearchEvent \/ AuthIdEvent \/ AuthAppEvent

Ended == {"returned", "cut", "raised", "undefined"}

\* the three things an event does to the frame of an accessor in its loop:
\* nothing, end the call with what it has, or add what was read of the event
SkipsEv == call' = call /\ Ev.type \notin EndsOn
EndsEv ==
  \E p \in Ended :
     \/ call' = [call EXCEPT !.phase = p]
     \/ \E R \in SUBSET Nat : call' = [call EXCEPT !.refused = R, !.phase = p]
CollectsEv ==
  \E old \in {call.acc, <<>>}, c \in Chunk, p \in {"returned", "loop"} :
     /\ IsAnswer /\ c.req = Ev.req
     /\ p = "loop" => Ev.type \notin EndsOn
     /\ call' = [call EXCEPT !.acc = Append(old, c), !.phase = p]

\* what each accessor makes of one event
LEMMA LoopStep ==
  ASSUME TypeOK, LoopEvent
  PROVE  Take /\ call.phase = "loop" /\ (SkipsEv \/ EndsEv \/ CollectsEv)
<1>0. ASSUME Take PROVE Ev \in Event
  BY <1>0, TakeType DEF TypeOK, Ev
<1>1. \A p \in Ended : End(p) => EndsEv
  BY DEF End, EndsEv
<1>2. ASSUME Take, IsAnswer, NEW hi \in {Ev.lo, Ev.hi}, NEW old \in {call.acc, <<>>},
             NEW p \in {"returned", "loop"}, p = "loop" => Ev.type \notin EndsOn,
             call' = [call EXCEPT !.acc = Append(old, [req |-> Ev.req, lo |-> Ev.lo, hi |-> hi]),
                                  !.phase = p]
      PROVE  CollectsEv
  <2>1. [req |-> Ev.req, lo |-> Ev.lo, hi |-> hi] \in Chunk
    BY <1>0, <1>2 DEF Chunk, Event
  <2> QED BY <1>2, <2>1 DEF CollectsEv
<1>3. ASSUME Take, IsAnswer, NEW hi \in {Ev.lo, Ev.hi}, Collect(hi), "PARTIAL_RESPONSE" \notin EndsOn
      PROVE  CollectsEv
  <2>1. CASE Ev.type = "RESPONSE"
    BY <1>2, <1>3, <2>1 DEF Collect
  <2>2. CASE Ev.type # "RESPONSE"
    BY <1>2, <1>3, <2>2 DEF Collect, IsAnswer
  <2> QED BY <2>1, <2>2
<1>4. "PARTIAL_RESPONSE" \notin EndsOn
  BY DEF EndsOn
<1>5. CASE BdpEvent
  <2>1. Take /\ call.phase = "loop" /\ call.fn = "bdp" /\ EndsOn = {"RESPONSE"}
    BY <1>5 DEF BdpEvent, InLoop, EndsOn
  <2> QED BY <1>1, <1>3, <1>4, <1>5, <2>1 DEF BdpEvent, Skip, SkipsEv, IsAnswer, Ended
<1>6. CASE BdhEvent
  <2>1. Take /\ call.phase = "loop" /\ call.fn = "bdh" /\ EndsOn = {"RESPONSE", "REQUEST_STATUS"}
    BY <1>6 DEF BdhEvent, InLoop, EndsOn
  <2> QED BY <1>1, <1>3, <1>4, <1>6, <2>1 DEF BdhEvent, Skip, SkipsEv, IsAnswer, Ended
<1>7. ASSUME NEW fn \in {"bds", "getPortfolio"}, BulkLoop(fn)
      PROVE  Take /\ call.phase = "loop" /\ (SkipsEv \/ EndsEv \/ CollectsEv)
  <2>1. Take /\ call.phase = "loop" /\ call.fn \in {"bds", "getPortfolio"} /\ EndsOn = {"RESPONSE"}
    BY <1>7 DEF BulkLoop, InLoop, EndsOn
  <2>2. CASE ~IsAnswer /\ Skip
    BY <2>1, <2>2 DEF Skip, SkipsEv, IsAnswer
  <2>3. CASE IsAnswer /\ ~Readable /\ End("raised")
    BY <1>1, <2>1, <2>3 DEF Ended
  <2>4. CASE IsAnswer /\ Readable /\ call' = [call EXCEPT
               !.acc = Append(@, [req |-> Ev.req, lo |-> Ev.lo, hi |-> Ev.lo]), !.phase = "returned"]
    BY <1>2, <2>1, <2>4
  <2> QED BY <1>7, <2>2, <2>3, <2>4 DEF BulkLoop
<1>8. ASSUME NEW fn \in {"beqs", "bsrch"}, GridLoop(fn)
      PROVE  Take /\ call.phase = "loop" /\ (SkipsEv \/ EndsEv \/ CollectsEv)
  <2>1. /\ Take /\ call.phase = "loop" /\ call.fn \in {"beqs", "bsrch"}
        /\ EndsOn = {"RESPONSE", "SessionTerminated"}
    BY <1>8 DEF GridLoop, InLoop, EndsOn
  <2>2. CASE Ev.type = "SessionTerminated" /\ End("cut")
    BY <1>1, <2>1, <2>2 DEF Ended
  <2>3. CASE ~IsAnswer /\ Ev.type # "SessionTerminated" /\ Skip
    BY <2>1, <2>3 DEF Skip, SkipsEv, IsAnswer
  <2>4. CASE IsAnswer /\ ~Readable /\ End("raised")
    BY <1>1, <2>1, <2>4 DEF Ended
  <2>5. CASE IsAnswer /\ Readable /\ call' = [call EXCEPT
               !.acc = <<[req |-> Ev.req, lo |-> Ev.lo, hi |-> Ev.lo]>>,
               !.phase = IF Ev.type = "RESPONSE" THEN "returned" ELSE "loop"]
    <3> DEFINE c == [req |-> Ev.req, lo |-> Ev.lo, hi |-> Ev.lo]
    <3>1. <<c>> = Append(<<>>, c)
      OBVIOUS
    <3>2. CASE Ev.type = "RESPONSE"
      BY <1>2, <2>1, <2>5, <3>1, <3>2
    <3>3. CASE Ev.type # "RESPONSE"
      BY <1>2, <2>1, <2>5, <3>1, <3>3 DEF IsAnswer
    <3> QED BY <3>2, <3>3
  <2> QED BY <1>8, <2>2, <2>3, <2>4, <2>5 DEF GridLoop
<1>9. ASSUME NEW fn \in {"getBars", "getTicks", "lookup"}, StreamLoop(fn)
      PROVE  Take /\ call.phase = "loop" /\ (SkipsEv \/ EndsEv \/ CollectsEv)
  <2>1. /\ Take /\ call.phase = "loop" /\ call.fn \in {"getBars", "getTicks", "lookup"}
        /\ EndsOn = {"RESPONSE", "SessionTerminated"}
    BY <1>9 DEF StreamLoop, InLoop, EndsOn
  <2>2. CASE IsAnswer /\ PassRefusal
    <3>1. call.refused \cup {Ev.req} \in SUBSET Nat
      BY <1>0, <2>1 DEF TypeOK, Frame, Event
    <3>2. CASE Ev.type = "RESPONSE"
      <4>1. call' = [call EXCEPT !.refused = call.refused \cup {Ev.req}, !.phase = "returned"]
        BY <2>2, <3>2 DEF PassRefusal
      <4>2. PICK R \in SUBSET Nat : R = call.refused \cup {Ev.req}
        BY <3>1
      <4>3. call' = [call EXCEPT !.refused = R, !.phase = "returned"]
        BY <4>1, <4>2
      <4>4. "returned" \in Ended
        BY DEF Ended
      <4>5. EndsEv
        BY <4>3, <4>4, Zenon DEF EndsEv
      <4> QED BY <2>1, <4>5
    <3>3. CASE Ev.type # "RESPONSE"
      BY <2>1, <2>2, <3>3 DEF PassRefusal, Skip, SkipsEv, IsAnswer
    <3> QED BY <2>1, <3>2, <3>3
  <2>3. CASE Ev.type = "SessionTerminated" /\ End("cut")
    BY <1>1, <2>1, <2>3 DEF Ended
  <2>4. CASE ~IsAnswer /\ Ev.type # "SessionTerminated" /\ Skip
    BY <2>1, <2>4 DEF Skip, SkipsEv, IsAnswer
  <2>5. CASE IsAnswer /\ Readable /\ Collect(Ev.hi)
    BY <1>3, <1>4, <2>1, <2>5
  <2>6. CASE End("raised")
    BY <1>1, <2>1, <2>6 DEF Ended
  <2> QED BY <1>9, <2>2, <2>3, <2>4, <2>5, <2>6 DEF StreamLoop
<1>10. CASE SearchEvent
  <2>1. Take /\ call.phase = "loop" /\ call.fn = "fieldSearch" /\ EndsOn = {"RESPONSE"}
    BY <1>10 DEF SearchEvent, InLoop, EndsOn
  <2> QED BY <1>1, <1>3, <1>4, <1>10, <2>1 DEF SearchEvent, Skip, SkipsEv, IsAnswer, Ended
<1>11. CASE AuthIdEvent
  <2>1. Take /\ call.phase = "loop" /\ call.fn = "authId" /\ EndsOn = {"RESPONSE"}
    BY <1>11 DEF AuthIdEvent, InLoop, EndsOn
  <2> QED BY <1>1, <1>3, <1>4, <1>11, <2>1 DEF AuthIdEvent, Skip, SkipsEv, IsAnswer, Ended
<1>12. CASE AuthAppEvent
  <2>1. Take /\ call.phase = "loop" /\ call.fn = "authApp" /\ EndsOn = {"RESPONSE", "REQUEST_STATUS"}
    BY <1>12 DEF AuthAppEvent, InLoop, EndsOn
  <2>2. CASE Ev.type = "REQUEST_STATUS" /\ End("raised")
    BY <1>1, <2>1, <2>2 DEF Ended
  <2>3. CASE ~IsAnswer /\ Ev.type # "REQUEST_STATUS" /\ Skip
    BY <2>1, <2>3 DEF Skip, SkipsEv, IsAnswer
  <2>4. CASE IsAnswer /\ ~Readable /\ End("raised")
    BY <1>1, <2>1, <2>4 DEF Ended
  <2>5. CASE IsAnswer /\ Readable /\ call' = [call EXCEPT
               !.acc = Append(@, [req |-> Ev.req, lo |-> Ev.lo, hi |-> Ev.hi]), !.phase = "returned"]
    BY <1>2, <2>1, <2>5
  <2> QED BY <1>12, <2>2, <2>3, <2>4, <2>5 DEF AuthAppEvent
<1> QED BY <1>5, <1>6, <1>7, <1>8, <1>9, <1>10, <1>11, <1>12
        DEF LoopEvent, BdsEvent, PortfolioEvent, BeqsEvent, BsrchEvent, BarsEvent, TicksEvent, LookupEvent

\* what getFieldType() makes of one event
LEMMA FieldStep ==
  ASSUME TypeOK, FieldEvent
  PROVE  /\ Take /\ call.phase = "field"
         /\ \/ SkipsEv
            \/ EndsEv
            \/ Ev.type = "RESPONSE" /\ FieldDone
<1>1. Take /\ call.phase = "field" /\ EndsOn = {"RESPONSE"}
  BY DEF FieldEvent, EndsOn
<1>2. CASE ~IsAnswer /\ Skip
  BY <1>1, <1>2 DEF Skip, SkipsEv, IsAnswer
<1>3. CASE End("raised")
  BY <1>1, <1>3 DEF End, EndsEv, Ended
<1>4. CASE IF Ev.type = "RESPONSE" THEN FieldDone ELSE Skip
  BY <1>1, <1>4 DEF Skip, SkipsEv
<1> QED BY <1>1, <1>2, <1>3, <1>4 DEF FieldEvent

\* The frame after a request has been sent.
LEMMA FrameSend ==
  ASSUME call \in Frame, NEW n \in Nat, NEW p \in Phases,
         call' = [call EXCEPT !.phase = p, !.req = n]
  PROVE  /\ call' \in Frame /\ call'.phase = p /\ call'.req = n
         /\ call'.fn = call.fn /\ call'.sec = call.sec /\ call'.fld = call.fld
         /\ call'.todo = call.todo /\ call'.types = call.types /\ call'.acc = call.acc
         /\ call'.base = call.base /\ call'.clean = call.clean
BY DEF Frame

-----------------------------------------------------------------------------
(* Type correctness.                                                       *)

THEOREM TypeCorrect == Spec => []TypeOK
<1>1. Init => TypeOK
  <2> SUFFICES ASSUME Init PROVE TypeOK
    OBVIOUS
  <2>1. SessionTypeOK
    BY DEF Init, SessionInit, SessionTypeOK
  <2>2. call \in Frame
    BY DEF Init, Frame, Accessors, Phases
  <2>3. call.phase = "idle" /\ call.req = 0 /\ call.base = 0 /\ Len(reqs) = 0
    BY DEF Init, SessionInit
  <2> QED BY <2>1, <2>2, <2>3 DEF TypeOK
<1>2. TypeOK /\ [Next]_vars => TypeOK'
  <2> SUFFICES ASSUME TypeOK, [Next]_vars PROVE TypeOK'
    OBVIOUS
  <2>0. /\ Len(reqs) \in Nat /\ call \in Frame /\ SessionTypeOK
        /\ call.req \in 0 .. Len(reqs) /\ call.base \in 0 .. Len(reqs)
    BY DEF TypeOK, SessionTypeOK
  <2>2. ASSUME NEW p \in Ended \cup {"returned", "raised"}, call.phase # "idle",
               SessionTypeOK', reqs' = reqs,
               \/ call' = [call EXCEPT !.phase = p]
               \/ \E R \in SUBSET Nat : call' = [call EXCEPT !.refused = R, !.phase = p]
        PROVE  TypeOK'
    <3>1. p \in Phases /\ p \notin {"ask", "field", "loop"}
      BY <2>2 DEF Ended, Phases
    <3>2. /\ call' \in Frame /\ call'.req = call.req /\ call'.base = call.base
          /\ call'.phase = p /\ call'.fn = call.fn /\ call'.sec = call.sec
      BY <2>0, <2>2, <3>1 DEF Frame
    <3> QED BY <2>0, <2>2, <3>1, <3>2 DEF TypeOK
  <2>3. ASSUME NEW fn \in Fns, Begin(fn) PROVE TypeOK'
    <3>1. PICK sec \in SecArgs(fn), fld \in FldArgs(fn), k \in FieldCounts(fn) :
             call' = [fn |-> fn, phase |-> IF fn \in TypedFns THEN "ask" ELSE "send",
                      sec |-> sec, fld |-> fld, todo |-> k, req |-> 0, types |-> <<>>,
                      acc |-> <<>>, refused |-> {}, base |-> Len(reqs), clean |-> Outstanding = {}]
      BY <2>3 DEF Begin
    <3>2. fn \in Accessors /\ sec \in Seq(STRING) /\ fld \in Flds \cup {"none"}
      <4>1. \A f \in Fns : f \in Accessors
        BY EventLoopAssumption
      <4>2. sec \in Secs \/ sec = <<>>
        BY DEF SecArgs
      <4>3. <<>> \in Seq(STRING) /\ \A s \in Secs : s \in Seq(STRING)
        BY SessionAssumption
      <4>4. fld \in Flds \/ fld = "none"
        BY DEF FldArgs
      <4>5. fn \in Accessors
        BY <2>3, <4>1
      <4>6. sec \in Seq(STRING)
        BY <4>2, <4>3
      <4> QED BY <4>4, <4>5, <4>6
    <3>3. k \in Nat /\ (fn \in TypedFns => k > 0)
      BY <3>1 DEF FieldCounts
    <3>4. (Outstanding = {}) \in BOOLEAN
      OBVIOUS
    <3>5. (IF fn \in TypedFns THEN "ask" ELSE "send") \in Phases
      BY DEF Phases
    <3>6. call' \in Frame
      BY <2>0, <3>1, <3>2, <3>3, <3>4, <3>5 DEF Frame
    <3>7. UNCHANGED session
      BY <2>3 DEF Begin
    <3>8. /\ call'.fn = fn /\ call'.sec = sec /\ call'.req = 0 /\ call'.base = Len(reqs)
          /\ call'.todo = k /\ (call'.phase \in {"ask", "field"} => fn \in TypedFns)
      BY <3>1
    <3>9. SessionTypeOK'
      BY <2>0, <3>7 DEF session, SessionTypeOK
    <3> QED BY <2>0, <3>1, <3>3, <3>6, <3>7, <3>8, <3>9 DEF TypeOK, session
  <2>4. ASSUME SendStep PROVE SessionTypeOK' /\ Len(reqs') = Len(reqs) + 1
    BY <2>0, <2>4, SendType DEF SendStep
  <2>5. CASE AskField
    <3>1. /\ SendStep /\ call.phase = "ask"
          /\ call' = [call EXCEPT !.phase = "field", !.req = Len(reqs) + 1]
      BY <2>5, AskFieldStep
    <3>2. /\ call' \in Frame /\ call'.req = Len(reqs) + 1 /\ call'.base = call.base
          /\ call'.todo = call.todo /\ call'.fn = call.fn /\ call'.sec = call.sec
      <4>1. Len(reqs) + 1 \in Nat /\ "field" \in Phases
        BY <2>0 DEF Phases
      <4> QED BY <2>0, <3>1, <4>1, FrameSend
    <3> QED BY <2>0, <2>4, <3>1, <3>2 DEF TypeOK
  <2>6. CASE SendData
    <3>1. /\ SendStep /\ call.phase = "send"
          /\ call' = [call EXCEPT !.phase = "loop", !.req = Len(reqs) + 1]
      BY <2>6, SendDataStep, SessionAssumption, EventLoopAssumption
    <3>2. call' \in Frame /\ call'.req = Len(reqs) + 1 /\ call'.base = call.base
          /\ call'.fn = call.fn /\ call'.sec = call.sec /\ call'.phase = "loop"
      <4>1. Len(reqs) + 1 \in Nat /\ "loop" \in Phases
        BY <2>0 DEF Phases
      <4> QED BY <2>0, <3>1, <4>1, FrameSend
    <3> QED BY <2>0, <2>4, <3>1, <3>2 DEF TypeOK
  <2>7. ASSUME UNCHANGED session PROVE SessionTypeOK' /\ reqs' = reqs
    BY <2>0, <2>7 DEF session, SessionTypeOK
  <2>8. CASE RaiseBeforeSend
    BY <2>2, <2>7, <2>8 DEF RaiseBeforeSend, End
  <2>10. CASE AuthAppTimeout
    BY <2>2, <2>7, <2>10 DEF AuthAppTimeout, End
  <2>11. ASSUME Take PROVE SessionTypeOK' /\ reqs' = reqs
    BY <2>0, <2>11, TakeType
  <2>12. ASSUME Take, call' = call PROVE TypeOK'
    BY <2>0, <2>11, <2>12 DEF TypeOK
  <2>13. CASE FieldEvent
    <3>1. Take /\ call.phase = "field" /\ (SkipsEv \/ EndsEv \/ FieldDone)
      BY <2>13, FieldStep
    <3>2. CASE FieldDone
      <4>1. Ev.req \in Nat /\ call.todo \in Nat /\ call.todo > 0
        BY <2>0, <3>1, TakeType DEF TypeOK, Frame, Ev, Event
      <4>2. call.types \in Seq(Nat) /\ Append(call.types, Ev.req) \in Seq(Nat)
        BY <2>0, <4>1 DEF Frame
      <4>3. call' \in Frame
        <5>1. PICK p \in {"ask", "send", "returned"} :
                 call' = [call EXCEPT !.types = Append(@, Ev.req), !.todo = @ - 1, !.phase = p]
          BY <3>2 DEF FieldDone
        <5>2. p \in Phases /\ call.todo - 1 \in Nat
          BY <4>1 DEF Phases
        <5> QED BY <2>0, <4>2, <5>1, <5>2 DEF Frame
      <4>4. /\ call'.req = call.req /\ call'.base = call.base /\ call'.fn = call.fn /\ call'.sec = call.sec
            /\ call'.todo = call.todo - 1 /\ (call'.phase \in {"ask", "field"} => call.todo > 1)
        BY <2>0, <3>2 DEF FieldDone, Frame
      <4> QED BY <2>0, <2>11, <3>1, <4>1, <4>3, <4>4 DEF TypeOK
    <3> QED BY <2>2, <2>11, <2>12, <3>1, <3>2 DEF EndsEv, SkipsEv
  <2>14. CASE LoopEvent
    <3>1. Take /\ call.phase = "loop" /\ (SkipsEv \/ EndsEv \/ CollectsEv)
      BY <2>14, LoopStep
    <3>2. CASE CollectsEv
      <4>1. PICK old \in {call.acc, <<>>}, c \in Chunk, p \in {"returned", "loop"} :
               call' = [call EXCEPT !.acc = Append(old, c), !.phase = p]
        BY <3>2 DEF CollectsEv
      <4>2. Append(old, c) \in Seq(Chunk)
        <5>1. call.acc \in Seq(Chunk) /\ <<>> \in Seq(Chunk)
          BY <2>0 DEF Frame
        <5>2. CASE old = call.acc
          BY <5>1, <5>2
        <5>3. CASE old = <<>>
          BY <5>1, <5>3
        <5> QED BY <5>2, <5>3
      <4>3. call' \in Frame
        BY <2>0, <4>1, <4>2 DEF Frame, Phases
      <4>4. /\ call'.req = call.req /\ call'.base = call.base /\ call'.fn = call.fn /\ call'.sec = call.sec
            /\ call'.phase \notin {"ask", "field"}
        BY <2>0, <4>1 DEF Frame
      <4> QED BY <2>0, <2>11, <3>1, <4>3, <4>4 DEF TypeOK
    <3> QED BY <2>2, <2>11, <2>12, <3>1, <3>2 DEF EndsEv, SkipsEv
  <2>15. CASE Backend /\ UNCHANGED call
    <3>1. SessionTypeOK' /\ reqs' = reqs
      BY <2>0, <2>15, BackendType, SessionAssumption
    <3> QED BY <2>0, <2>15, <3>1 DEF TypeOK
  <2>16. CASE UNCHANGED vars
    BY <2>0, <2>7, <2>16 DEF vars, session, TypeOK
  <2> QED BY <2>3, <2>5, <2>6, <2>8, <2>10, <2>13, <2>14, <2>15, <2>16
          DEF Next, CallStep, LoopEvent
<1> QED BY <1>1, <1>2, PTL DEF Spec

-----------------------------------------------------------------------------
(* The session's queue keeps its order, and a call in sync keeps to its   *)
(* own requests.                                                           *)

\* Every step of the system, by what it does to the session and the frame.
LEMMA NextCases ==
  ASSUME TypeOK, [Next]_vars
  PROVE  \/ \E fn \in Fns : Begin(fn)
         \/ /\ SendStep /\ call.phase = "ask"
            /\ call' = [call EXCEPT !.phase = "field", !.req = Len(reqs) + 1]
         \/ /\ SendStep /\ call.phase = "send"
            /\ call' = [call EXCEPT !.phase = "loop", !.req = Len(reqs) + 1]
         \/ UNCHANGED session /\ EndsEv
         \/ /\ Take /\ call.phase = "field"
            /\ SkipsEv \/ EndsEv \/ (Ev.type = "RESPONSE" /\ FieldDone)
         \/ /\ Take /\ call.phase = "loop"
            /\ SkipsEv \/ EndsEv \/ CollectsEv
         \/ Backend /\ UNCHANGED call
         \/ UNCHANGED vars
<1>1. \A p \in Ended : End(p) => EndsEv
  BY DEF End, EndsEv
<1>2. CASE RaiseBeforeSend \/ AuthAppTimeout
  BY <1>1, <1>2 DEF RaiseBeforeSend, AuthAppTimeout, Ended
<1> QED BY <1>2, AskFieldStep, SendDataStep, FieldStep, LoopStep, SessionAssumption, EventLoopAssumption
        DEF Next, CallStep, LoopEvent

LEMMA OrderStep == TypeOK /\ SessionOrder /\ [Next]_vars => SessionOrder'
<1> SUFFICES ASSUME TypeOK, SessionOrder, [Next]_vars PROVE SessionOrder'
  OBVIOUS
<1>0. SessionTypeOK
  BY DEF TypeOK
<1>1. CASE UNCHANGED session
  BY <1>1 DEF session, SessionOrder
<1>2. CASE SendStep
  BY <1>0, <1>2, SendOrder DEF SendStep
<1>3. CASE Take
  BY <1>0, <1>3, TakeOrder
<1>4. CASE Backend
  BY <1>0, <1>4, BackendOrder, SessionAssumption
<1> QED BY <1>1, <1>2, <1>3, <1>4, NextCases DEF Begin, vars

\* What the frame keeps when an event ends the call.
LEMMA EndsKeeps ==
  ASSUME call \in Frame, EndsEv
  PROVE  /\ call'.phase \in Ended /\ call'.fn = call.fn /\ call'.req = call.req
         /\ call'.base = call.base /\ call'.clean = call.clean
         /\ call'.types = call.types /\ call'.acc = call.acc
BY DEF EndsEv, Frame

\* The frame untouched, and nothing new outstanding.
LEMMA SyncKeeps ==
  ASSUME SyncInv, Outstanding' \subseteq Outstanding, reqs' = reqs, call' = call
  PROVE  SyncInv'
<1>1. OwnAnswer'
  BY DEF SyncInv, OwnAnswer, OwnTypes
<1>2. call.clean /\ Waiting => Outstanding' \subseteq {call.req}
  BY DEF SyncInv
<1>3. call.clean /\ call.phase \in {"ask", "send"} => Outstanding' = {}
  BY DEF SyncInv
<1>4. Waiting' = Waiting
  BY DEF Waiting
<1> QED BY <1>1, <1>2, <1>3, <1>4 DEF SyncInv

LEMMA SyncStep == TypeOK /\ SessionOrder /\ SyncInv /\ [Next]_vars => SyncInv'
<1> SUFFICES ASSUME TypeOK, SessionOrder, SyncInv, [Next]_vars PROVE SyncInv'
  OBVIOUS
<1>0. /\ SessionTypeOK /\ call \in Frame /\ Len(reqs) \in Nat
      /\ call.types \in Seq(Nat) /\ call.acc \in Seq(Chunk) /\ call.base \in Nat
  BY DEF TypeOK, SessionTypeOK, Frame
<1>1. ASSUME NEW fn \in Fns, Begin(fn) PROVE SyncInv'
  <2>1. /\ call'.phase \in {"ask", "send"} /\ call'.types = <<>> /\ call'.acc = <<>>
        /\ call'.base = Len(reqs) /\ call'.clean = (Outstanding = {})
    BY <1>1 DEF Begin
  <2>2. reqs' = reqs /\ Outstanding' = Outstanding
    BY <1>1 DEF Begin, session, Outstanding
  <2>3. OwnAnswer' /\ ~Waiting'
    BY <2>1 DEF OwnAnswer, OwnTypes, Waiting
  <2>4. call'.clean => Outstanding' = {}
    BY <2>1, <2>2
  <2>5. call'.phase # "field" /\ Len(reqs') = call'.base + Len(call'.types)
    BY <1>0, <2>1, <2>2
  <2> QED BY <2>1, <2>3, <2>4, <2>5 DEF SyncInv
<1>2. ASSUME SendStep PROVE Outstanding' = Outstanding \cup {Len(reqs) + 1} /\ Len(reqs') = Len(reqs) + 1
  BY <1>0, <1>2, SendOrder, SendType DEF SendStep
<1>3. CASE /\ SendStep /\ call.phase = "ask"
           /\ call' = [call EXCEPT !.phase = "field", !.req = Len(reqs) + 1]
  <2>1. /\ call'.phase = "field" /\ call'.req = Len(reqs) + 1 /\ call'.base = call.base
        /\ call'.clean = call.clean /\ call'.types = call.types /\ call'.acc = call.acc
    BY <1>0, <1>3 DEF Frame
  <2> QED BY <1>0, <1>2, <1>3, <2>1 DEF SyncInv, OwnAnswer, OwnTypes, Waiting
<1>4. CASE /\ SendStep /\ call.phase = "send"
           /\ call' = [call EXCEPT !.phase = "loop", !.req = Len(reqs) + 1]
  <2>1. /\ call'.phase = "loop" /\ call'.req = Len(reqs) + 1 /\ call'.base = call.base
        /\ call'.clean = call.clean /\ call'.types = call.types /\ call'.acc = call.acc
    BY <1>0, <1>4 DEF Frame
  <2> QED BY <1>0, <1>2, <1>4, <2>1 DEF SyncInv, OwnAnswer, OwnTypes, Waiting
<1>5. ASSUME EndsEv PROVE SyncInv'
  BY <1>0, <1>5, EndsKeeps DEF SyncInv, OwnAnswer, OwnTypes, Waiting, Ended
<1>6. ASSUME Take
      PROVE  /\ Outstanding' \subseteq Outstanding /\ reqs' = reqs
             /\ Ev.req \in Nat
             /\ Ev.type \in {"PARTIAL_RESPONSE", "RESPONSE"} => Ev.req \in Outstanding
             /\ Ev.type = "RESPONSE" => Ev.req \notin Outstanding'
  BY <1>0, <1>6, TakeOrder, TakeType DEF Ev, Final
<1>7. ASSUME Take, SkipsEv PROVE SyncInv'
  BY <1>6, <1>7, SyncKeeps DEF SkipsEv
<1>8. CASE Take /\ call.phase = "field" /\ Ev.type = "RESPONSE" /\ FieldDone
  <2>1. /\ call'.types = Append(call.types, Ev.req) /\ call'.acc = call.acc /\ call'.base = call.base
        /\ call'.clean = call.clean /\ call'.req = call.req
        /\ call'.phase \in {"ask", "send", "returned"}
    BY <1>0, <1>8 DEF FieldDone, Frame
  <2>2. ASSUME call.clean PROVE Ev.req = call.req /\ Outstanding' = {}
    <3>1. Outstanding \subseteq {call.req} /\ Ev.req \in Outstanding
      BY <1>6, <1>8, <2>2 DEF SyncInv, Waiting
    <3> QED BY <1>6, <1>8, <3>1
  <2>3. /\ Len(call'.types) = Len(call.types) + 1 /\ call'.types[Len(call.types) + 1] = Ev.req
        /\ \A j \in DOMAIN call.types : call'.types[j] = call.types[j]
        /\ \A j \in DOMAIN call'.types : j \in DOMAIN call.types \/ j = Len(call.types) + 1
    BY <1>0, <1>6, <1>8, <2>1
  <2>4. call.req = Len(reqs) /\ call.req = call.base + Len(call.types) + 1 /\ call.acc = <<>>
    BY <1>8 DEF SyncInv
  <2>5. ASSUME call.clean, NEW j \in DOMAIN call'.types PROVE call'.types[j] = call.base + j
    <3>1. CASE j \in DOMAIN call.types
      BY <2>3, <2>5, <3>1 DEF SyncInv, OwnAnswer, OwnTypes
    <3>2. CASE j = Len(call.types) + 1
      BY <1>0, <2>2, <2>3, <2>4, <2>5, <3>2
    <3> QED BY <2>3, <3>1, <3>2
  <2>6. OwnAnswer'
    <3>1. call'.acc = <<>> /\ call'.clean = call.clean /\ call'.base = call.base
      BY <2>1, <2>4
    <3>2. \A i \in DOMAIN call'.acc : call'.acc[i].req = call'.req
      BY <3>1
    <3> QED BY <2>5, <3>1, <3>2 DEF OwnAnswer, OwnTypes
  <2>7. ~Waiting' /\ call'.acc = <<>> /\ call'.phase # "field"
    BY <2>1, <2>4 DEF Waiting
  <2>8. call'.clean => Outstanding' = {}
    BY <2>1, <2>2
  <2>9. call'.phase = "ask" => Len(reqs') = call'.base + Len(call'.types)
    <3>1. Len(reqs) = call.base + Len(call.types) + 1 /\ Len(call.types) \in Nat
      BY <1>0, <2>4
    <3>2. reqs' = reqs /\ call'.base = call.base /\ Len(call'.types) = Len(call.types) + 1
      BY <1>6, <1>8, <2>1, <2>3
    <3> QED BY <1>0, <3>1, <3>2
  <2> QED BY <2>6, <2>7, <2>8, <2>9 DEF SyncInv
<1>9. CASE Take /\ call.phase = "loop" /\ CollectsEv
  <2>1. PICK old \in {call.acc, <<>>}, c \in Chunk, p \in {"returned", "loop"} :
             /\ IsAnswer /\ c.req = Ev.req
             /\ call' = [call EXCEPT !.acc = Append(old, c), !.phase = p]
    BY <1>9 DEF CollectsEv
  <2>2. /\ call'.types = call.types /\ call'.acc = Append(old, c) /\ call'.base = call.base
        /\ call'.clean = call.clean /\ call'.req = call.req /\ call'.phase = p
    BY <1>0, <2>1 DEF Frame
  <2>3. ASSUME call.clean PROVE Ev.req = call.req
    <3>1. Outstanding \subseteq {call.req} /\ Ev.req \in Outstanding
      BY <1>6, <1>9, <2>1, <2>3 DEF SyncInv, Waiting, IsAnswer
    <3> QED BY <3>1
  <2>4. old \in Seq(Chunk) /\ \A i \in DOMAIN old : i \in DOMAIN call.acc /\ old[i] = call.acc[i]
    <3>1. CASE old = call.acc
      BY <1>0, <3>1
    <3>2. CASE old = <<>>
      BY <3>2
    <3> QED BY <3>1, <3>2
  <2>5. \A i \in DOMAIN Append(old, c) : \/ i \in DOMAIN old /\ Append(old, c)[i] = old[i]
                                       \/ Append(old, c)[i] = c
    BY <2>4
  <2>6. call'.clean => \A i \in DOMAIN call'.acc : call'.acc[i].req = call'.req
    BY <2>1, <2>2, <2>3, <2>4, <2>5 DEF SyncInv, OwnAnswer, OwnTypes
  <2>7. OwnAnswer'
    BY <2>2, <2>6 DEF SyncInv, OwnAnswer, OwnTypes
  <2>8. call'.phase \notin {"ask", "field", "send"}
    BY <2>2
  <2>9. call'.clean /\ Waiting' => Outstanding' \subseteq {call'.req}
    BY <1>6, <1>9, <2>2 DEF SyncInv, Waiting
  <2> QED BY <2>7, <2>8, <2>9 DEF SyncInv
<1>10. CASE Backend /\ UNCHANGED call
  <2>1. Outstanding' \subseteq Outstanding /\ reqs' = reqs
    BY <1>0, <1>10, BackendOrder, BackendType, SessionAssumption
  <2> QED BY <1>10, <2>1, SyncKeeps
<1>11. CASE UNCHANGED vars
  BY <1>11 DEF vars, session, SyncInv, OwnAnswer, OwnTypes, Waiting, Outstanding
<1> QED BY <1>1, <1>3, <1>4, <1>5, <1>7, <1>8, <1>9, <1>10, <1>11, NextCases

\* The session's order and the inductive invariant hold of every behaviour.
THEOREM SyncCorrect == Spec => [](SessionOrder /\ SyncInv)
<1>1. Init => SessionOrder /\ SyncInv
  <2> SUFFICES ASSUME Init PROVE SessionOrder /\ SyncInv
    OBVIOUS
  <2>1. SessionOrder
    BY DEF Init, SessionInit, SessionOrder
  <2>2. call.phase = "idle" /\ call.acc = <<>> /\ call.types = <<>>
    BY DEF Init
  <2> QED BY <2>1, <2>2 DEF SyncInv, OwnAnswer, OwnTypes, Waiting
<1>2. TypeOK /\ SessionOrder /\ SyncInv /\ [Next]_vars => (SessionOrder /\ SyncInv)'
  BY OrderStep, SyncStep
<1> QED BY <1>1, <1>2, TypeCorrect, PTL DEF Spec

\* A call that starts when nothing is outstanding collects only messages of
\* its own request: the loops are right without correlation ids as long as
\* each call reads its answer to the end.
THEOREM OwnAnswerCorrect == Spec => []OwnAnswer
<1>1. SyncInv => OwnAnswer
  BY DEF SyncInv
<1> QED BY <1>1, SyncCorrect, PTL

-----------------------------------------------------------------------------
(* No call waits for an event that will not come, but for the losses its   *)
(* loop is deaf to.                                                        *)

\* The event taken is not one the call ends on: it was not the one owed.
LEMMA WaitTake ==
  ASSUME TypeOK, WaitOwed, Take, Waiting, Ev.type \notin EndsOn,
         call'.phase = call.phase, call'.fn = call.fn, call'.req = call.req
  PROVE  WaitOwed'
<1>1. /\ DOMAIN queue \subseteq Nat /\ queue \in Seq(Event) /\ queue # <<>> /\ queue' = Tail(queue)
      /\ Head(queue) = queue[1]
  BY DEF TypeOK, SessionTypeOK, Take
<1>2. open' = open /\ sent' = sent /\ reqs' = reqs /\ up' = up
  BY DEF Take
<1>3. EndsOn' = EndsOn /\ Waiting' = Waiting
  BY DEF EndsOn, Waiting
<1>4. CASE call.req \in open
  BY <1>2, <1>4 DEF WaitOwed
<1>5. CASE \E k \in DOMAIN queue : queue[k].type \in EndsOn /\ queue[k].req \in {0, call.req}
  <2>1. PICK k \in DOMAIN queue : queue[k].type \in EndsOn /\ queue[k].req \in {0, call.req}
    BY <1>5
  <2>2. k # 1
    BY <1>1, <2>1 DEF Ev
  <2>3. k - 1 \in DOMAIN queue' /\ queue'[k - 1] = queue[k]
    BY <1>1, <2>1, <2>2
  <2> QED BY <1>3, <2>1, <2>3 DEF WaitOwed
<1>6. CASE Deaf
  BY <1>2, <1>3, <1>6 DEF WaitOwed, Deaf, Dropped
<1> QED BY <1>4, <1>5, <1>6 DEF WaitOwed

\* A request is answered, dropped or still open; the session's end is an event.
LEMMA WaitBackend ==
  ASSUME TypeOK, SessionOrder, WaitOwed, Backend, call' = call
  PROVE  WaitOwed'
<1> SUFFICES ASSUME Waiting PROVE WaitOwed'
  BY DEF WaitOwed, Waiting
<1>0. /\ SessionTypeOK /\ queue \in Seq(Event) /\ Len(queue) \in Nat
      /\ DOMAIN queue = 1 .. Len(queue)
      /\ sent \in Seq(Nat) /\ Len(sent) = Len(reqs)
      /\ \A r \in open : r \in DOMAIN sent
  BY DEF TypeOK, SessionTypeOK
<1>1. EndsOn' = EndsOn /\ Waiting' = Waiting /\ "RESPONSE" \in EndsOn
  BY DEF EndsOn, Waiting
<1>2. ASSUME NEW e \in Event, queue' = Append(queue, e)
      PROVE  /\ Len(queue) + 1 \in DOMAIN queue' /\ queue'[Len(queue) + 1] = e
             /\ \A k \in DOMAIN queue : k \in DOMAIN queue' /\ queue'[k] = queue[k]
  BY <1>0, <1>2, AppendEvent
<1>3. ASSUME NEW r \in open, Deliver(r) \/ DeliverBad(r) \/ Reject(r) \/ Drop(r)
      PROVE  WaitOwed'
  <2>1. PICK e \in Event :
          /\ queue' = Append(queue, e) /\ e.req = r /\ reqs' = reqs /\ up' = up
          /\ \/ e.type = "REQUEST_STATUS" /\ sent' = sent /\ open' = open \ {r}
             \/ e.type = "RESPONSE" /\ open' = open \ {r}
             \/ e.type = "PARTIAL_RESPONSE" /\ open' = open
          /\ sent' = sent \/ sent' = [sent EXCEPT ![r] = e.hi]
    BY <1>0, <1>3, BackendStep, SessionAssumption
  <2>2. CASE \E k \in DOMAIN queue : queue[k].type \in EndsOn /\ queue[k].req \in {0, call.req}
    BY <1>1, <1>2, <2>1, <2>2 DEF WaitOwed
  <2>3. CASE call.req \in open /\ call.req # r
    BY <2>1, <2>3 DEF WaitOwed
  <2>4. CASE call.req = r
    <3>1. CASE e.type = "RESPONSE"
      BY <1>1, <1>2, <2>1, <2>4, <3>1 DEF WaitOwed
    <3>2. CASE e.type = "PARTIAL_RESPONSE"
      BY <1>3, <2>1, <2>4, <3>2 DEF WaitOwed
    <3>3. CASE e.type = "REQUEST_STATUS" /\ "REQUEST_STATUS" \in EndsOn
      BY <1>1, <1>2, <2>1, <2>4, <3>3 DEF WaitOwed
    <3>4. CASE e.type = "REQUEST_STATUS" /\ "REQUEST_STATUS" \notin EndsOn
      <4>1. r \notin open' /\ sent'[r] < reqs'[r].n /\ up'
        BY <1>3, <2>1, <3>4 DEF SessionOrder
      <4> QED BY <1>1, <2>4, <3>4, <4>1 DEF WaitOwed, Deaf, Dropped
    <3> QED BY <2>1, <3>1, <3>2, <3>3, <3>4
  <2>5. CASE Deaf /\ call.req # r
    <3>1. ASSUME Dropped(call.req) PROVE Dropped(call.req)'
      <4>1. sent'[call.req] = sent[call.req]
        <5>1. call.req \in DOMAIN sent
          BY <1>0 DEF TypeOK, Waiting
        <5> QED BY <1>0, <1>3, <2>1, <2>5, <5>1
      <4>2. open' \subseteq open
        BY <2>1
      <4> QED BY <2>1, <3>1, <4>1, <4>2 DEF Dropped
    <3> QED BY <1>1, <2>1, <2>5, <3>1 DEF WaitOwed, Deaf
  <2> QED BY <2>2, <2>3, <2>4, <2>5 DEF WaitOwed
<1>4. ASSUME Terminate \/ Notice
      PROVE  WaitOwed'
  <2>1. PICK e \in Event :
          /\ queue' = Append(queue, e) /\ e.req = 0 /\ reqs' = reqs /\ sent' = sent
          /\ \/ e.type = "SessionTerminated" /\ open' = {} /\ up' = FALSE
             \/ e.type = "SERVICE_STATUS" /\ open' = open /\ up' = up
    BY <1>0, <1>4, SessionStep
  <2>2. CASE e.type = "SessionTerminated" /\ "SessionTerminated" \in EndsOn
    BY <1>1, <1>2, <2>1, <2>2 DEF WaitOwed
  <2>3. CASE e.type = "SessionTerminated" /\ "SessionTerminated" \notin EndsOn
    BY <1>1, <2>1, <2>3 DEF WaitOwed, Deaf
  <2>4. CASE e.type = "SERVICE_STATUS"
    <3>1. CASE \E k \in DOMAIN queue : queue[k].type \in EndsOn /\ queue[k].req \in {0, call.req}
      BY <1>1, <1>2, <2>1, <3>1 DEF WaitOwed
    <3>2. CASE call.req \in open \/ Deaf
      BY <1>1, <2>1, <2>4, <3>2 DEF WaitOwed, Deaf, Dropped
    <3> QED BY <3>1, <3>2 DEF WaitOwed
  <2> QED BY <2>1, <2>2, <2>3, <2>4
<1> QED BY <1>3, <1>4 DEF Backend

\* A call blocked in nextEvent() is owed an event it ends on, unless its
\* request was lost in a way its loop skips: the only ways R can block for
\* ever are the REQUEST_STATUS that bdp, bds and others ignore and the
\* SessionTerminated that bdp, bdh and others ignore.
THEOREM WaitOwedCorrect == Spec => []WaitOwed
<1>1. Init => WaitOwed
  BY DEF Init, WaitOwed, Waiting
<1>2. TypeOK /\ SessionOrder /\ WaitOwed /\ [Next]_vars => WaitOwed'
  <2> SUFFICES ASSUME TypeOK, SessionOrder, WaitOwed, [Next]_vars PROVE WaitOwed'
    OBVIOUS
  <2>0. SessionTypeOK /\ call \in Frame /\ Len(reqs) \in Nat
    BY DEF TypeOK, SessionTypeOK
  <2>1. ASSUME ~Waiting' PROVE WaitOwed'
    BY <2>1 DEF WaitOwed
  <2>2. CASE \E fn \in Fns : Begin(fn)
    <3>1. call'.phase \in {"ask", "send"}
      BY <2>2 DEF Begin
    <3> QED BY <2>1, <3>1 DEF Waiting
  <2>3. ASSUME SendStep, NEW p \in {"field", "loop"},
               call' = [call EXCEPT !.phase = p, !.req = Len(reqs) + 1]
        PROVE  WaitOwed'
    <3>1. call'.req = Len(reqs) + 1
      BY <2>0, <2>3 DEF Frame
    <3>2. Len(reqs) + 1 \in open'
      BY <2>3 DEF SendStep, Send
    <3> QED BY <3>1, <3>2 DEF WaitOwed
  <2>4. CASE EndsEv
    BY <2>0, <2>1, <2>4, EndsKeeps DEF Waiting, Ended
  <2>5. CASE Take /\ SkipsEv /\ call.phase \in {"field", "loop"}
    BY <2>5, WaitTake DEF SkipsEv, Waiting
  <2>6. CASE FieldDone
    <3>1. call'.phase \in {"ask", "send", "returned"}
      BY <2>0, <2>6 DEF FieldDone, Frame
    <3> QED BY <2>1, <3>1 DEF Waiting
  <2>7. CASE Take /\ call.phase = "loop" /\ CollectsEv
    <3>1. PICK p \in {"returned", "loop"} :
             /\ call'.phase = p /\ call'.fn = call.fn /\ call'.req = call.req
             /\ p = "loop" => Ev.type \notin EndsOn
      BY <2>0, <2>7 DEF CollectsEv, Frame
    <3>2. CASE p = "returned"
      BY <2>1, <3>1, <3>2 DEF Waiting
    <3>3. CASE p = "loop"
      BY <2>7, <3>1, <3>3, WaitTake DEF Waiting
    <3> QED BY <3>1, <3>2, <3>3
  <2>8. CASE Backend /\ UNCHANGED call
    BY <2>8, WaitBackend
  <2>9. CASE UNCHANGED vars
    BY <2>9 DEF vars, session, WaitOwed, Waiting, EndsOn, Deaf, Dropped
  <2> QED BY <2>2, <2>3, <2>4, <2>5, <2>6, <2>7, <2>8, <2>9, NextCases
<1> QED BY <1>1, <1>2, TypeCorrect, SyncCorrect, PTL DEF Spec
===============================================================================
