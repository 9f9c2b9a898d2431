----------------------------- MODULE Subscription -----------------------------
(***************************************************************************)
(* subscribe_Impl() (src/subscribe.cpp:170-233) on a session it shares     *)
(* with the request/response accessors.                                    *)
(*                                                                         *)
(* subscribe() opens its subscriptions and then runs an event loop that    *)
(* only ends by an exception.  It calls the user's R function for each     *)
(* message, and that function may do anything R can: raise an error, call  *)
(* an accessor, call subscribe() again.  R is single-threaded, so the      *)
(* running calls form a stack, and all of them read ONE event queue.       *)
(*                                                                         *)
(* Messages of subscriptions are numbered 1, 2, ... in the order in which  *)
(* the library queues them.                                                *)
(***************************************************************************)
EXTENDS Integers, Sequences, FiniteSets

CONSTANTS
  Lists,     \* the `securities' a call may be given
  MaxCalls,  \* bound: calls of subscribe()
  MaxMade,   \* bound: messages of subscriptions
  MaxMsgs,   \* bound: messages of one event
  MaxQueue,  \* bound: events in the queue at which the backend pauses
  MaxReqs,   \* bound: requests of accessors
  MaxDepth   \* bound: nested calls

ASSUME SubscriptionAssumption ==
  /\ \A l \in Lists : l \in Seq(STRING) /\ "none" \notin {l[i] : i \in DOMAIN l}
  /\ {MaxCalls, MaxMade, MaxMsgs, MaxQueue, MaxReqs, MaxDepth} \subseteq Nat

VARIABLES
  asked,      \* asked[s]: the securities of the s-th subscribe()
  live,       \* subscriptions open at the backend
  cancelled,  \* subscriptions ended by unsubscribe(); the library hides their messages
  about,      \* about[n]: the subscription message n is about
  queue,      \* the session's event queue
  nreq,       \* requests sent by accessors
  owed,       \* those the backend has not answered yet
  stack,      \* the running calls, the innermost last
  intr,       \* the user's interrupt is pending
  raised,     \* history: subscribe() calls an R error or long jump ended
  told        \* history: what the R functions were called with

vars == <<asked, live, cancelled, about, queue, nreq, owed, stack, intr, raised, told>>

Topics == UNION {{l[i] : i \in DOMAIN l} : l \in Lists}
Sub == [call: Nat, cid: Nat]   \* cid: the CorrelationId, an index from 0
Event == [type: {"SUBSCRIPTION", "RESPONSE", "OTHER"}, req: Nat, lo: Nat, hi: Nat]
                               \* a SUBSCRIPTION event carries messages lo .. hi
Frame == [kind: {"subscribe", "rpc"}, id: Nat, phase: {"wait", "iter", "fun"},
          next: Nat, last: Nat]  \* the MessageIterator: next .. last are to come
Told == [n: Nat, call: Nat, topic: Topics \cup {"none"}]

TypeOK ==
  /\ asked \in Seq(Lists)
  /\ live \subseteq Sub /\ cancelled \subseteq Sub
  /\ about \in Seq(Sub)
  /\ queue \in Seq(Event)
  /\ nreq \in Nat /\ owed \subseteq 1 .. nreq
  /\ stack \in Seq(Frame)
  /\ intr \in BOOLEAN
  /\ raised \subseteq 1 .. Len(asked)
  /\ told \in Seq(Told)

Init ==
  /\ asked = <<>> /\ live = {} /\ cancelled = {} /\ about = <<>> /\ queue = <<>>
  /\ nreq = 0 /\ owed = {} /\ stack = <<>> /\ intr = FALSE /\ raised = {} /\ told = <<>>

Top == stack[Len(stack)]
SetTop(f) == stack' = [stack EXCEPT ![Len(stack)] = f]
Return == stack' = SubSeq(stack, 1, Len(stack) - 1)

\* R code is running: at the prompt, or in the function of the innermost call
InR == stack # <<>> => Top.phase = "fun"
Waits(kind) == stack # <<>> /\ Top.kind = kind /\ Top.phase = "wait"

\* the ids call s gave out, and its subscriptions
CidsOf(s) == 0 .. Len(asked[s]) - 1
Subs(s) == {[call |-> s, cid |-> i - 1] : i \in DOMAIN asked[s]}
AllSubs == UNION {Subs(s) : s \in DOMAIN asked}
\* those the backend ended: a failure or a termination of theirs was reported
Closed == AllSubs \ (live \cup cancelled)
\* a pending interrupt nobody in this model is left to look at: R itself does
IntrIfRunning == intr' = (intr /\ Len(stack') > 0)

-----------------------------------------------------------------------------
(* Calls.                                                                  *)

\* a correlation id names one subscription of the session: the library throws
\* when an id of the list is in use, and nothing is subscribed
CidsFree(l) == \A x \in live : x.cid \notin 0 .. Len(l) - 1

Subscribe(l) ==
  /\ InR /\ Len(asked) < MaxCalls /\ Len(stack) < MaxDepth
  /\ CidsFree(l)
  /\ asked' = Append(asked, l)
  /\ live' = live \cup {[call |-> Len(asked) + 1, cid |-> i - 1] : i \in DOMAIN l}
  /\ stack' = Append(stack, [kind |-> "subscribe", id |-> Len(asked) + 1,
                             phase |-> "wait", next |-> 1, last |-> 0])
  /\ UNCHANGED <<cancelled, about, queue, nreq, owed, intr, raised, told>>

\* mutant: its request is not counted
AccessorUncounted ==
  /\ InR /\ nreq < MaxReqs /\ Len(stack) < MaxDepth
  /\ owed' = owed \cup {nreq + 1}
  /\ stack' = Append(stack, [kind |-> "rpc", id |-> nreq + 1,
                             phase |-> "wait", next |-> 1, last |-> 0])
  /\ UNCHANGED <<asked, live, cancelled, about, queue, nreq, intr, raised, told>>

\* a request/response accessor sends its request
Accessor ==
  /\ InR /\ nreq < MaxReqs /\ Len(stack) < MaxDepth
  /\ nreq' = nreq + 1 /\ owed' = owed \cup {nreq + 1}
  /\ stack' = Append(stack, [kind |-> "rpc", id |-> nreq + 1,
                             phase |-> "wait", next |-> 1, last |-> 0])
  /\ UNCHANGED <<asked, live, cancelled, about, queue, intr, raised, told>>

-----------------------------------------------------------------------------
(* The event loop of subscribe().                                          *)

\* mutant: the handler forgets the subscriptions
UnsubscribeNot ==
  /\ Return /\ intr' = FALSE
  /\ UNCHANGED <<live, cancelled, raised>>

\* mutant: it takes all of the session's along
UnsubscribeAll ==
  /\ live' = {} /\ cancelled' = cancelled \cup live
  /\ Return /\ intr' = FALSE
  /\ UNCHANGED raised

\* session->unsubscribe(subscriptions), in the handler of an interrupt.  The
\* list names its subscriptions by their ids: one of another call, that was
\* given an id the backend had closed for this one, goes too
Unsubscribe ==
  LET ended == {x \in live : x.cid \in CidsOf(Top.id)}
  IN  /\ live' = live \ ended /\ cancelled' = cancelled \cup ended
      /\ Return /\ intr' = FALSE
      /\ UNCHANGED raised

\* any other exception goes through: the subscriptions stay open
Leak ==
  /\ Return
  /\ raised' = raised \cup {Top.id}
  /\ UNCHANGED <<live, cancelled>>

\* mutant: the interrupt is looked at for events of subscriptions only
SubscribeEventDeaf ==
  /\ Waits("subscribe") /\ queue # <<>>
  /\ queue' = Tail(queue)
  /\ IF intr /\ Head(queue).type = "SUBSCRIPTION" THEN Unsubscribe
     ELSE /\ IF Head(queue).type = "SUBSCRIPTION"
             THEN SetTop([Top EXCEPT !.phase = "iter", !.next = Head(queue).lo,
                                     !.last = Head(queue).hi])
             ELSE stack' = stack
          /\ UNCHANGED <<live, cancelled, intr, raised>>
  /\ UNCHANGED <<asked, about, nreq, owed, told>>

\* the user's interrupt is looked at once the event has been taken, which is
\* lost with it; an event of another kind is taken and skipped
SubscribeEvent ==
  /\ Waits("subscribe") /\ queue # <<>>
  /\ queue' = Tail(queue)
  /\ \/ intr /\ Unsubscribe
     \/ /\ ~intr
        /\ IF Head(queue).type = "SUBSCRIPTION"
           THEN SetTop([Top EXCEPT !.phase = "iter", !.next = Head(queue).lo,
                                   !.last = Head(queue).hi])
           ELSE stack' = stack
        /\ UNCHANGED <<live, cancelled, intr, raised>>
  /\ UNCHANGED <<asked, about, nreq, owed, told>>

\* mutant: topics are looked up from the back of the list
TopicReversed(s, n) ==
  LET cid == about[n].cid
  IN  IF cid < Len(asked[s]) THEN asked[s][Len(asked[s]) - cid] ELSE "none"

\* `securities[cid]' if there is one, whichever call the id was given out by
Topic(s, n) ==
  LET cid == about[n].cid
  IN  IF cid < Len(asked[s]) THEN asked[s][cid + 1] ELSE "none"

Iterating == stack # <<>> /\ Top.phase = "iter"

\* mutant: the iterator stays where it is
HearAgain ==
  /\ Iterating /\ Top.next <= Top.last
  /\ about[Top.next] \notin cancelled
  /\ told' = Append(told, [n |-> Top.next, call |-> Top.id, topic |-> Topic(Top.id, Top.next)])
  /\ \E next \in {Top.next, Top.next + 1} : SetTop([Top EXCEPT !.phase = "fun", !.next = next])
  /\ UNCHANGED <<asked, live, cancelled, about, queue, nreq, owed, intr, raised>>

\* mutant: one message of an event is all the function gets
HearFirst ==
  /\ Iterating /\ Top.next <= Top.last
  /\ about[Top.next] \notin cancelled
  /\ told' = Append(told, [n |-> Top.next, call |-> Top.id, topic |-> Topic(Top.id, Top.next)])
  /\ SetTop([Top EXCEPT !.phase = "fun", !.next = Top.last + 1])
  /\ UNCHANGED <<asked, live, cancelled, about, queue, nreq, owed, intr, raised>>

\* the user's function gets the next message; the library shows none of a
\* subscription that was cancelled meanwhile
Hear ==
  /\ Iterating /\ Top.next <= Top.last
  /\ about[Top.next] \notin cancelled
  /\ told' = Append(told, [n |-> Top.next, call |-> Top.id, topic |-> Topic(Top.id, Top.next)])
  /\ SetTop([Top EXCEPT !.phase = "fun", !.next = @ + 1])
  /\ UNCHANGED <<asked, live, cancelled, about, queue, nreq, owed, intr, raised>>

PassHidden ==
  /\ Iterating /\ Top.next <= Top.last
  /\ about[Top.next] \in cancelled
  /\ SetTop([Top EXCEPT !.next = @ + 1])
  /\ UNCHANGED <<asked, live, cancelled, about, queue, nreq, owed, intr, raised, told>>

\* the event is finished: back to nextEvent()
EventDone ==
  /\ Iterating /\ Top.next > Top.last
  /\ SetTop([Top EXCEPT !.phase = "wait"])
  /\ UNCHANGED <<asked, live, cancelled, about, queue, nreq, owed, intr, raised, told>>

\* the user's function returns, and the loop goes on with the iterator
FunReturns ==
  /\ stack # <<>> /\ Top.phase = "fun"
  /\ SetTop([Top EXCEPT !.phase = "iter"])
  /\ UNCHANGED <<asked, live, cancelled, about, queue, nreq, owed, intr, raised, told>>

\* the function raises an R error, or recursiveParse() throws on a message
\* before it is called: the error leaves subscribe() and drops the rest of
\* the event
SubscribeRaises ==
  /\ stack # <<>>
  /\ Top.phase = "fun" \/ (Top.phase = "iter" /\ Top.next <= Top.last)
  /\ Leak /\ IntrIfRunning
  /\ UNCHANGED <<asked, about, queue, nreq, owed, told>>

\* R sees the interrupt while it runs the function: an InterruptedException
\* in older versions of Rcpp, which is handled, a long jump in newer ones,
\* which passes the handler by
FunInterrupted ==
  /\ stack # <<>> /\ Top.phase = "fun" /\ intr
  /\ \/ Unsubscribe
     \/ Leak /\ intr' = FALSE
  /\ UNCHANGED <<asked, about, queue, nreq, owed, told>>

-----------------------------------------------------------------------------
(* The event loop of an accessor: it ends at a RESPONSE, whoever asked for *)
(* it, and what it takes on the way is gone.                               *)

\* mutant: the loop runs until the queue is empty
RpcEventDrains ==
  /\ Waits("rpc") /\ queue # <<>>
  /\ queue' = Tail(queue)
  /\ IF Head(queue).type = "RESPONSE" /\ Len(queue) = 1 /\ owed = {}
     THEN Return ELSE stack' = stack
  /\ IntrIfRunning
  /\ UNCHANGED <<asked, live, cancelled, about, nreq, owed, raised, told>>

RpcEvent ==
  /\ Waits("rpc") /\ queue # <<>>
  /\ queue' = Tail(queue)
  /\ IF Head(queue).type = "RESPONSE" THEN Return ELSE stack' = stack
  /\ IntrIfRunning
  /\ UNCHANGED <<asked, live, cancelled, about, nreq, owed, raised, told>>

\* a converter throws on part of an answer: the rest of it is left to come
RpcRaises ==
  /\ Waits("rpc")
  /\ Return /\ IntrIfRunning
  /\ UNCHANGED <<asked, live, cancelled, about, queue, nreq, owed, raised, told>>

-----------------------------------------------------------------------------
(* The user, and the backend (external).                                   *)

Interrupt ==
  /\ stack # <<>> /\ ~intr /\ intr' = TRUE
  /\ UNCHANGED <<asked, live, cancelled, about, queue, nreq, owed, stack, raised, told>>

Room == Len(queue) < MaxQueue

\* one event with messages about the subscriptions xs, in order
Report(xs) ==
  /\ Room /\ Len(about) + Len(xs) <= MaxMade
  /\ about' = about \o xs
  /\ queue' = Append(queue, [type |-> "SUBSCRIPTION", req |-> 0,
                             lo |-> Len(about) + 1, hi |-> Len(about) + Len(xs)])

Tick ==
  /\ \E k \in 1 .. MaxMsgs : \E xs \in [1 .. k -> live] : Report(xs)
  /\ UNCHANGED <<asked, live, cancelled, nreq, owed, stack, intr, raised, told>>

\* a bad security, or the end of a subscription: reported, and its id is free
Close ==
  /\ \E x \in live : Report(<<x>>) /\ live' = live \ {x}
  /\ UNCHANGED <<asked, cancelled, nreq, owed, stack, intr, raised, told>>

\* not bounded by Room: requests are few
Respond(r) ==
  /\ r \in owed /\ owed' = owed \ {r}
  /\ queue' = Append(queue, [type |-> "RESPONSE", req |-> r, lo |-> 1, hi |-> 0])
  /\ UNCHANGED <<asked, live, cancelled, about, nreq, stack, intr, raised, told>>

\* an event of the service or the session
Notice ==
  /\ Room /\ \A i \in DOMAIN queue : queue[i].type # "OTHER"
  /\ queue' = Append(queue, [type |-> "OTHER", req |-> 0, lo |-> 1, hi |-> 0])
  /\ UNCHANGED <<asked, live, cancelled, about, nreq, owed, stack, intr, raised, told>>

-----------------------------------------------------------------------------
\* what the running call does without the user or the backend
CallStep ==
  \/ SubscribeEvent \/ Hear \/ PassHidden \/ EventDone \/ FunReturns \/ RpcEvent

UserStep ==
  \/ \E l \in Lists : Subscribe(l)
  \/ Accessor \/ SubscribeRaises \/ FunInterrupted \/ RpcRaises \/ Interrupt

BackendStep ==
  \/ Tick \/ Close \/ Notice
  \/ \E r \in 1 .. MaxReqs : Respond(r)

Next == CallStep \/ UserStep \/ BackendStep

Spec == Init /\ [][Next]_vars

\* the running call runs, the user's function returns, a request is answered
FairSpec ==
  /\ Spec
  /\ WF_vars(CallStep)
  /\ \A r \in 1 .. MaxReqs : WF_vars(Respond(r))

-----------------------------------------------------------------------------
(* Properties.                                                             *)

Running == {stack[i].id : i \in {j \in DOMAIN stack : stack[j].kind = "subscribe"}}

\* What is open at the backend belongs to a subscribe() that is still running,
\* or to one that an error ended: an interrupt is the only orderly end, and it
\* ends the subscriptions of the call it reaches (subscribe.cpp:230-231).
LiveOwned == \A x \in live : x.call \in Running \cup raised

\* The orderly end of one subscribe() leaves alone what the calls around it have
\* open, and what was leaked before it began, although it unsubscribes by ids
\* that start from 0 in every call (subscribe.cpp:193, 232).  What it cancels is
\* its own, or that of a call its function made later, which an error ended, and
\* which was given an id that the backend had closed for this one.
CancelsOwn ==
  [][\A x \in cancelled' \ cancelled :
       \/ x.call = Top.id
       \/ /\ x.call > Top.id /\ x.call \in raised
          /\ [call |-> Top.id, cid |-> x.cid] \in Closed]_vars

\* The topic handed to the user's function (subscribe.cpp:221-224) is the
\* security the message is about, although ids start from 0 in every call, as
\* long as the backend has not closed a subscription with that id: only then
\* can the id have been given out twice.
TopicTrue ==
  \A i \in DOMAIN told :
    LET x == about[told[i].n] IN
      \/ told[i].topic \in {"none", asked[x.call][x.cid + 1]}
      \/ x \in Closed \/ [call |-> told[i].call, cid |-> x.cid] \in Closed

\* A message is handed to a user's function at most once, whichever calls read
\* the queue, and each call hears its messages in the order they were queued.
InOrderOnce ==
  \A i, j \in DOMAIN told : i < j =>
    /\ told[i].n # told[j].n
    /\ told[i].call = told[j].call => told[i].n < told[j].n

\* messages still on their way to a function
Pending ==
  (UNION {queue[i].lo .. queue[i].hi : i \in DOMAIN queue})
    \cup UNION {stack[i].next .. stack[i].last : i \in {j \in DOMAIN stack : stack[j].phase # "wait"}}

\* A message leaves the queue or an iterator only by being handed to a
\* function, by being hidden, by the end of the call that held it, or because
\* an accessor took it (subscribe.cpp:227: the function may call one).
NothingDropped ==
  [][\A n \in Pending \ Pending' :
       \/ Len(told') > Len(told) /\ told'[Len(told')].n = n
       \/ about[n] \in cancelled
       \/ Len(stack') < Len(stack)
       \/ Top.kind = "rpc"]_vars

\* the innermost call is an accessor, and reads the queue
AccessorReads == stack # <<>> /\ Top.kind = "rpc"

Feed == INSTANCE TickFeed WITH
          Calls <- 1 .. MaxCalls, Topics <- Topics \cup {"none"},
          open <- live, coming <- Pending, listening <- Running,
          accessor <- AccessorReads, heard <- told

\* The nested loops on one queue, with their iterators and the accessors
\* between them, are one feed to the user: each message is heard once at most,
\* in order, by a call that runs, never after its subscription was cancelled,
\* and is lost only at the end of a call or to an accessor
\* (subscribe.cpp:206-233, bdp.cpp:125-139).
FeedRefinement == Feed!FeedSpec

\* the answer to request r is to come, or is in the queue
Due(r) == r \in owed \/ \E i \in DOMAIN queue : queue[i].type = "RESPONSE" /\ queue[i].req = r

\* The innermost call, when it is an accessor, never waits for an answer that is
\* gone: no call takes it, before, around or under the accessor, whatever ticks
\* come first; the answers that accessors before it left, failing, can only end
\* it too early (bdp.cpp:125-139, subscribe.cpp:206-214).
AccessorDue == AccessorReads => Due(Top.id)

\* If events keep coming an interrupt is served: the loop looks for one after
\* every event, whatever its type (subscribe.cpp:208-209), and with no event it
\* is not looked for at all.
InterruptServed == []<>(queue # <<>>) => (intr ~> ~intr)

\* An accessor that was called from a user's function returns, whatever the
\* subscriptions put in the queue before its answer.
AccessorEnds ==
  \A r \in 1 .. MaxReqs :
    LET Runs == stack # <<>> /\ Top.kind = "rpc" /\ Top.id = r
    IN  Runs ~> ~Runs
===============================================================================
