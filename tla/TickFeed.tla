------------------------------- MODULE TickFeed -------------------------------
(***************************************************************************)
(* What subscribe() promises its user, without queues, events and nested   *)
(* loops: messages about open subscriptions come in, and each is heard by  *)
(* at most one of the calls that listen, once, and in order for that call. *)
(*                                                                         *)
(* A message is never heard once its subscription was cancelled.  It may   *)
(* be lost for two reasons only: a call that listens stops, or an accessor *)
(* reads the connection.  A call that stops leaves open what it has opened *)
(* or cancels all of it, with nothing of a call that listens or that began *)
(* before it.                                                              *)
(***************************************************************************)
EXTENDS Integers, Sequences

CONSTANTS
  Calls,   \* the calls there may be, numbered in the order they begin
  Topics   \* what a function may be told a message is about

VARIABLES
  open,       \* the open subscriptions: the call, and its id on the connection
  cancelled,  \* those that a call cancelled at its end
  about,      \* about[n]: the subscription message n is about
  coming,     \* the messages on their way
  listening,  \* the calls that listen
  accessor,   \* an accessor reads the connection instead of them
  heard       \* the messages heard: which, by which call, under which topic

feedVars == <<open, cancelled, about, coming, listening, accessor, heard>>

FeedInit ==
  /\ open = {} /\ cancelled = {} /\ about = <<>> /\ coming = {}
  /\ listening = {} /\ accessor = FALSE /\ heard = <<>>

Of(c) == {x \in open : x.call = c}

\* a new call opens its subscriptions, under ids that are not in use
Listen(c) ==
  /\ \A d \in listening : d < c
  /\ \A x \in open \cup cancelled : x.call < c
  /\ listening' = listening \cup {c}
  /\ open \subseteq open' /\ \A x \in open' \ open : x.call = c
  /\ \A x, y \in open' : x.cid = y.cid => x = y
  /\ accessor' = FALSE
  /\ UNCHANGED <<cancelled, about, coming, heard>>

Ask ==
  /\ accessor' = TRUE
  /\ UNCHANGED <<open, cancelled, about, coming, listening, heard>>

\* messages about open subscriptions; the end of one is such a message
Publish ==
  LET new == DOMAIN about' \ DOMAIN about
  IN  /\ new # {} /\ DOMAIN about \subseteq DOMAIN about'
      /\ \A n \in DOMAIN about : about'[n] = about[n]
      /\ \A n \in new : about'[n] \in open
      /\ open' \subseteq open /\ \A x \in open \ open' : \E n \in new : about'[n] = x
      /\ coming' = coming \cup new
      /\ UNCHANGED <<cancelled, listening, accessor, heard>>

Hear(c) ==
  \E n \in coming, topic \in Topics :
    /\ about[n] \notin cancelled
    /\ \A k \in DOMAIN heard : heard[k].n # n /\ (heard[k].call = c => heard[k].n < n)
    /\ coming' = coming \ {n}
    /\ heard' = Append(heard, [n |-> n, call |-> c, topic |-> topic])
    /\ UNCHANGED <<open, cancelled, about, listening, accessor>>

\* by an interrupt, or by an error; what it had yet to hear is lost.  With its
\* own it may cancel what a later call left open
Stop(c) ==
  /\ listening' = listening \ {c} /\ coming' \subseteq coming
  /\ \/ /\ open' \subseteq open \ Of(c) /\ cancelled' = cancelled \cup (open \ open')
        /\ \A x \in open \ open' : x.call = c \/ (x.call > c /\ x.call \notin listening)
     \/ UNCHANGED <<open, cancelled>>
  /\ accessor' = FALSE
  /\ UNCHANGED <<about, heard>>

\* messages are hidden, or taken by the accessor, which may end
Skip ==
  /\ coming' \subseteq coming
  /\ \A n \in coming \ coming' : accessor \/ about[n] \in cancelled
  /\ accessor' \in {accessor, FALSE}
  /\ UNCHANGED <<open, cancelled, about, listening, heard>>

FeedNext ==
  \/ \E c \in Calls : Listen(c)
  \/ \E c \in listening : Hear(c) \/ Stop(c)
  \/ Ask \/ Publish \/ Skip

FeedSpec == FeedInit /\ [][FeedNext]_feedVars
===============================================================================
