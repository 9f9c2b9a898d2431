------------------------------ MODULE ObjectLife ------------------------------
(***************************************************************************)
(* What the handles promise about the C++ objects behind them: an object   *)
(* is deleted at most once, never while a call works with it, and a call   *)
(* never starts to work with one that is deleted or was lost.              *)
(*                                                                         *)
(* An object is owned from its allocation until it is deleted; one whose   *)
(* start or authorization failed is lost instead, and is never deleted.    *)
(* Once the process is ending nothing is allocated and nothing is used.    *)
(***************************************************************************)
CONSTANT Objects

VARIABLES
  owned,    \* the objects that will be deleted
  lost,     \* those that will not
  freed,    \* those that were
  used,     \* those a running call works with
  running   \* FALSE once the process is ending

lifeVars == <<owned, lost, freed, used, running>>

LifeInit == owned = {} /\ lost = {} /\ freed = {} /\ used = {} /\ running = TRUE

Allocate(o) ==
  /\ running /\ o \notin owned \cup lost \cup freed
  /\ \/ owned' = owned \cup {o} /\ UNCHANGED lost
     \/ lost' = lost \cup {o} /\ UNCHANGED owned
  /\ UNCHANGED <<freed, used, running>>

CallBegins ==
  /\ running /\ used \subseteq used' /\ used' \ used \subseteq owned
  /\ UNCHANGED <<owned, lost, freed, running>>

CallReturns ==
  /\ used' \subseteq used
  /\ UNCHANGED <<owned, lost, freed, running>>

Free(o) ==
  /\ o \in owned /\ o \notin used
  /\ owned' = owned \ {o} /\ freed' = freed \cup {o}
  /\ UNCHANGED <<lost, used, running>>

ProcessEnds ==
  /\ running /\ running' = FALSE /\ used' = {}
  /\ UNCHANGED <<owned, lost, freed>>

LifeNext ==
  \/ \E o \in Objects : Allocate(o)
  \/ \E o \in owned : Free(o)
  \/ CallBegins \/ CallReturns \/ ProcessEnds

LifeSpec == LifeInit /\ [][LifeNext]_lifeVars
===============================================================================
