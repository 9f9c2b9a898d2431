------------------------------ MODULE RpcService ------------------------------
(***************************************************************************)
(* What a Bloomberg connection gives the R user: a call asks and the       *)
(* answer to THAT call comes back, as long as the connection is in sync,   *)
(* i.e. no answer to an earlier call is still outstanding.                 *)
(*                                                                         *)
(* A call that starts in sync stays in sync until it ends.  It fails, or   *)
(* it returns, but what it returns need not be its whole answer: some      *)
(* accessors may return a part of it at any time, some an empty frame when *)
(* the request is refused, and some, when the session ends, whatever has   *)
(* come by then.  It may leave the connection out of sync only by failing, *)
(* or by returning a part before the session has ended.  Out of sync       *)
(* nothing is promised.                                                    *)
(***************************************************************************)
CONSTANTS
  Fns,         \* the accessors
  MayPart,     \* those that may return a part of the answer
  MayRefuse,   \* those that return an empty frame for a refused request
  MayCut       \* those that return when the session ends

VARIABLES
  fn,      \* the accessor called last
  state,   \* "idle", "busy", "returned" or "failed"
  trust,   \* that call started in sync
  sync,    \* nothing but the answer to the running call is outstanding
  ended,   \* the session has ended
  result   \* what the user was given

rpcVars == <<fn, state, trust, sync, ended, result>>

\* refused: an empty frame for a request that the backend refused;
\* empty: one for a request that it did not
Results == {"nothing", "whole", "part", "empty", "refused", "foreign"}

RpcTypeOK ==
  /\ fn \in Fns
  /\ state \in {"idle", "busy", "returned", "failed"}
  /\ trust \in BOOLEAN /\ sync \in BOOLEAN /\ ended \in BOOLEAN
  /\ result \in Results

RpcInit ==
  /\ fn \in Fns
  /\ state = "idle" /\ trust = TRUE /\ sync = TRUE /\ ended = FALSE /\ result = "nothing"

Invoke ==
  /\ state # "busy"
  /\ state' = "busy" /\ fn' \in Fns
  /\ trust' = sync /\ result' = "nothing"
  /\ UNCHANGED <<sync, ended>>

Return ==
  /\ state = "busy" /\ state' = "returned"
  /\ result' \in Results \ {"nothing"}
  /\ trust => \/ result' = "whole" /\ sync'
              \/ result' = "part" /\ fn \in MayPart
              \/ result' = "refused" /\ fn \in MayRefuse /\ sync'
              \/ result' \in {"part", "empty"} /\ fn \in MayCut /\ ended /\ sync'
  /\ sync' \in BOOLEAN
  /\ UNCHANGED <<fn, trust, ended>>

Fail ==
  /\ state = "busy" /\ state' = "failed"
  /\ sync' \in BOOLEAN
  /\ UNCHANGED <<fn, trust, ended, result>>

\* the answers that stood in the way have come and gone
Recover ==
  /\ ~sync /\ sync'
  /\ UNCHANGED <<fn, state, trust, ended, result>>

\* the session ends, and no more answers come than are on their way
SessionEnds ==
  /\ ~ended /\ ended'
  /\ sync => sync'
  /\ sync' \in BOOLEAN
  /\ UNCHANGED <<fn, state, trust, result>>

RpcNext == Invoke \/ Return \/ Fail \/ Recover \/ SessionEnds

RpcSpec == RpcInit /\ [][RpcNext]_rpcVars
===============================================================================
