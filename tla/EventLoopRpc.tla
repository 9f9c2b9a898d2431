----------------------------- MODULE EventLoopRpc -----------------------------
(***************************************************************************)
(* The event loops implement RpcService.                                   *)
(***************************************************************************)
EXTENDS EventLoop

\* bds and getPortfolio return at the first event, beqs and bsrch keep the last
\* event only; where an event holds several messages, the accessors that read
\* only the first one lose the others
MayPart == {"bds", "getPortfolio", "beqs", "bsrch"} \cup IF MaxMsgs = 1 THEN {} ELSE {"bdp", "bdh", "authId"}

\* those that report a responseError on stderr only
MayRefuse == {"getBars", "getTicks", "lookup"}

\* those that leave their loop, and return, when the session ends
MayCut == {"beqs", "bsrch", "getBars", "getTicks", "lookup"}

\* nothing but the answer the running call waits for is outstanding
InSync == Outstanding \subseteq IF Waiting THEN {call.req} ELSE {}

\* the phases in which R has been handed a result
Gave == {"returned", "cut"}

CallState ==
  CASE call.phase = "idle" -> "idle"
    [] Busy -> "busy"
    [] call.phase \in Gave -> "returned"
    [] OTHER -> "failed"

OwnChunks == \A i \in DOMAIN call.acc : call.acc[i].req = call.req

\* the result of fieldInfo is the types, of the others the chunks
CallResult ==
  IF call.phase \notin Gave THEN "nothing"
  ELSE IF ~OwnTypes \/ ~OwnChunks THEN "foreign"
  ELSE IF call.fn = "fieldInfo" \/ InFull(call.acc, call.req) THEN "whole"
  ELSE IF call.acc # <<>> THEN "part"
  ELSE IF call.req \in call.refused THEN "refused" ELSE "empty"

Rpc == INSTANCE RpcService WITH
         Fns <- Accessors,
         fn <- call.fn, state <- CallState, trust <- call.clean,
         sync <- InSync, ended <- ~up, result <- CallResult

\* Every behaviour of the event loops is one of the service: in sync, a call's
\* result is its own answer, whole or, in the cases the service names, a part
\* of it or an empty frame, and sync is lost only by a call that fails or
\* returns a part.
RpcRefinement == Rpc!RpcSpec
===============================================================================
