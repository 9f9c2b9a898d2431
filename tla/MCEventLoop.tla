------------------------------ MODULE MCEventLoop -----------------------------
(* The instances of the event loops that TLC checks; each .cfg names a     *)
(* group of accessors and what the backend may do to them.                 *)
EXTENDS EventLoopRpc

\* a vector of two securities and one of another
PairAndSingle == {<<"IBM", "MSFT">>, <<"SPY">>}
Single == {<<"SPY">>}
OnePair == {<<"IBM", "MSFT">>}

\* R/bdh.R:56-59 "A list with as a many entries as there are entries in
\* securities; each list contains a object of type returnAs": no entry of the
\* list that bdh returns, which is as long as its securities, is left NULL.
BdhOneEntryPerSecurity ==
  call.fn = "bdh" /\ call.phase = "returned" => Len(call.acc) = Len(call.sec)

\* R/beqs.R:41 "A data frame object with the date in the first column and and
\* the requested EQS data in the remaining columns": all the rows of the answer.
BeqsWholeScreen ==
  call.fn = "beqs" /\ call.phase = "returned" => InFull(call.acc, call.req)
===============================================================================
