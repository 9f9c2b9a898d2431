----------------------------- MODULE MCConnection -----------------------------
(* The instances of Connection that TLC checks, and a statement of the     *)
(* documentation.                                                          *)
EXTENDS Connection

\* R/blpConnect.R:38-40 "this connection is automatically used for all future
\* calls which omit the \code{con} argument": once there is a default
\* connection there is one until the package is unloaded.
DefaultStays == [][con # 0 /\ con' = 0 => Unload]_vars
===============================================================================
