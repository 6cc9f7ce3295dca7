----------------------------- MODULE MCSession -----------------------------
(***************************************************************************)
(* Instances of Session for TLC.                                           *)
(***************************************************************************)
EXTENDS Session

\* The two signals an operator sends; SIGPIPE is in Handlers already.
MCSignals == {"SIGINT", "SIGTERM"}
MCOneSignal == {"SIGINT"}
=============================================================================
