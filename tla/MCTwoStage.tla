----------------------------- MODULE MCTwoStage -----------------------------
(* An instance of TwoStage with the log limiter only. *)
EXTENDS TwoStage

HookList == <<"log">>
=============================================================================
