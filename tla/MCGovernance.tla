---------------------------- MODULE MCGovernance ----------------------------
(* Governance for TLC: an application with two categories of its own, one  *)
(* of which shares the code of a server fault, and handlers that return    *)
(* every shape of error.                                                   *)
EXTENDS Governance

MCCustomCode == [quota_used |-> "ResourceExhausted", ledger_down |-> "Unavailable"]

MCHandlerErrors ==
  {AppError("quota_used", "own"), AppError("ledger_down", "own"),
   ContextError("deadline_exceeded"),
   StatusError("Unauthenticated", "", "own"), PlainError}
=============================================================================
