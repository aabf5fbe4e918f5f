------------------------------- MODULE Callers -------------------------------
(* The RPCs in flight, shared by the modules of the interceptor chain.     *)
CONSTANT Calls  \* goroutines that may each be running one RPC of the method
=============================================================================
