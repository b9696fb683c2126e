----------------------------- MODULE MCLifecycle -----------------------------
(* The instance of Lifecycle that TLC checks: two Serve calls one after the   *)
(* other, two concurrent Shutdown calls at a time, hooks registered at any    *)
(* moment.                                                                    *)
EXTENDS Lifecycle
=============================================================================
