----------------------------- MODULE MCOperation -----------------------------
(* The instance of Operation that TLC checks: every combination of options,  *)
(* two concurrent requests. MCOperationCache.cfg and MCOperationPanic.cfg    *)
(* check what the documentation says and the code does not do.               *)
EXTENDS Operation

AllConfigurations == SUBSET Options
=============================================================================
