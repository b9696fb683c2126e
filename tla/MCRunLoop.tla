------------------------------ MODULE MCRunLoop ------------------------------
(* The instance of RunLoop that TLC checks, in the two configurations          *)
(* MCRunLoop.cfg (what holds) and MCRunLoopSignal.cfg (what the documentation  *)
(* says of every signal, which an early one refutes).                          *)
EXTENDS RunLoop
=============================================================================
