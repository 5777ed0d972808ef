---------------------------- MODULE MCSessionTurns ----------------------------
(* Small instances of SessionTurns for TLC.                                 *)
EXTENDS SessionTurns

CONSTANTS t1, t2, stop, a, b, r1

=============================================================================
