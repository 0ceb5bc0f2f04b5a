---------------------------- MODULE MCMotorCache ----------------------------
(* Small instances of MotorCache: who commands which motor.                 *)
EXTENDS MotorCache

CONSTANTS t1, t2

\* One thread commands both motors, or each motor has its thread.
Alone == [t \in Thread |-> IF t = t1 THEN {0, 1} ELSE {}]
Each  == [t \in Thread |-> IF t = t1 THEN {0} ELSE {1}]

MCInstances ==
  [over : {FALSE}, team : {Alone, Each}, uses : {{"power", "direction", "sdk"}}]
  \cup [over : {TRUE}, team : {Alone, Each}, uses : {{"power", "sdk"}}]
  \cup [over : {FALSE}, team : {Each}, uses : {{"behavior", "sdk"}}]

=============================================================================
