---------------------------- MODULE MCStopNotif -----------------------------
(* A few threads in one or two processes, for TLC.                         *)
EXTENDS StopNotif, TLC

CONSTANTS t1, t2, t3, t4, p1, p2

SomeThreads == {t1, t2, t3}
AllThreads == {t1, t2, t3, t4}
OneProcess == [t \in SomeThreads |-> p1]
TwoProcesses == [t \in AllThreads |-> IF t \in {t1, t2} THEN p1 ELSE p2]
=============================================================================
