---------------------------- MODULE MCThreadPool ----------------------------
(* A small pool for TLC.  LocalMax is below the number of threads, so that *)
(* both limits of ThreadsFor are met; threads are not declared symmetric,  *)
(* because the run also checks liveness.                                   *)
EXTENDS ThreadPool

CONSTANTS t1, t2, t3, t4

Workers == {t1, t2, t3, t4}
=============================================================================
