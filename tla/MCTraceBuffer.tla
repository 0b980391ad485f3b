--------------------------- MODULE MCTraceBuffer ---------------------------
(* A small trace buffer, for TLC.                                          *)
EXTENDS TraceBuffer
=============================================================================
