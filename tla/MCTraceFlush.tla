---------------------------- MODULE MCTraceFlush ----------------------------
(* A small buffer of the in-process agent, for TLC.                        *)
EXTENDS TraceFlush
=============================================================================
