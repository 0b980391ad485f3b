----------------------------- MODULE MCRspLink ------------------------------
(* A short conversation over the link, for TLC.                            *)
EXTENDS RspLink
=============================================================================
