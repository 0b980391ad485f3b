---------------------------- MODULE MCLwpControl ----------------------------
(* Two or three LWPs, for TLC.                                             *)
EXTENDS LwpControl
=============================================================================
