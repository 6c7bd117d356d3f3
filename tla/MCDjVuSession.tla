---------------------------- MODULE MCDjVuSession ----------------------------
(* A book of which three pages are asked for.                                *)
EXTENDS DjVuSession
=============================================================================
