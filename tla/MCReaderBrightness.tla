-------------------------- MODULE MCReaderBrightness --------------------------
(* Two levels, and a device set to either: the reader's above, at or below it. *)
EXTENDS ReaderBrightness
=============================================================================
