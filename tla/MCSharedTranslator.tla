------------------------- MODULE MCSharedTranslator -------------------------
(* Three overlapping requests over two language pairs: enough for a pair to *)
(* change while one request holds the old pair and another the new one.     *)
EXTENDS SharedTranslator
=============================================================================
