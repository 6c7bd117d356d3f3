--------------------------- MODULE MCReviewSession ---------------------------
(* Sessions over a word and one or two highlights, with limits small enough  *)
(* to be reached.                                                            *)
EXTENDS ReviewSession
=============================================================================
