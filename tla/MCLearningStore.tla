--------------------------- MODULE MCLearningStore ---------------------------
(* The store over two sources: highlights that absorb each other, and words  *)
(* with anchors.                                                             *)
EXTENDS LearningStore, TLC

\* Highlights, words and sources are only ever compared for equality.
Symmetry == Permutations(TextHighlights) \cup Permutations(Words) \cup Permutations(Sources)
=============================================================================
