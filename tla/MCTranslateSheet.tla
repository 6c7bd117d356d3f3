-------------------------- MODULE MCTranslateSheet --------------------------
(* Two languages, one of them the language of the book.                     *)
EXTENDS TranslateSheet

CONSTANTS en, de

OnePair == {<<en, de>>}

\* Right for the target en, and in the wrong language for de.
EnglishAnswer == {[detected |-> de, target |-> en, offline |-> FALSE]}
=============================================================================
