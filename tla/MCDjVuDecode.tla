---------------------------- MODULE MCDjVuDecode ----------------------------
(* Two pages that share a dictionary.                                       *)
EXTENDS DjVuDecode

CONSTANTS p1, p2, d1

OnePage == [p \in {p1} |-> <<d1>>]
TwoPages == [p \in {p1, p2} |-> <<d1>>]

\* Nothing is damaged, or a page's shapes, or the dictionary in its shapes or after them.
OneDamaged == {{}, {<<p1, "Sjbz">>}, {<<d1, "Djbz">>}, {<<d1, "ANTz">>}}
=============================================================================
