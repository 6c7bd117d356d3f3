---------------------------- MODULE MCReaderSearch ----------------------------
(* Two queries over a book, and over an article.                             *)
EXTENDS ReaderSearch
=============================================================================
