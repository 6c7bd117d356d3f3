-------------------------- MODULE MCReaderPosition --------------------------
(* Three reports over two positions, a retry and one failure of each kind.    *)
EXTENDS ReaderPosition
=============================================================================
