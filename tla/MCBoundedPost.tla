--------------------------- MODULE MCBoundedPost ---------------------------
(* A budget of three bytes and chunks that may exceed it at once.           *)
EXTENDS BoundedPost
=============================================================================
