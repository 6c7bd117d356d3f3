---------------------------- MODULE MCLibraryBloc ----------------------------
(* Library lists and practice counts on small instances.                    *)
EXTENDS LibraryBloc
=============================================================================
