---------------------------------- MODULE Null ----------------------------------
(***************************************************************************)
(* The null of the tables interop reads and writes.                        *)
(***************************************************************************)
CONSTANT None
=============================================================================
