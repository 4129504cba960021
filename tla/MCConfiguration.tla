--------------------------- MODULE MCConfiguration ---------------------------
(***************************************************************************)
(* A small instance of Configuration for TLC.                              *)
(***************************************************************************)
EXTENDS Configuration

MCNumber == -1 .. 5

=============================================================================
