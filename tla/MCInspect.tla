------------------------------ MODULE MCInspect ------------------------------
(***************************************************************************)
(* A small instance of Inspect for TLC.                                    *)
(***************************************************************************)
EXTENDS MCFlashSale, Inspect

=============================================================================
