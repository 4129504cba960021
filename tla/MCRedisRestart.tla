---------------------------- MODULE MCRedisRestart ----------------------------
(***************************************************************************)
(* A small instance of RedisRestart for TLC.                               *)
(***************************************************************************)
EXTENDS MCFlashSale, RedisRestart

=============================================================================
