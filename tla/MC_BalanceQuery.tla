---------------------------- MODULE MC_BalanceQuery ----------------------------
(***************************************************************************)
(* Small instance of BalanceQuery: balances 0 and 1, three enclave block  *)
(* numbers, and 4-byte block numbers (u32).                               *)
(***************************************************************************)
EXTENDS BalanceQuery
=============================================================================
