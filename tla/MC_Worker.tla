------------------------------ MODULE MC_Worker ------------------------------
(***************************************************************************)
(* Small instance of Worker: a private account a1 and an account a2 with a *)
(* public System::Account entry, one currency, 2-bit nonces (no wrap       *)
(* within the bounds), a queue of two and up to three commands.            *)
(***************************************************************************)
EXTENDS Worker

CONSTANTS a1, a2, c1

MCAccounts == {a1, a2}
MCChainAccounts == {a2}
MCCids == {c1}
MCGenesis == [c \in {c1} |-> [a \in {a1, a2} |-> 1]]
=============================================================================
