------------------------------- MODULE MC_Stf -------------------------------
(***************************************************************************)
(* Small instance of Stf: two incognito accounts, one of which (a2) also  *)
(* has a public account, one currency, and up to three accepted calls per *)
(* account.  MC_Stf.cfg takes 1-bit nonces, so that nonce + 1 overflows    *)
(* after two calls; MC_Stf_replay_chain.cfg takes 2-bit nonces, which no   *)
(* account's own three calls wrap, so a replay there comes from the sync.  *)
(***************************************************************************)
EXTENDS Stf

CONSTANTS a1, a2, c1

MCAccounts == {a1, a2}
MCChainAccounts == {a2}
MCNoChainAccounts == {}
MCCids == {c1}
MCGenesis == [c \in {c1} |-> [a \in {a1, a2} |-> 1]]

=============================================================================
