------------------------------- MODULE Ledger -------------------------------
(***************************************************************************)
(* What the enclave's state promises to its users (spec 4.3), without     *)
(* nonces, storage keys, the public chain or panics: per currency, a      *)
(* balance moves only by a transfer its sender can cover, which takes the *)
(* amount from the sender and gives it to the receiver; a participant's   *)
(* registration for a ceremony is made once and never undone.  Module Stf *)
(* implements it (Stf!LedgerRefinement).                                   *)
(***************************************************************************)
EXTENDS Naturals

CONSTANTS Accounts, Cids, Amounts, CeremonyIndices, GenesisBalance

VARIABLES
    balance,     \* [Cids -> [Accounts -> Nat]]
    registered   \* set of <<cid, cindex, account>>

vars == <<balance, registered>>

Init ==
    /\ balance = GenesisBalance
    /\ registered = {}

\* Balances after v is taken from one account and then given to another
\* (the credit sees the debit, so a self-transfer changes nothing).  Two
\* one-clause EXCEPTs: TLC and tlapm read @ in a later clause of one
\* EXCEPT differently when the paths coincide.
Moved(b, cid, from, to, v) ==
    LET debited == [b EXCEPT ![cid][from] = @ - v]
    IN  [debited EXCEPT ![cid][to] = @ + v]

\* encointer_balances::transfer as a user sees it: the debit and the credit
\* happen together, and only when the sender's balance covers the amount.
Transfer(cid, from, to, v) ==
    /\ balance[cid][from] >= v
    /\ balance' = Moved(balance, cid, from, to, v)
    /\ UNCHANGED registered

\* encointer_ceremonies::register_participant: a new registration.
Register(cid, c, a) ==
    /\ <<cid, c, a>> \notin registered
    /\ registered' = registered \cup {<<cid, c, a>>}
    /\ UNCHANGED balance

Next ==
    \/ \E cid \in Cids, from, to \in Accounts, v \in Amounts : Transfer(cid, from, to, v)
    \/ \E cid \in Cids, c \in CeremonyIndices, a \in Accounts : Register(cid, c, a)

Spec == Init /\ [][Next]_vars

=============================================================================
