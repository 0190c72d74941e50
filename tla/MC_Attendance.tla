---------------------------- MODULE MC_Attendance ----------------------------
(* Two participants, two currencies, three ceremonies: a proof can be      *)
(* relabelled to the other currency, the other ceremony and the other      *)
(* prover.                                                                 *)
EXTENDS Attendance

CONSTANTS u1, u2, cidA, cidB

MCParticipants == {u1, u2}
MCCids == {cidA, cidB}
=============================================================================
