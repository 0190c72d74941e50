--------------------------- MODULE MC_MeetupClaim ---------------------------
(* A small instance of MeetupClaim: three participants, one assigned to    *)
(* each of two meetups and one unassigned, longitudes in half degrees     *)
(* whose rounding is not the identity, and phase durations that differ.  *)
EXTENDS MeetupClaim, TLC

CONSTANTS p1, p2, p3

MCParticipants == {p1, p2, p3}
\* Two participants, for the runs that include the attestation exchange.
MCPair == {p1, p2}
MCPhaseDuration == [ph \in Phases |->
                      IF ph = "REGISTERING" THEN 720
                      ELSE IF ph = "ASSIGNING" THEN 360 ELSE 1440]
MCLocations == <<1, -3>>
MCMeetupOf == (p1 :> 1) @@ (p2 :> 2) @@ (p3 :> 0)
MCPairMeetupOf == (p1 :> 1) @@ (p2 :> 2)
=============================================================================
