-------------------------- MODULE MeetupClaimProofs --------------------------
(***************************************************************************)
(* Proofs about the meetup commands of the client (module MeetupClaim),   *)
(* for every set of participants, every phase duration, time origin,      *)
(* longitude scale, list of locations and ceremony bound.                  *)
(***************************************************************************)
EXTENDS MeetupClaim, TLAPS

(***************************************************************************)
(* The scheduler's bookkeeping: in ASSIGNING the phase ends when the       *)
(* ceremony's ATTESTING begins, and in ATTESTING it ends one attesting     *)
(* duration after that.  This is what AttestingStart inverts.              *)
(***************************************************************************)
SchedInv ==
    /\ phase = "ASSIGNING" => attestingStart[cindex] = nextPhaseTimestamp
    /\ phase = "ATTESTING" =>
          attestingStart[cindex] = nextPhaseTimestamp - PhaseDuration["ATTESTING"]

(***************************************************************************)
(* What participant p's command has read, step by step, while the          *)
(* scheduler has not moved: an index other than 0 was read outside         *)
(* REGISTERING and is its assignment; the timestamp read is still the      *)
(* chain's; the time computed is the meetup time of the current ceremony;  *)
(* and a printed claim names a ceremony whose ATTESTING start the          *)
(* scheduler will not rewrite (an earlier one, or the current one while it *)
(* is past REGISTERING).  A command that failed with an index within the  *)
(* locations failed in get_meetup_time's REGISTERING panic, which only a  *)
(* moved scheduler reaches.                                               *)
(***************************************************************************)
ReadsAfterIndex == {"location", "timestamp", "phase", "cindex"}

LocalInv(p) ==
    /\ pc[p] \in ReadsAfterIndex => mindex[p] = MeetupOf[p]
    /\ pc[p] \in ReadsAfterIndex /\ ~moved[p] => phase # "REGISTERING"
    /\ pc[p] = "phase" /\ ~moved[p] => npts[p] = nextPhaseTimestamp
    /\ pc[p] = "cindex" /\ ~moved[p] =>
          mtime[p] = MeetupTime(attestingStart[cindex], mlocation[p])
    /\ pc[p] = "done" /\ cmd[p] = "new-claim" /\ ~moved[p] =>
          /\ claim[p].meetup_index = MeetupOf[p]
          /\ claim[p].timestamp =
               MeetupTime(attestingStart[claim[p].ceremony_index], claim[p].location)
          /\ claim[p].ceremony_index \in 1..cindex
          /\ claim[p].ceremony_index = cindex => phase # "REGISTERING"
    /\ pc[p] = "failed" /\ mindex[p] \in 1..(Len(Locations) - 1) => moved[p]

\* The inductive invariant behind StableClaimIsOfCeremony.
IInv == TypeOK /\ SchedInv /\ \A p \in Participants : LocalInv(p)

-----------------------------------------------------------------------------
(***************************************************************************)
(* Type correctness.                                                       *)
(***************************************************************************)

\* The meetup time of get_meetup_time is an integer for every integer
\* attesting start and longitude.
LEMMA MeetupTimeType ==
    ASSUME NEW a \in Int, NEW l \in Int
    PROVE  MeetupTime(a, l) \in Int
  BY OneDayAssumption, LonScaleAssumption
     DEF MeetupTime, MeetupOffset, TruncDiv, RoundLon

\* The locations read are integers.
LEMMA LonsInt == Lons \subseteq Int
  BY LocationsAssumption DEF Lons

\* NoClaim is a claim whenever there is a participant to choose.
LEMMA NoClaimType ==
    ASSUME NEW p \in Participants
    PROVE  NoClaim \in Claims
  <1>1. (CHOOSE q \in Participants : TRUE) \in Participants
    BY Zenon
  <1> QED
    BY <1>1 DEF NoClaim, Claims

LEMMA InitTypeOK == Init => TypeOK
  <1> SUFFICES ASSUME Init PROVE TypeOK
    OBVIOUS
  <1>1. \A p \in Participants : NoClaim \in Claims
    BY NoClaimType
  <1>2. 0 \in Lons
    BY DEF Lons
  <1>3. claim \in [Participants -> Claims]
    BY <1>1 DEF Init
  <1>4. \A p \in Participants : claim[p].ceremony_index \in 0..MaxCeremonyIndex
    <2>1. \A p \in Participants : claim[p].ceremony_index = 0
      BY Zenon DEF Init, NoClaim
    <2>2. 0 \in 0..MaxCeremonyIndex
      BY MaxCeremonyIndexAssumption
    <2> QED
      BY <2>1, <2>2, Zenon
  <1>5. nextPhaseTimestamp \in Nat /\ attestingStart \in [1..MaxCeremonyIndex -> Nat]
    BY DurationAssumption, StartAssumption DEF Init, Phases
  <1>6. registered \in [Participants -> Seq(Attestations)]
    BY DEF Init
  <1> QED
    BY <1>2, <1>3, <1>4, <1>5, <1>6, MaxCeremonyIndexAssumption
       DEF Init, TypeOK, Steps, Phases

LEMMA NextTypeOK == TypeOK /\ [Next]_vars => TypeOK'
  <1> SUFFICES ASSUME TypeOK, [Next]_vars PROVE TypeOK'
    OBVIOUS
  <1>1. CASE SchedulerNextPhase
    <2>1. NextPhase(phase) \in Phases
      BY DEF TypeOK, NextPhase, Phases
    <2>2. nextPhaseTimestamp' \in Nat
      BY <1>1, <2>1, DurationAssumption DEF SchedulerNextPhase, SchedulerStep, TypeOK
    <2>3. cindex' \in 1..MaxCeremonyIndex
      BY <1>1, MaxCeremonyIndexAssumption DEF SchedulerNextPhase, SchedulerStep, TypeOK
    <2>4. attestingStart' \in [1..MaxCeremonyIndex -> Nat]
      BY <1>1, <2>1, <2>2 DEF SchedulerNextPhase, SchedulerStep, TypeOK
    <2>5. moved' \in [Participants -> BOOLEAN]
      BY <1>1 DEF SchedulerNextPhase, SchedulerStep, TypeOK
    <2> QED
      BY <1>1, <2>1, <2>2, <2>3, <2>4, <2>5
         DEF SchedulerNextPhase, SchedulerStep, TypeOK, localVars
  <1>2. ASSUME NEW p \in Participants, NEW c \in {"get-meetup", "new-claim"},
               Start(p, c)
        PROVE  TypeOK'
    <2>1. 0 \in Lons
      BY DEF Lons
    <2> QED
      BY <1>2, <2>1 DEF Start, TypeOK, Steps, chainVars
  <1>3. ASSUME NEW p \in Participants, ReadMeetupIndex(p) PROVE TypeOK'
    BY <1>3, DurationAssumption, MeetupOfAssumption
       DEF ReadMeetupIndex, meetup_index, TypeOK, Steps, chainVars
  <1>4. ASSUME NEW p \in Participants, ReadMeetupLocation(p) PROVE TypeOK'
    <2>1. mindex[p] < Len(Locations) => get_meetup_location(mindex[p]) \in Lons
      <3> SUFFICES ASSUME mindex[p] < Len(Locations)
                   PROVE  get_meetup_location(mindex[p]) \in Lons
        OBVIOUS
      <3>1. mindex[p] + 1 \in 1..Len(Locations)
        BY LocationsAssumption DEF TypeOK
      <3> QED
        BY <3>1 DEF get_meetup_location, Lons
    <2> QED
      BY <1>4, <2>1 DEF ReadMeetupLocation, TypeOK, Steps, chainVars
  <1>5. ASSUME NEW p \in Participants, ReadNextPhaseTimestamp(p) PROVE TypeOK'
    BY <1>5 DEF ReadNextPhaseTimestamp, TypeOK, Steps, chainVars
  <1>6. ASSUME NEW p \in Participants, ReadPhase(p) PROVE TypeOK'
    <2>1. AttestingStart(phase, npts[p]) \in Int
      BY DurationAssumption DEF AttestingStart, TypeOK, Phases
    <2>2. MeetupTime(AttestingStart(phase, npts[p]), mlocation[p]) \in Int
      BY <2>1, MeetupTimeType, LonsInt DEF TypeOK
    <2> QED
      BY <1>6, <2>2 DEF ReadPhase, TypeOK, Steps, chainVars
  <1>7. ASSUME NEW p \in Participants, ReadCeremonyIndex(p) PROVE TypeOK'
    <2>1. [claimant |-> p, ceremony_index |-> cindex, meetup_index |-> mindex[p],
           location |-> mlocation[p], timestamp |-> mtime[p]] \in Claims
      <3>1. mlocation[p] \in Int /\ mtime[p] \in Int /\ mindex[p] \in Nat
        BY LonsInt DEF TypeOK
      <3>2. cindex \in Nat
        BY DEF TypeOK
      <3> QED
        BY <3>1, <3>2 DEF Claims
    <2> QED
      BY <1>7, <2>1 DEF ReadCeremonyIndex, TypeOK, Steps, chainVars, localVars
  <1>8. ASSUME NEW p \in Participants, RegisterAttestations(p) PROVE TypeOK'
    <2>1. PICK x, y \in attestations[p] : registered' = [registered EXCEPT ![p] = <<x, y>>]
      BY <1>8 DEF RegisterAttestations
    <2>2. <<x, y>> \in Seq(Attestations)
      BY <2>1 DEF TypeOK
    <2> QED
      BY <1>8, <2>1, <2>2 DEF RegisterAttestations, TypeOK, chainVars, localVars
  <1>9. ASSUME NEW a \in Participants, NEW b \in Participants, SignClaim(b, a)
        PROVE  TypeOK'
    <2>1. sign_claim(claim[a], b) \in Attestations
      BY DEF TypeOK, sign_claim, Attestations
    <2> QED
      BY <1>9, <2>1 DEF SignClaim, TypeOK, chainVars, localVars
  <1>10. CASE UNCHANGED vars
    BY <1>10 DEF vars, TypeOK, chainVars, localVars
  <1> QED
    BY <1>1, <1>2, <1>3, <1>4, <1>5, <1>6, <1>7, <1>8, <1>9, <1>10
       DEF Next, GetMeetup, NewClaim

(***************************************************************************)
(* Every state the clients and the scheduler reach is well typed: the      *)
(* location a client reads is one of the currency's (or 0 before it reads),*)
(* the meetup time it computes is an integer, and a printed claim names a  *)
(* ceremony the scheduler has reached.                                     *)
(***************************************************************************)
THEOREM MeetupClaimTypeCorrect == Spec => []TypeOK
  BY InitTypeOK, NextTypeOK, PTL DEF Spec

-----------------------------------------------------------------------------
(***************************************************************************)
(* The claim of an undisturbed new-claim.                                  *)
(***************************************************************************)

LEMMA InitIInv == Init => IInv
  <1> SUFFICES ASSUME Init PROVE IInv
    OBVIOUS
  <1>1. TypeOK
    BY InitTypeOK
  <1>2. SchedInv
    BY DEF Init, SchedInv
  <1>3. \A p \in Participants : LocalInv(p)
    BY DEF Init, LocalInv, ReadsAfterIndex
  <1> QED
    BY <1>1, <1>2, <1>3 DEF IInv

\* The scheduler's step keeps its bookkeeping.
LEMMA SchedulerSchedInv ==
    ASSUME TypeOK, SchedInv, SchedulerNextPhase
    PROVE  SchedInv'
  <1> USE DEF SchedulerNextPhase, SchedulerStep, TypeOK, Phases, NextPhase
  <1>1. CASE phase = "REGISTERING"
    BY <1>1, DurationAssumption DEF SchedInv
  <1>2. CASE phase = "ASSIGNING"
    BY <1>2, DurationAssumption DEF SchedInv
  <1>3. CASE phase = "ATTESTING"
    BY <1>3 DEF SchedInv
  <1> QED
    BY <1>1, <1>2, <1>3

\* The scheduler's step keeps what each client has read: a client in the
\* middle of its reads is marked moved, and a printed claim's ceremony is
\* one whose ATTESTING start the step does not rewrite.
LEMMA SchedulerLocalInv ==
    ASSUME TypeOK, NEW p \in Participants, LocalInv(p), SchedulerNextPhase
    PROVE  LocalInv(p)'
  <1> USE DEF SchedulerNextPhase, SchedulerStep, localVars
  <1>1. pc[p] \in ReadsAfterIndex => moved'[p]
    BY DEF Running, ReadsAfterIndex
  <1>2. pc[p] = "done" => moved'[p] = moved[p]
    BY DEF Running, TypeOK
  <1>10. moved[p] => moved'[p]
    BY DEF Running
  <1>3. ASSUME pc[p] = "done", cmd[p] = "new-claim", ~moved[p]
        PROVE  /\ attestingStart'[claim[p].ceremony_index]
                    = attestingStart[claim[p].ceremony_index]
               /\ claim[p].ceremony_index \in 1..cindex'
               /\ claim[p].ceremony_index = cindex' => phase' # "REGISTERING"
    <2> DEFINE c == claim[p].ceremony_index
    <2>1. c \in 1..cindex /\ (c = cindex => phase # "REGISTERING")
      BY <1>3 DEF LocalInv
    <2>2. CASE phase = "REGISTERING"
      BY <2>1, <2>2 DEF TypeOK, NextPhase
    <2>3. CASE phase = "ASSIGNING"
      BY <2>1, <2>3 DEF NextPhase
    <2>4. CASE phase = "ATTESTING"
      BY <2>1, <2>4 DEF NextPhase, TypeOK
    <2> QED
      BY <2>2, <2>3, <2>4 DEF TypeOK, Phases
  <1>4. UNCHANGED <<pc, cmd, mindex, mlocation, npts, mtime, claim>>
    OBVIOUS
  <1>5. (pc[p] \in ReadsAfterIndex => mindex[p] = MeetupOf[p])'
    BY <1>4 DEF LocalInv
  <1>6. (pc[p] \in ReadsAfterIndex /\ ~moved[p] => phase # "REGISTERING")'
    BY <1>1, <1>4
  <1>7. (pc[p] = "phase" /\ ~moved[p] => npts[p] = nextPhaseTimestamp)'
    BY <1>1, <1>4 DEF ReadsAfterIndex
  <1>8. (pc[p] = "cindex" /\ ~moved[p] =>
           mtime[p] = MeetupTime(attestingStart[cindex], mlocation[p]))'
    BY <1>1, <1>4 DEF ReadsAfterIndex
  <1>9. (pc[p] = "done" /\ cmd[p] = "new-claim" /\ ~moved[p] =>
          /\ claim[p].meetup_index = MeetupOf[p]
          /\ claim[p].timestamp =
               MeetupTime(attestingStart[claim[p].ceremony_index], claim[p].location)
          /\ claim[p].ceremony_index \in 1..cindex
          /\ claim[p].ceremony_index = cindex => phase # "REGISTERING")'
    <2> SUFFICES ASSUME pc[p] = "done", cmd[p] = "new-claim", ~moved[p]
                 PROVE  /\ claim[p].meetup_index = MeetupOf[p]
                        /\ claim[p].timestamp =
                             MeetupTime(attestingStart'[claim[p].ceremony_index],
                                        claim[p].location)
                        /\ claim[p].ceremony_index \in 1..cindex'
                        /\ claim[p].ceremony_index = cindex' => phase' # "REGISTERING"
      BY <1>2, <1>4
    <2>1. /\ claim[p].meetup_index = MeetupOf[p]
          /\ claim[p].timestamp =
               MeetupTime(attestingStart[claim[p].ceremony_index], claim[p].location)
      BY DEF LocalInv
    <2> QED
      BY <1>3, <2>1
  <1>11. (pc[p] = "failed" /\ mindex[p] \in 1..(Len(Locations) - 1) => moved[p])'
    BY <1>4, <1>10 DEF LocalInv
  <1> QED
    BY <1>5, <1>6, <1>7, <1>8, <1>9, <1>11 DEF LocalInv

\* A step that leaves the chain and participant q's command alone keeps
\* what q has read.
LEMMA LocalFrame ==
    ASSUME NEW q \in Participants, LocalInv(q),
           UNCHANGED chainVars,
           pc'[q] = pc[q], cmd'[q] = cmd[q], mindex'[q] = mindex[q],
           mlocation'[q] = mlocation[q], npts'[q] = npts[q], mtime'[q] = mtime[q],
           claim'[q] = claim[q], moved'[q] = moved[q]
    PROVE  LocalInv(q)'
  BY DEF LocalInv, chainVars

\* Reading the meetup index: an index other than 0 is read outside
\* REGISTERING and is the participant's assignment.
LEMMA ReadMeetupIndexLocal ==
    ASSUME TypeOK, NEW p \in Participants, ReadMeetupIndex(p)
    PROVE  LocalInv(p)'
  <1>1. CASE meetup_index(p) = 0
    BY <1>1 DEF ReadMeetupIndex, TypeOK, LocalInv, ReadsAfterIndex
  <1>2. CASE meetup_index(p) # 0
    <2>1. phase # "REGISTERING" /\ meetup_index(p) = MeetupOf[p]
      BY <1>2 DEF meetup_index
    <2>2. pc'[p] = "location" /\ mindex'[p] = MeetupOf[p]
      BY <1>2, <2>1 DEF ReadMeetupIndex, TypeOK
    <2> QED
      BY <2>2, <2>1 DEF ReadMeetupIndex, chainVars, LocalInv, ReadsAfterIndex
  <1> QED
    BY <1>1, <1>2

\* Reading the location keeps the index read and ends get-meetup.
LEMMA ReadMeetupLocationLocal ==
    ASSUME TypeOK, NEW p \in Participants, LocalInv(p), ReadMeetupLocation(p)
    PROVE  LocalInv(p)'
  <1>1. pc'[p] \in {"done", "timestamp", "failed"}
        /\ (pc'[p] = "done" => cmd[p] = "get-meetup")
        /\ (pc'[p] = "failed" => mindex[p] >= Len(Locations))
    BY DEF ReadMeetupLocation, TypeOK
  <1>2. pc[p] \in ReadsAfterIndex
    BY DEF ReadMeetupLocation, ReadsAfterIndex
  <1> QED
    BY <1>1, <1>2 DEF ReadMeetupLocation, chainVars, LocalInv, ReadsAfterIndex

\* Reading NextPhaseTimestamp: the value read is the chain's.
LEMMA ReadNextPhaseTimestampLocal ==
    ASSUME TypeOK, NEW p \in Participants, LocalInv(p), ReadNextPhaseTimestamp(p)
    PROVE  LocalInv(p)'
  <1>1. pc'[p] = "phase" /\ npts'[p] = nextPhaseTimestamp
    BY DEF ReadNextPhaseTimestamp, TypeOK
  <1> QED
    BY <1>1 DEF ReadNextPhaseTimestamp, chainVars, LocalInv, ReadsAfterIndex

\* Reading the phase: outside REGISTERING, AttestingStart recovers the
\* current ceremony's ATTESTING start from the timestamp read.
LEMMA ReadPhaseLocal ==
    ASSUME TypeOK, SchedInv, NEW p \in Participants, LocalInv(p), ReadPhase(p)
    PROVE  LocalInv(p)'
  <1>1. CASE phase = "REGISTERING"
    BY <1>1 DEF ReadPhase, TypeOK, chainVars, LocalInv, ReadsAfterIndex
  <1>2. CASE phase # "REGISTERING"
    <2>1. pc'[p] = "cindex"
          /\ mtime'[p] = MeetupTime(AttestingStart(phase, npts[p]), mlocation[p])
      BY <1>2 DEF ReadPhase, TypeOK
    <2>2. ~moved[p] => AttestingStart(phase, npts[p]) = attestingStart[cindex]
      BY <1>2 DEF ReadPhase, LocalInv, SchedInv, AttestingStart, TypeOK, Phases
    <2> QED
      BY <2>1, <2>2 DEF ReadPhase, chainVars, LocalInv, ReadsAfterIndex
  <1> QED
    BY <1>1, <1>2

\* Printing the claim: it carries what was read while the scheduler stood.
LEMMA ReadCeremonyIndexLocal ==
    ASSUME TypeOK, NEW p \in Participants, LocalInv(p), ReadCeremonyIndex(p)
    PROVE  LocalInv(p)'
  <1>1. pc'[p] = "done"
        /\ claim'[p] = [claimant |-> p, ceremony_index |-> cindex,
                        meetup_index |-> mindex[p], location |-> mlocation[p],
                        timestamp |-> mtime[p]]
    BY DEF ReadCeremonyIndex, TypeOK
  <1>2. pc[p] \in ReadsAfterIndex
    BY DEF ReadCeremonyIndex, ReadsAfterIndex
  <1>3. cindex \in 1..cindex
    BY DEF TypeOK
  <1> QED
    BY <1>1, <1>2, <1>3 DEF ReadCeremonyIndex, chainVars, localVars, LocalInv,
                            ReadsAfterIndex

LEMMA NextIInv == IInv /\ [Next]_vars => IInv'
  <1> SUFFICES ASSUME IInv, [Next]_vars PROVE IInv'
    OBVIOUS
  <1>0. TypeOK /\ SchedInv /\ \A q \in Participants : LocalInv(q)
    BY DEF IInv
  <1>1. TypeOK'
    BY <1>0, NextTypeOK
  <1>2. CASE SchedulerNextPhase
    BY <1>0, <1>1, <1>2, SchedulerSchedInv, SchedulerLocalInv DEF IInv
  \* The other steps leave the chain alone, and every participant but the
  \* one that steps.
  <1>3. ASSUME NEW p \in Participants,
               \/ \E c \in {"get-meetup", "new-claim"} : Start(p, c)
               \/ ReadMeetupIndex(p) \/ ReadMeetupLocation(p)
               \/ ReadNextPhaseTimestamp(p) \/ ReadPhase(p) \/ ReadCeremonyIndex(p)
        PROVE  IInv'
    <2>1. UNCHANGED chainVars
      BY <1>3 DEF Start, ReadMeetupIndex, ReadMeetupLocation, ReadNextPhaseTimestamp,
                  ReadPhase, ReadCeremonyIndex
    <2>2. SchedInv'
      BY <1>0, <2>1 DEF SchedInv, chainVars
    <2>3. ASSUME NEW q \in Participants, q # p PROVE LocalInv(q)'
      <3>1. /\ pc'[q] = pc[q] /\ cmd'[q] = cmd[q] /\ mindex'[q] = mindex[q]
            /\ mlocation'[q] = mlocation[q] /\ npts'[q] = npts[q]
            /\ mtime'[q] = mtime[q] /\ claim'[q] = claim[q] /\ moved'[q] = moved[q]
        BY <1>0, <1>3, <2>3
           DEF Start, ReadMeetupIndex, ReadMeetupLocation, ReadNextPhaseTimestamp,
               ReadPhase, ReadCeremonyIndex, TypeOK, localVars
      <3> QED
        BY <1>0, <2>1, <3>1, LocalFrame
    <2>4. LocalInv(p)'
      <3>1. CASE \E c \in {"get-meetup", "new-claim"} : Start(p, c)
        <4>1. pc'[p] = "index"
          BY <3>1, <1>0 DEF Start, TypeOK
        <4> QED
          BY <4>1 DEF LocalInv, ReadsAfterIndex
      <3>2. CASE ReadMeetupIndex(p)
        BY <1>0, <3>2, ReadMeetupIndexLocal
      <3>3. CASE ReadMeetupLocation(p)
        BY <1>0, <3>3, ReadMeetupLocationLocal
      <3>4. CASE ReadNextPhaseTimestamp(p)
        BY <1>0, <3>4, ReadNextPhaseTimestampLocal
      <3>5. CASE ReadPhase(p)
        BY <1>0, <3>5, ReadPhaseLocal
      <3>6. CASE ReadCeremonyIndex(p)
        BY <1>0, <3>6, ReadCeremonyIndexLocal
      <3> QED
        BY <1>3, <3>1, <3>2, <3>3, <3>4, <3>5, <3>6
    <2> QED
      BY <1>1, <2>2, <2>3, <2>4 DEF IInv
  \* Signing and registering attestations touch no command's reads.
  <1>4. ASSUME UNCHANGED <<chainVars, pc, localVars, claim, moved>> PROVE IInv'
    <2>1. ASSUME NEW q \in Participants PROVE LocalInv(q)'
      BY <1>0, <1>4, LocalFrame DEF localVars
    <2> QED
      BY <1>0, <1>1, <1>4, <2>1 DEF IInv, SchedInv, chainVars
  <1>5. QED
    <2>1. CASE \E p \in Participants : RegisterAttestations(p)
      BY <2>1, <1>4 DEF RegisterAttestations
    <2>2. CASE \E a, b \in Participants : SignClaim(b, a)
      BY <2>2, <1>4 DEF SignClaim
    <2>3. CASE UNCHANGED vars
      BY <2>3, <1>4 DEF vars
    <2> QED
      BY <1>2, <1>3, <2>1, <2>2, <2>3 DEF Next, GetMeetup, NewClaim

(***************************************************************************)
(* When the scheduler does not move while new-claim runs, the printed      *)
(* claim is for the participant's assigned meetup and carries the meetup  *)
(* time of the ATTESTING phase of the ceremony it names, in every          *)
(* instance: cli.rs's four reads agree when nothing steps between them.   *)
(***************************************************************************)
THEOREM StableClaimIsOfCeremonyHolds == Spec => []StableClaimIsOfCeremony
  <1>1. IInv => StableClaimIsOfCeremony
    BY DEF IInv, LocalInv, StableClaimIsOfCeremony
  <1> QED
    BY <1>1, InitIInv, NextIInv, PTL DEF Spec


(***************************************************************************)
(* get_meetup_time's REGISTERING panic (cli.rs:730) is reached, by a       *)
(* command whose index and location reads were good, only when the         *)
(* scheduler stepped while the command ran, in every instance.             *)
(***************************************************************************)
THEOREM PanicOnlyWhenMovedHolds == Spec => []PanicOnlyWhenMoved
  <1>1. IInv => PanicOnlyWhenMoved
    BY DEF IInv, LocalInv, PanicOnlyWhenMoved
  <1> QED
    BY <1>1, InitIInv, NextIInv, PTL DEF Spec

=============================================================================
