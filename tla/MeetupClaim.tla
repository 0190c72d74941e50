---------------------------- MODULE MeetupClaim ----------------------------
(***************************************************************************)
(* The client's meetup commands (src/stf/src/cli.rs: "get-meetup",         *)
(* "new-claim", "sign-claim", "register-attestations"), one client per     *)
(* participant, against the public chain's ceremony scheduler.             *)
(*                                                                         *)
(* The command builds a ClaimOfAttendance from four separate reads: the    *)
(* participant's meetup index (a trusted getter answered by the enclave),  *)
(* the meetup locations of the currency, the scheduler's                   *)
(* NextPhaseTimestamp and CurrentPhase (get_meetup_time), and the          *)
(* CurrentCeremonyIndex.  Each read is its own request to the node, and    *)
(* the scheduler moves on by itself, so every read is its own step here    *)
(* and the chain may step between any two of them.                         *)
(*                                                                         *)
(* The scheduler pallet is not part of this repository; its phase cycle    *)
(* is modelled from the phase and timestamp semantics get_meetup_time      *)
(* relies on.                                                              *)
(***************************************************************************)
EXTENDS Integers, Sequences

CONSTANTS
    Participants,    \* accounts that may run the command
    OneDay,          \* ONE_DAY of the node runtime, in timestamp units
    PhaseDuration,   \* PhaseDurations of the scheduler, per phase
    StartTimestamp,  \* the scheduler's time origin
    LonScale,        \* longitudes are fixed-point: lon = l / LonScale degrees
    Locations,       \* EncointerCurrencies::Locations of the currency
    MeetupOf,        \* the meetup the enclave assigned to each participant, 0 = none
    MaxCeremonyIndex \* bound on the ceremony index the scheduler reaches

Phases == {"REGISTERING", "ASSIGNING", "ATTESTING"}

ASSUME OneDayAssumption == OneDay \in Nat \ {0} /\ OneDay % 360 = 0
ASSUME DurationAssumption == PhaseDuration \in [Phases -> Nat \ {0}]
ASSUME StartAssumption == StartTimestamp \in Nat
ASSUME LonScaleAssumption == LonScale \in Nat \ {0}
ASSUME LocationsAssumption == Locations \in Seq(Int)
ASSUME MeetupOfAssumption == MeetupOf \in [Participants -> Nat]
ASSUME MaxCeremonyIndexAssumption == MaxCeremonyIndex \in Nat \ {0}

(***************************************************************************)
(* Integer helpers for the f64 arithmetic of get_meetup_time.  f64::round  *)
(* rounds half away from zero; "as i64" truncates toward zero.            *)
(***************************************************************************)
TruncDiv(n, d) == IF n >= 0 THEN n \div d ELSE -((-n) \div d)

RoundLon(l) ==
    IF l >= 0 THEN (2 * l + LonScale) \div (2 * LonScale)
              ELSE -((2 * (-l) + LonScale) \div (2 * LonScale))

\* The longitude offset (mlon * ONE_DAY / 360.0) as i64.
MeetupOffset(l) == TruncDiv(RoundLon(l) * OneDay, 360)

\* The longitudes stay within [-180, 180] degrees, so the meetup time never
\* goes below zero and the final "as Moment" cast is the identity.
ASSUME LonAssumption ==
    \A i \in 1..Len(Locations) : RoundLon(Locations[i]) \in -180..180

\* The meetup time of get_meetup_time for an attesting start.
MeetupTime(attesting_start, l) == attesting_start + OneDay \div 2 - MeetupOffset(l)

NextPhase(p) ==
    IF p = "REGISTERING" THEN "ASSIGNING"
    ELSE IF p = "ASSIGNING" THEN "ATTESTING"
    ELSE "REGISTERING"

Steps == {"idle", "index", "location", "timestamp", "phase", "cindex", "done", "failed"}

\* A ClaimOfAttendance; NoClaim before the participant printed one.
Claims == [claimant : Participants, ceremony_index : Nat, meetup_index : Nat,
           location : Int, timestamp : Int]
NoClaim == [claimant |-> CHOOSE p \in Participants : TRUE, ceremony_index |-> 0,
            meetup_index |-> 0, location |-> 0, timestamp |-> 0]

VARIABLES
    phase,               \* EncointerScheduler::CurrentPhase
    cindex,              \* EncointerScheduler::CurrentCeremonyIndex
    nextPhaseTimestamp,  \* EncointerScheduler::NextPhaseTimestamp
    attestingStart,      \* history: when ATTESTING of each ceremony begins
    pc,                  \* per participant: where its command is
    cmd,                 \* per participant: "get-meetup" or "new-claim"
    mindex,              \* per participant: m_index read from the enclave
    mlocation,           \* per participant: what get_meetup_location returned
    npts,                \* per participant: next_phase_timestamp read
    mtime,               \* per participant: the meetup time computed
    claim,               \* per participant: the last claim it printed
    attestations,        \* per participant: attestations others made of its claim
    registered,          \* per participant: attestations it registered
    moved                \* history, per participant: the scheduler stepped
                         \* while its command ran

chainVars == <<phase, cindex, nextPhaseTimestamp, attestingStart>>
localVars == <<cmd, mindex, mlocation, npts, mtime>>
vars == <<chainVars, pc, localVars, claim, attestations, registered, moved>>

Init ==
    /\ phase = "REGISTERING"
    /\ cindex = 1
    /\ nextPhaseTimestamp = StartTimestamp + PhaseDuration["REGISTERING"]
    /\ attestingStart = [c \in 1..MaxCeremonyIndex |-> 0]
    /\ pc = [p \in Participants |-> "idle"]
    /\ cmd = [p \in Participants |-> "new-claim"]
    /\ mindex = [p \in Participants |-> 0]
    /\ mlocation = [p \in Participants |-> 0]
    /\ npts = [p \in Participants |-> 0]
    /\ mtime = [p \in Participants |-> 0]
    /\ claim = [p \in Participants |-> NoClaim]
    /\ attestations = [p \in Participants |-> {}]
    /\ registered = [p \in Participants |-> <<>>]
    /\ moved = [p \in Participants |-> FALSE]

Running(p) == pc[p] \notin {"idle", "done", "failed"}

(***************************************************************************)
(* The scheduler: at NextPhaseTimestamp it enters the next phase and sets  *)
(* the timestamp at which that phase ends; leaving ATTESTING starts the    *)
(* next ceremony.  Entering ASSIGNING fixes when ATTESTING begins.         *)
(***************************************************************************)
SchedulerStep ==
    LET p == NextPhase(phase)
        t == nextPhaseTimestamp + PhaseDuration[p]
    IN  /\ phase' = p
        /\ nextPhaseTimestamp' = t
        /\ cindex' = IF phase = "ATTESTING" THEN cindex + 1 ELSE cindex
        /\ attestingStart' = IF p = "ASSIGNING"
                             THEN [attestingStart EXCEPT ![cindex] = t]
                             ELSE attestingStart
        /\ moved' = [q \in Participants |-> moved[q] \/ Running(q)]
        /\ UNCHANGED <<pc, localVars, claim, attestations, registered>>

SchedulerNextPhase ==
    /\ phase = "ATTESTING" => cindex < MaxCeremonyIndex
    /\ SchedulerStep

(***************************************************************************)
(* The enclave's answer to TrustedGetter::meetup_index: the assignment of  *)
(* the current ceremony, 0 before meetups are assigned.                    *)
(***************************************************************************)
\* Mutant: the enclave answers the assignment in every phase.
meetup_index_AnyPhase(p) == MeetupOf[p]

meetup_index(p) == IF phase \in {"ASSIGNING", "ATTESTING"} THEN MeetupOf[p] ELSE 0

\* Participant p starts "get-meetup" or "new-claim"; the locals start fresh.
Start(p, c) ==
    /\ pc[p] \in {"idle", "done", "failed"}
    /\ pc' = [pc EXCEPT ![p] = "index"]
    /\ cmd' = [cmd EXCEPT ![p] = c]
    /\ mindex' = [mindex EXCEPT ![p] = 0]
    /\ mlocation' = [mlocation EXCEPT ![p] = 0]
    /\ npts' = [npts EXCEPT ![p] = 0]
    /\ mtime' = [mtime EXCEPT ![p] = 0]
    /\ moved' = [moved EXCEPT ![p] = FALSE]
    /\ UNCHANGED <<chainVars, claim, attestations, registered>>

\* "get-meetup": get_meetup_index_and_location, then print the index.
GetMeetup(p) == Start(p, "get-meetup")

\* "new-claim": get_meetup_index_and_location, get_meetup_time, the index.
NewClaim(p) ==
    /\ Start(p, "new-claim")

(***************************************************************************)
(* get_meetup_index_and_location, first half: the meetup index comes from *)
(* the enclave; index 0 returns Err, on which both commands panic.         *)
(***************************************************************************)
ReadMeetupIndex(p) ==
    /\ pc[p] = "index"
    /\ mindex' = [mindex EXCEPT ![p] = meetup_index(p)]
    /\ pc' = [pc EXCEPT ![p] = IF meetup_index(p) = 0 THEN "failed" ELSE "location"]
    /\ UNCHANGED <<chainVars, cmd, mlocation, npts, mtime, claim, attestations,
                   registered, moved>>

(***************************************************************************)
(* get_meetup_location: locs[m_index as usize] indexes the Vec from 0 with *)
(* the meetup index; past its end the indexing panics.  get-meetup ends    *)
(* here, printing the index.                                               *)
(***************************************************************************)
get_meetup_location(m) == Locations[m + 1]

ReadMeetupLocation(p) ==
    /\ pc[p] = "location"
    /\ IF mindex[p] < Len(Locations)
       THEN /\ mlocation' = [mlocation EXCEPT ![p] = get_meetup_location(mindex[p])]
            /\ pc' = [pc EXCEPT ![p] = IF cmd[p] = "get-meetup" THEN "done"
                                       ELSE "timestamp"]
       ELSE /\ pc' = [pc EXCEPT ![p] = "failed"]
            /\ UNCHANGED mlocation
    /\ UNCHANGED <<chainVars, cmd, mindex, npts, mtime, claim, attestations,
                   registered, moved>>

\* get_meetup_time reads NextPhaseTimestamp ...
ReadNextPhaseTimestamp(p) ==
    /\ pc[p] = "timestamp"
    /\ npts' = [npts EXCEPT ![p] = nextPhaseTimestamp]
    /\ pc' = [pc EXCEPT ![p] = "phase"]
    /\ UNCHANGED <<chainVars, cmd, mindex, mlocation, mtime, claim, attestations,
                   registered, moved>>

(***************************************************************************)
(* ... then the phase (get_current_phase) and, in ATTESTING, the attesting *)
(* duration; REGISTERING panics.                                           *)
(***************************************************************************)
AttestingStart(ph, ts) ==
    IF ph = "ASSIGNING" THEN ts ELSE ts - PhaseDuration["ATTESTING"]

\* Mutant: the ATTESTING branch forgets to subtract the attesting duration.
ReadPhaseNoSubtract(p) ==
    /\ pc[p] = "phase"
    /\ IF phase = "REGISTERING"
       THEN /\ pc' = [pc EXCEPT ![p] = "failed"]
            /\ UNCHANGED mtime
       ELSE /\ mtime' = [mtime EXCEPT ![p] = MeetupTime(npts[p], mlocation[p])]
            /\ pc' = [pc EXCEPT ![p] = "cindex"]
    /\ UNCHANGED <<chainVars, cmd, mindex, mlocation, npts, claim, attestations,
                   registered, moved>>

ReadPhase(p) ==
    /\ pc[p] = "phase"
    /\ IF phase = "REGISTERING"
       THEN /\ pc' = [pc EXCEPT ![p] = "failed"]
            /\ UNCHANGED mtime
       ELSE /\ mtime' = [mtime EXCEPT ![p] =
                   MeetupTime(AttestingStart(phase, npts[p]), mlocation[p])]
            /\ pc' = [pc EXCEPT ![p] = "cindex"]
    /\ UNCHANGED <<chainVars, cmd, mindex, mlocation, npts, claim, attestations,
                   registered, moved>>

(***************************************************************************)
(* new-claim reads CurrentCeremonyIndex last and prints the claim; the     *)
(* attestations the participant held were for its previous claim.         *)
(***************************************************************************)
ReadCeremonyIndex(p) ==
    /\ pc[p] = "cindex"
    /\ claim' = [claim EXCEPT ![p] =
                   [claimant |-> p, ceremony_index |-> cindex,
                    meetup_index |-> mindex[p], location |-> mlocation[p],
                    timestamp |-> mtime[p]]]
    /\ attestations' = [attestations EXCEPT ![p] = {}]
    /\ pc' = [pc EXCEPT ![p] = "done"]
    /\ UNCHANGED <<chainVars, localVars, registered, moved>>

(***************************************************************************)
(* "sign-claim" / sign_claim: signer b signs the claim a printed and hands *)
(* the Attestation {claim, signature, public: b} back to a.  A signature   *)
(* is the pair of signer and signed payload.                               *)
(***************************************************************************)
sign_claim(c, b) == [claim |-> c, signature |-> [signer |-> b, payload |-> c],
                     public |-> b]

SignClaim(b, a) ==
    /\ claim[a] # NoClaim
    /\ attestations' = [attestations EXCEPT ![a] = @ \cup {sign_claim(claim[a], b)}]
    /\ UNCHANGED <<chainVars, pc, localVars, claim, registered, moved>>

(***************************************************************************)
(* "register-attestations": at least two attestation arguments (clap's     *)
(* min_values(2)), each decoded and sent in one trusted call.  The list    *)
(* is taken as given: nothing compares attesters or drops repeats.         *)
(***************************************************************************)
RegisterAttestations(a) ==
    /\ \E x, y \in attestations[a] :
          registered' = [registered EXCEPT ![a] = <<x, y>>]
    /\ UNCHANGED <<chainVars, pc, localVars, claim, attestations, moved>>

Next ==
    \/ SchedulerNextPhase
    \/ \E p \in Participants :
          \/ GetMeetup(p)
          \/ NewClaim(p)
          \/ ReadMeetupIndex(p)
          \/ ReadMeetupLocation(p)
          \/ ReadNextPhaseTimestamp(p)
          \/ ReadPhase(p)
          \/ ReadCeremonyIndex(p)
          \/ RegisterAttestations(p)
    \/ \E a, b \in Participants : SignClaim(b, a)

Spec == Init /\ [][Next]_vars

-----------------------------------------------------------------------------
Lons == {Locations[i] : i \in 1..Len(Locations)} \cup {0}

Attestations == [claim : Claims, signature : [signer : Participants, payload : Claims],
                 public : Participants]

\* Type invariant: the scheduler's state and what each client has read,
\* printed and collected.
TypeOK ==
    /\ phase \in Phases
    /\ cindex \in 1..MaxCeremonyIndex
    /\ nextPhaseTimestamp \in Nat
    /\ attestingStart \in [1..MaxCeremonyIndex -> Nat]
    /\ pc \in [Participants -> Steps]
    /\ cmd \in [Participants -> {"get-meetup", "new-claim"}]
    /\ mindex \in [Participants -> Nat]
    /\ mlocation \in [Participants -> Lons]
    /\ npts \in [Participants -> Nat]
    /\ mtime \in [Participants -> Int]
    /\ claim \in [Participants -> Claims]
    /\ \A p \in Participants : claim[p].ceremony_index \in 0..MaxCeremonyIndex
    /\ attestations \in [Participants -> SUBSET Attestations]
    /\ registered \in [Participants -> Seq(Attestations)]
    /\ moved \in [Participants -> BOOLEAN]

(***************************************************************************)
(* When the scheduler does not move while new-claim runs, the claim is for *)
(* the participant's assigned meetup and its time is the meetup time of    *)
(* that ceremony's attesting phase at the claimed longitude, whichever of  *)
(* ASSIGNING or ATTESTING the command ran in.                              *)
(***************************************************************************)
StableClaimIsOfCeremony ==
    \A p \in Participants :
        pc[p] = "done" /\ cmd[p] = "new-claim" /\ ~moved[p] =>
            /\ claim[p].meetup_index = MeetupOf[p]
            /\ claim[p].timestamp =
                 MeetupTime(attestingStart[claim[p].ceremony_index], claim[p].location)

(***************************************************************************)
(* get_meetup_time panics in REGISTERING (cli.rs:730), after the index     *)
(* and the location were read.  A command whose meetup index and location  *)
(* were good (m_index within Locations) ends in that panic only when the   *)
(* scheduler stepped while it ran: the enclave answers a meetup index only *)
(* in ASSIGNING or ATTESTING, so the panic is the race and never a          *)
(* participant asking in the wrong phase without noticing.                 *)
(***************************************************************************)
PanicOnlyWhenMoved ==
    \A p \in Participants :
        pc[p] = "failed" /\ mindex[p] \in 1..(Len(Locations) - 1) => moved[p]

(***************************************************************************)
(* What a ClaimOfAttendance should say: its time is the meetup time of the *)
(* ceremony it names, whenever new-claim ran.                              *)
(***************************************************************************)
ClaimIsOfCeremony ==
    \A p \in Participants : claim[p] # NoClaim =>
        claim[p].timestamp =
            MeetupTime(attestingStart[claim[p].ceremony_index], claim[p].location)

(***************************************************************************)
(* A claim carries the location of the meetup it names: meetup m of the    *)
(* currency is the m-th of its Locations (meetup indices start at 1).      *)
(***************************************************************************)
ClaimLocationOfMeetup ==
    \A p \in Participants : claim[p] # NoClaim =>
        claim[p].location = Locations[claim[p].meetup_index]

=============================================================================
