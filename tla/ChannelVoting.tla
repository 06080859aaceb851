--------------------------- MODULE ChannelVoting ---------------------------
(***************************************************************************)
(* The redundant channel set of tpt-core/src/redundancy.rs: N dissimilar   *)
(* channels submit reports to a RedundantComputer at their own pace, and a *)
(* voter may reduce whatever reports are there at any moment.              *)
(*                                                                         *)
(* Votes are pure reads (&self), so they are operators on `reports`, and   *)
(* what a vote promises is an invariant: it is to hold whenever the vote   *)
(* is taken, also halfway through a frame, with some reports one frame     *)
(* old.  A report value is an integer (Votable for f64); a voted value is  *)
(* a fraction, since averages are.  Channel i of the code is i + 1 here.   *)
(***************************************************************************)
EXTENDS Integers, Sequences, FiniteSetsExt, Functions

CONSTANTS
  ChannelCount,  \* N: number of channels
  MaxChannels,   \* MAX_CHANNELS, the size of the voters' scratch buffer
  MinHealthyMid, \* MidValueSelect::min_healthy
  MinHealthyCon, \* Consensus::min_healthy
  Tolerance,     \* tolerance of Consensus and MonitorVoter
  Monitor,       \* the dissimilar monitor channel (monitor_index + 1)
  Truths,        \* values the correct output can take, frame after frame
  Drift,         \* how far the correct output moves in one frame
  Noise,         \* how far a correct channel may be off in its own frame
  Wild,          \* values a faulty channel may submit
  MaxFaults      \* bound on the number of channels that fail

ASSUME ChannelVotingAssumption ==
  /\ ChannelCount \in Nat \ {0} /\ MaxChannels \in Nat \ {0}
  /\ MinHealthyMid \in Nat \ {0} /\ MinHealthyCon \in Nat \ {0}
  /\ Tolerance \in Nat /\ Monitor \in Nat \ {0}
  /\ Truths \subseteq Int /\ Truths # {} /\ Wild \subseteq Int
  /\ Drift \in Nat /\ Noise \in Nat /\ MaxFaults \in Nat

VARIABLES
  reports, \* RedundantComputer.reports
  fault,   \* fault[c]: "none", "rogue" (submits anything), "silent" (stopped)
  truth,   \* the output a correct channel computes in the current frame
  fresh    \* channels that have submitted in the current frame

votingVars == <<reports, fault, truth, fresh>>

Channel == 1 .. ChannelCount
Report == [value : Int, healthy : BOOLEAN]

Abs(x) == IF x < 0 THEN -x ELSE x
Neutral == <<0, 1>>

(* |a - b| <= t for fractions a, b with positive denominators. *)
Within(a, b, t) == Abs(a[1] * b[2] - b[1] * a[2]) <= t * a[2] * b[2]
Whole(x) == <<x, 1>>

Voted(value, status) == [value |-> value, status |-> status]

-----------------------------------------------------------------------------
(* Votable::disagreement for f64. *)
Disagreement(a, b) == Abs(a - b)

(* The members of a set of numbers, in ascending order. *)
InOrder(S) ==
  [k \in 1 .. Cardinality(S) |-> CHOOSE i \in S : Cardinality({j \in S : j < i}) = k - 1]

(* healthy_values: the healthy values in channel order, at most MaxChannels. *)
HealthyLanes(rs) == {i \in DOMAIN rs : rs[i].healthy}
HealthyValues(rs) ==
  LET lanes == InOrder(HealthyLanes(rs))
  IN  [k \in 1 .. Min({Len(lanes), MaxChannels}) |-> rs[lanes[k]].value]

MaxPairwiseDisagreement(vals) ==
  Max({0} \cup {Disagreement(vals[i], vals[j]) : i, j \in DOMAIN vals})

(* most_central_index: least summed disagreement, the first one on a tie. *)
Score(vals, i) ==
  SumFunction([j \in DOMAIN vals |-> Disagreement(vals[i], vals[j])])

MostCentralIndex(vals) ==
  Min({i \in DOMAIN vals :
         \A j \in DOMAIN vals : Score(vals, i) <= Score(vals, j)})

(* average: the running-weight mean, exactly sum / count. *)
Average(vals) ==
  IF vals = <<>> THEN Neutral
  ELSE <<SumFunction(vals), Len(vals)>>

-----------------------------------------------------------------------------
(* MidValueSelect::vote *)
Mut_MidValueAnyCount(rs) ==
  LET vals == HealthyValues(rs) IN
  IF vals = <<>> THEN Voted(Neutral, "InsufficientChannels")
  ELSE Voted(Whole(vals[MostCentralIndex(vals)]), "Agreement")

MidValueSelect(rs) ==
  LET vals == HealthyValues(rs) IN
  IF Len(vals) < MinHealthyMid THEN Voted(Neutral, "InsufficientChannels")
  ELSE Voted(Whole(vals[MostCentralIndex(vals)]), "Agreement")

(* Consensus::vote *)
Consensus(rs) ==
  LET vals == HealthyValues(rs) IN
  IF Len(vals) < MinHealthyCon THEN Voted(Neutral, "InsufficientChannels")
  ELSE IF MaxPairwiseDisagreement(vals) <= Tolerance
       THEN Voted(Average(vals), "Agreement")
       ELSE Voted(Neutral, "Disagreement")

(* MonitorVoter::vote.  The active lanes are the healthy channels other     *)
(* than the monitor; a healthy monitor must corroborate their average.      *)
MonitorHealthy(rs) == Monitor \in DOMAIN rs /\ rs[Monitor].healthy
ActiveValues(rs) ==
  LET n == Len(HealthyValues(rs)) - (IF MonitorHealthy(rs) THEN 1 ELSE 0)
      lanes == InOrder(HealthyLanes(rs) \ {Monitor})
  IN [k \in 1 .. n |-> rs[lanes[k]].value]

Corroborated(rs, active) ==
  Within(Whole(rs[Monitor].value), Average(active), Tolerance)

Mut_MonitorVoteTrustsActive(rs) ==
  LET vals == HealthyValues(rs)
      active == ActiveValues(rs)
      lanesAgree == MaxPairwiseDisagreement(active) <= Tolerance
  IN IF Len(vals) < 2 \/ active = <<>>
     THEN Voted(Neutral, "InsufficientChannels")
     ELSE IF MonitorHealthy(rs) /\ ~lanesAgree /\ ~Corroborated(rs, active)
     THEN Voted(Neutral, "MonitorVeto")
     ELSE Voted(IF MonitorHealthy(rs) THEN Average(active)
                ELSE Whole(vals[MostCentralIndex(vals)]),
                IF lanesAgree THEN "Agreement" ELSE "Disagreement")

MonitorVote(rs) ==
  LET vals == HealthyValues(rs)
      active == ActiveValues(rs)
      lanesAgree == MaxPairwiseDisagreement(active) <= Tolerance
  IN IF Len(vals) < 2 \/ active = <<>>
     THEN Voted(Neutral, "InsufficientChannels")
     ELSE IF MonitorHealthy(rs) /\ ~Corroborated(rs, active)
     THEN Voted(Neutral, "MonitorVeto")
     ELSE Voted(IF MonitorHealthy(rs) THEN Average(active)
                ELSE Whole(vals[MostCentralIndex(vals)]),
                IF lanesAgree THEN "Agreement" ELSE "Disagreement")

-----------------------------------------------------------------------------
(* RedundantComputer::new: every channel unhealthy at the neutral value. *)
VotingInit ==
  /\ reports = [c \in Channel |-> [value |-> 0, healthy |-> FALSE]]
  /\ fault = [c \in Channel |-> "none"]
  /\ truth \in Truths
  /\ fresh = {}

(* RedundantComputer::submit; a channel out of range is ignored. *)
Submit(ch, value, isHealthy) ==
  reports' = IF ch \in DOMAIN reports
             THEN [reports EXCEPT ![ch] = [value |-> value, healthy |-> isHealthy]]
             ELSE reports

(* A correct channel submits once a frame, near the correct output. *)
SubmitCorrect(c) ==
  /\ fault[c] = "none" /\ c \notin fresh
  /\ \E v \in (truth - Noise) .. (truth + Noise) : Submit(c, v, TRUE)
  /\ fresh' = fresh \cup {c}
  /\ UNCHANGED <<fault, truth>>

(* A rogue channel submits any value and any verdict on its own health, and  *)
(* may even name a channel that does not exist.                              *)
SubmitRogue(c) ==
  /\ fault[c] = "rogue"
  /\ \E ch \in {c, ChannelCount + 1}, v \in Wild, ok \in BOOLEAN : Submit(ch, v, ok)
  /\ UNCHANGED <<fault, truth, fresh>>

(* A channel starts misbehaving; a silent one leaves its last report behind. *)
Fail(c, kind) ==
  /\ fault[c] = "none"
  /\ Cardinality({d \in Channel : fault[d] # "none"}) < MaxFaults
  /\ fault' = [fault EXCEPT ![c] = kind]
  /\ UNCHANGED <<reports, truth, fresh>>

(* The next frame starts once every correct channel has reported. *)
NextFrame ==
  /\ \A c \in Channel : fault[c] = "none" => c \in fresh
  /\ truth' \in {t \in Truths : Abs(t - truth) <= Drift}
  /\ fresh' = {}
  /\ UNCHANGED <<reports, fault>>

VotingNext ==
  \/ \E c \in Channel : SubmitCorrect(c)
  \/ \E c \in Channel : SubmitRogue(c)
  \/ \E c \in Channel, kind \in {"rogue", "silent"} : Fail(c, kind)
  \/ NextFrame

VotingSpec == VotingInit /\ [][VotingNext]_votingVars

-----------------------------------------------------------------------------
(* Mid-value select tracks the correct output to one frame's drift as long   *)
(* as a single faulty channel (runaway, stuck or silent) still counts as     *)
(* healthy, in a quad set or in the triple one a lost channel leaves, and at *)
(* whatever moment of the frame the vote is taken.                           *)
MidValueMasksOneFault ==
  LET r == MidValueSelect(reports)
      believed == {c \in Channel : fault[c] # "none" /\ reports[c].healthy}
  IN r.status = "Agreement" /\ Cardinality(believed) <= 1
       => Within(r.value, Whole(truth), Noise + Drift)

(* Agreement means what it says for every voter that uses a tolerance: the   *)
(* value handed on is within the tolerance of each healthy report that took  *)
(* part, the monitor's included.                                             *)
AgreementIsNearEveryReport ==
  \A r \in {Consensus(reports), MonitorVote(reports)} :
    r.status = "Agreement" =>
      \A v \in Range(HealthyValues(reports)) : Within(r.value, Whole(v), Tolerance)

-----------------------------------------------------------------------------
(* Documented: "If at least min_healthy channels agree within tolerance ...  *)
(* the averaged value is returned with Agreement" (redundancy.rs:225, of     *)
(* Consensus).                                                               *)
QuorumSuffices ==
  (\E S \in SUBSET Channel :
     /\ Cardinality(S) >= MinHealthyCon
     /\ \A c \in S : reports[c].healthy
     /\ \A c, d \in S :
          Disagreement(reports[c].value, reports[d].value) <= Tolerance)
  => Consensus(reports).status = "Agreement"

=============================================================================
