------------------------------- MODULE Review -------------------------------
(***************************************************************************)
(* The nightly review (review_pipeline.py) and one strategy parameter of   *)
(* config.json.  A night first applies the next step of a pending rollout, *)
(* in two writes of the file, then lets the models discuss, and last       *)
(* writes the proposal: an outlier is rolled out over three nights, a      *)
(* change that the backtest finds worse is kept at the old value, and      *)
(* every write is capped at 15 % and held within absolute bounds.          *)
(*                                                                         *)
(* What the models say, whether the log makes the proposal an outlier and  *)
(* what the backtest finds are left open.  Values are integers; a rollout  *)
(* concerns a change that is a multiple of ten, so that its steps are too. *)
(***************************************************************************)
EXTENDS Integers, FiniteSetsExt

CONSTANTS
  FirstValue,     \* the value of the parameter before the first night
  Lower, Upper,   \* PARAMETER_ABSOLUTE_BOUNDS
  MinStep,        \* PARAMETER_MIN_STEP
  Rises, Falls,   \* by how much a night may propose to raise or lower it
  MaxProposals,   \* bound: nights that end with a proposal
  MaxTornNights   \* bound: nights that are killed or fail to write

Total == 3                                  \* ROLLOUT_TOTAL_DAYS
Tenths(day) == IF day = 1 THEN 3 ELSE IF day = 2 THEN 6 ELSE 10 \* ROLLOUT_RATIOS

ASSUME ReviewAssumption ==
  /\ Lower \in Nat \ {0} /\ Upper \in Nat /\ FirstValue \in Lower..Upper
  /\ MinStep \in Nat \ {0} /\ MaxProposals \in Nat /\ MaxTornNights \in Nat
  /\ \A d \in Rises \cup Falls : d \in Nat \ {0} /\ (d < MinStep \/ d % 10 = 0)

Deltas == Rises \cup {-d : d \in Falls}
Abs(n) == IF n < 0 THEN -n ELSE n

NoRollout == [status |-> "none"]

VARIABLES
  night,     \* "day", "rollouts", "written", "discussion"
  value,     \* config.json: the parameter
  pending,   \* config.json: the entry of pending_rollouts
  mine,      \* current_config: the copy the night works on
  rolled,    \* the entry as apply_daily_rollouts is about to save it
  proposals, \* bounds
  torn,
  refused    \* history: the target of the last proposal, when the backtest refused it

reviewVars == <<night, value, pending, mine, rolled, proposals, torn, refused>>

NoTarget == 0

ReviewInit ==
  /\ night = "day" /\ value = FirstValue /\ pending = NoRollout
  /\ mine = [value |-> FirstValue, pending |-> NoRollout] /\ rolled = NoRollout
  /\ proposals = 0 /\ torn = 0 /\ refused = NoTarget

Within(v) == Max({Lower, Min({v, Upper})})

\* clamp_profile_changes: too large a change is dropped, then the bounds hold.
TooFar(old, new) == 100 * Abs(new - old) > 15 * old
Allowed(old, new) == Within(IF TooFar(old, new) THEN old ELSE new)

Target(entry, day) ==
  entry.start + ((entry.target - entry.start) * Tenths(IF day >= Total THEN Total ELSE day)) \div 10

BeginNight ==
  /\ night = "day"
  /\ mine' = [value |-> value, pending |-> pending]
  /\ night' = IF pending = NoRollout THEN "discussion" ELSE "rollouts"
  /\ UNCHANGED <<value, pending, rolled, proposals, torn, refused>>

\* Mutant: the step is applied and its day is not counted.
Stepped_NotCounted(entry, old) ==
  LET day == entry.day + 1 IN
  IF TooFar(old, Target(entry, day)) THEN [entry EXCEPT !.status = "reverted"]
  ELSE IF day >= Total THEN NoRollout
  ELSE entry

\* What becomes of an entry when its next step was tried on the value old.
Stepped(entry, old) ==
  LET day == entry.day + 1 IN
  IF TooFar(old, Target(entry, day)) THEN [entry EXCEPT !.status = "reverted"]
  ELSE IF day >= Total THEN NoRollout
  ELSE [entry EXCEPT !.day = day]

\* apply_daily_rollouts, first write: the parameter.
ApplyRollout ==
  /\ night = "rollouts"
  /\ value' = Allowed(value, Target(pending, pending.day + 1))
  /\ rolled' = Stepped(pending, value)
  /\ night' = "written"
  /\ UNCHANGED <<pending, mine, proposals, torn, refused>>

\* Second write: the entries.  The night reads the file again.
SavePending ==
  /\ night = "written"
  /\ pending' = rolled
  /\ mine' = [value |-> value, pending |-> rolled]
  /\ night' = "discussion"
  /\ UNCHANGED <<value, rolled, proposals, torn, refused>>

\* A write of apply_daily_rollouts fails: the night goes on with the copy it
\* read before.
RolloutsFail ==
  /\ night \in {"rollouts", "written"}
  /\ torn < MaxTornNights /\ torn' = torn + 1
  /\ night' = "discussion"
  /\ UNCHANGED <<value, pending, mine, rolled, proposals, refused>>

\* A model cannot be reached, its answers stay invalid, it renames a profile,
\* it changes nothing, or the last write fails: the night ends here.
NoProposal ==
  /\ night = "discussion"
  /\ night' = "day"
  /\ UNCHANGED <<value, pending, mine, rolled, proposals, torn, refused>>

\* The process is killed between the two writes.  The lock file that it leaves
\* is older than two hours, hence ignored, when the next night begins.
NightKilled ==
  /\ night \in {"rollouts", "written"}
  /\ torn < MaxTornNights /\ torn' = torn + 1
  /\ night' = "day"
  /\ UNCHANGED <<value, pending, mine, rolled, proposals, refused>>

Rollout(d) ==
  [status |-> "in_progress", start |-> mine.value, target |-> mine.value + d, day |-> 1]

\* The proposal of the night: rolled out if it is an outlier, checked by the
\* backtest with the value of tonight, and written together with the entries.
Propose(d) ==
  /\ night = "discussion" /\ proposals < MaxProposals
  /\ mine.value + d > 0
  /\ \E outlier, gated \in BOOLEAN :
       LET slow == outlier /\ Abs(d) >= MinStep
           tonight == mine.value + (IF slow THEN (d * Tenths(1)) \div 10 ELSE d) IN
         /\ value' = IF gated THEN Within(mine.value) ELSE Allowed(mine.value, tonight)
         /\ pending' = IF slow THEN Rollout(d) ELSE mine.pending
         /\ refused' = IF gated THEN mine.value + d ELSE NoTarget
  /\ proposals' = proposals + 1
  /\ night' = "day"
  /\ UNCHANGED <<mine, rolled, torn>>

ReviewNext ==
  \/ BeginNight \/ ApplyRollout \/ SavePending \/ RolloutsFail
  \/ NoProposal \/ NightKilled \/ \E d \in Deltas : Propose(d)

ReviewStep == BeginNight \/ ApplyRollout \/ SavePending \/ NoProposal

ReviewSpec == ReviewInit /\ [][ReviewNext]_reviewVars /\ WF_reviewVars(ReviewStep)

-----------------------------------------------------------------------------

Entries == {NoRollout} \cup [status : {"in_progress", "reverted"}, start : Nat, target : Nat, day : 1..2]

ReviewTypeOK ==
  /\ night \in {"day", "rollouts", "written", "discussion"}
  /\ value \in Lower..Upper /\ mine.value \in Lower..Upper
  /\ pending \in Entries /\ rolled \in Entries /\ mine.pending \in Entries
  /\ refused \in Nat

(***************************************************************************)
(* A rollout that apply_daily_rollouts keeps in config.json ends: it       *)
(* reaches its target in so many nights, or one of its steps is over the   *)
(* cap and marks it reverted.  Nights that end early, that are killed      *)
(* between the two writes, or that replace the entry do not leave one      *)
(* behind that repeats the same step forever.                              *)
(***************************************************************************)
RolloutEnds == (pending.status = "in_progress") ~> (pending.status # "in_progress")

(***************************************************************************)
(* A change that the backtest refused is not applied, as the manual says   *)
(* of the backtest: the value of config.json does not move on behalf of a  *)
(* rollout whose target was refused.  The refusal resets the value of the  *)
(* night and leaves the entry, whose next steps nobody checks.             *)
(***************************************************************************)
GateHolds ==
  [][ refused # NoTarget /\ night = "rollouts" /\ value' # value
      => pending.target # refused ]_reviewVars
=============================================================================
