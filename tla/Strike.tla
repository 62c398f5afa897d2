------------------------------- MODULE Strike -------------------------------
(***************************************************************************)
(* The strike rule of one user (strike.py), the per-user policy that       *)
(* decides whether a rule violation stops the account (poller.py), and the *)
(* rule that decides whether an alert is sent (notify.py).                 *)
(*                                                                         *)
(* A reading is abstracted to how it compares with the user's effective    *)
(* limit: "over", "under" (at or below), or "none" (the fetch failed, the  *)
(* user is not listed, or the value is not a number).  The time of a       *)
(* temporary stop is the number of minutes it still has to run.            *)
(***************************************************************************)
EXTENDS Integers

CONSTANTS
    StrikeCount,     \* config.strike_count
    AutoStop,        \* config.auto_stop_enabled
    NotifyEnabled,   \* config.notify_enabled
    NoTime           \* stopped_until = None

ASSUME StrikeCountAssumption == StrikeCount \in Nat \ {0}
ASSUME AutoStopAssumption == AutoStop \in BOOLEAN
ASSUME NotifyEnabledAssumption == NotifyEnabled \in BOOLEAN
ASSUME NoTimeAssumption == NoTime \notin Nat

Actions  == {"global", "stop", "notify", "ignore"}
Statuses == {"ok", "flagged", "stopped"}
Readings == {"over", "under", "none"}

Minutes   == Nat \cup {NoTime}
UserState == [strikes : Nat, status : Statuses, until : Minutes]

(* UserStrikeState(): what get_user's callers use for an unknown user.      *)
Fresh == [strikes |-> 0, status |-> "ok", until |-> NoTime]

-----------------------------------------------------------------------------

EffectiveAutoStop(action) ==
    action = "stop" \/ (action = "global" /\ AutoStop)

(* Mutant: an "under" reading forgives one strike only.                     *)
NextStrikesForgiving(reading, current) ==
    IF reading = "over" THEN current.strikes + 1 ELSE current.strikes - 1

(* The streak that follows `current` when this reading is evaluated.        *)
NextStrikes(reading, current) ==
    IF reading = "over" THEN current.strikes + 1 ELSE 0

(* Mutant: the limit has to be exceeded.                                    *)
VerdictLate(strikes) == IF strikes > StrikeCount THEN "flagged" ELSE "ok"

Verdict(strikes) == IF strikes >= StrikeCount THEN "flagged" ELSE "ok"

Recorded(strikes, current) ==
    [strikes |-> strikes, status |-> Verdict(strikes), until |-> current.until]

(* Mutant: a missing reading ends the streak.                               *)
NextStateMissingResets(reading, current) ==
    Recorded(NextStrikes(reading, current), current)

(* The record after one reading; a missing one changes nothing.             *)
NextState(reading, current) ==
    IF reading = "none" THEN current
    ELSE Recorded(NextStrikes(reading, current), current)

(* The account must be disabled now.  The poller never evaluates a stopped  *)
(* user, and always passes already_disabled = False.                        *)
ShouldStop(reading, current, action) ==
    /\ reading # "none"
    /\ EffectiveAutoStop(action)
    /\ NextStrikes(reading, current) >= StrikeCount

(* Mutant: every reading beyond the limit counts as the crossing.           *)
CrossedThresholdAgain(before, after) == after.strikes >= StrikeCount

(* The streak has just reached the limit: the one moment to raise an alert. *)
CrossedThreshold(before, after) ==
    before.strikes < StrikeCount /\ after.strikes >= StrikeCount

ShouldNotify(action, crossed, stopped) ==
    /\ NotifyEnabled \/ action # "global"
    /\ action # "ignore"
    /\ crossed \/ stopped

=============================================================================
