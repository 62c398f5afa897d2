--------------------------- MODULE StrikeHistory ---------------------------
(***************************************************************************)
(* The strike rule against its history: one user's readings are evaluated  *)
(* one after the other, and the record kept in state.json (a counter and a *)
(* status) is compared with the readings themselves.                       *)
(***************************************************************************)
EXTENDS Strike, Sequences

CONSTANT MaxReadings   \* bound: readings in one history

ASSUME MaxReadingsAssumption == MaxReadings \in Nat

VARIABLES
    action,     \* the user's policy
    record,     \* its record in state.json
    readings,   \* the numeric readings since the record was last fresh
    alerts      \* the alerts sent since the last reading at or below the limit

vars == <<action, record, readings, alerts>>

Init ==
    /\ action \in Actions
    /\ record = Fresh
    /\ readings = <<>>
    /\ alerts = 0

(* One cycle evaluates one reading of a user that is not stopped; the time  *)
(* of a stop plays no part here.                                            *)
Evaluate(reading) ==
    LET next    == NextState(reading, record)
        stop    == ShouldStop(reading, record, action)
        crossed == CrossedThreshold(record, next)
    IN  /\ record.status # "stopped"
        /\ reading # "none" => Len(readings) < MaxReadings
        /\ record' = IF stop THEN [next EXCEPT !.status = "stopped"] ELSE next
        /\ readings' = IF reading = "none" THEN readings
                       ELSE Append(readings, reading)
        /\ alerts' = IF reading = "under" THEN 0
                     ELSE IF reading # "none" /\ ShouldNotify(action, crossed, stop)
                     THEN alerts + 1
                     ELSE alerts
        /\ UNCHANGED action

(* The stop ends: the user starts afresh.                                   *)
Reinstate ==
    /\ record.status = "stopped"
    /\ record' = Fresh
    /\ readings' = <<>>
    /\ alerts' = 0
    /\ UNCHANGED action

Next == (\E reading \in Readings : Evaluate(reading)) \/ Reinstate

Spec == Init /\ [][Next]_vars

-----------------------------------------------------------------------------

(* The last n readings were all over the limit.                             *)
LastOver(n) ==
    /\ n <= Len(readings)
    /\ \A i \in Len(readings) - n + 1 .. Len(readings) : readings[i] = "over"

TypeOK ==
    /\ action \in Actions
    /\ record \in UserState
    /\ readings \in Seq({"over", "under"})
    /\ alerts \in Nat

(* The counter is the length of the unbroken run of "over" readings at the  *)
(* end of the history, readings that are missing or not numbers left out    *)
(* (evaluate_strike and its NO_READING branch).                             *)
StreakIsExact ==
    /\ LastOver(record.strikes)
    /\ record.strikes < Len(readings) =>
           readings[Len(readings) - record.strikes] = "under"

(* A user is flagged or stopped exactly when its last strike_count readings *)
(* were over the limit, and one that may be stopped is never just flagged.  *)
VerdictIsExact ==
    /\ record.status # "ok" <=> LastOver(StrikeCount)
    /\ record.status = "flagged" => ~ EffectiveAutoStop(action)
    /\ record.status = "stopped" => EffectiveAutoStop(action)

(* One alert per streak that reaches the limit, none for a shorter one and  *)
(* none for an ignored user (crossed_threshold and should_notify).          *)
AlertPerStreak ==
    alerts = IF LastOver(StrikeCount) /\ ShouldNotify(action, TRUE, FALSE)
             THEN 1 ELSE 0

=============================================================================
