----------------------------- MODULE Monitoring -----------------------------
(***************************************************************************)
(* What monitoring promises about the records in state.json, without the   *)
(* processes, the lock, the files and the failures that stand in between:  *)
(* every change of a user's record is one evaluation of a reading, one     *)
(* expiry, one operator command or the passing of time.                    *)
(***************************************************************************)
EXTENDS Strike

CONSTANTS Users, Action, StopDuration, Entries

VARIABLE records

Init == records = [u \in Users |-> Fresh]

(* What is left of a stop's duration when its record is saved.              *)
TimesLeft(u) == IF StopDuration[u] = 0 THEN {NoTime} ELSE 0 .. StopDuration[u]

(* The strikes after one more reading, or up to n: all of them over the     *)
(* limit, or one of them not.                                               *)
Streaks(strikes, n) == (strikes + 1 .. strikes + n) \cup (0 .. n - 1)

(* The records of u after the readings of one response: a record that       *)
(* reaches the limit is stopped if the policy says so.                      *)
Outcomes(u, record) ==
    LET judged == {Recorded(n, record) : n \in Streaks(record.strikes, Entries[u])}
        due    == {r \in judged : r.status = "flagged" /\ EffectiveAutoStop(Action[u])}
    IN  {record} \cup (judged \ due)
        \cup {[r EXCEPT !.status = "stopped", !.until = t] :
                 r \in due, t \in TimesLeft(u)}

(* One cycle leaves a stopped user alone until its stop has expired; then   *)
(* the user starts afresh, and the same cycle may evaluate readings of it.  *)
Cycle(u, old, new) ==
    \/ old.status # "stopped" /\ new \in Outcomes(u, old)
    \/ old.status = "stopped" /\ old.until = 0 /\ new \in Outcomes(u, Fresh)

(* A manual stop has no end, whatever was recorded before.                  *)
Disable(old, new) == new = [old EXCEPT !.status = "stopped", !.until = NoTime]

(* Enable and Reset flag.                                                   *)
Clear(new) == new = Fresh

Minute(old, new) ==
    /\ old.until # NoTime /\ old.until > 0
    /\ new = [old EXCEPT !.until = @ - 1]

Step(u, old, new) ==
    \/ new = old
    \/ Cycle(u, old, new)
    \/ Disable(old, new)
    \/ Clear(new)
    \/ Minute(old, new)

Next ==
    /\ records' \in [Users -> UserState]
    /\ \A u \in Users : Step(u, records[u], records'[u])

Spec == Init /\ [][Next]_records

=============================================================================
