-------------------------- MODULE PollCycleProofs --------------------------
(* Proofs about StrikeHistory, for every limit, policy and length of         *)
(* history, and about PollCycle, for any responses and users.                *)
EXTENDS PollCycle, FiniteSetTheorems, SequenceTheorems, TLAPS

-----------------------------------------------------------------------------
(* StrikeHistory.                                                            *)

(* The status is decided by the counter, and by the policy.                  *)
StatusInv ==
    /\ record.status # "ok" <=> record.strikes >= StrikeCount
    /\ record.status = "flagged" => ~ EffectiveAutoStop(action)
    /\ record.status = "stopped" => EffectiveAutoStop(action)

HistoryInv == TypeOK /\ StreakIsExact /\ StatusInv

LEMMA HistoryInit == Init => HistoryInv
<1> SUFFICES ASSUME Init PROVE HistoryInv
  OBVIOUS
<1>1. TypeOK
  BY DEF Init, TypeOK, Fresh, UserState, Statuses, Minutes
<1>2. StreakIsExact
  BY DEF Init, StreakIsExact, LastOver, Fresh
<1>3. StatusInv
  BY StrikeCountAssumption DEF Init, StatusInv, Fresh
<1> QED BY <1>1, <1>2, <1>3 DEF HistoryInv

(* What an evaluation makes of the record.                                   *)
LEMMA EvaluatedRecord ==
  ASSUME TypeOK, NEW reading \in Readings, Evaluate(reading)
  PROVE  /\ record' \in UserState
         /\ record'.strikes = IF reading = "none" THEN record.strikes
                              ELSE NextStrikes(reading, record)
         /\ reading = "none" => record' = record
         /\ NextStrikes(reading, record) \in Nat
<1> USE DEF TypeOK
<1>1. PICK verdict \in Statuses :
        record' = IF reading = "none" THEN record
                  ELSE [strikes |-> NextStrikes(reading, record),
                        status  |-> verdict, until |-> record.until]
  <2>1. CASE reading = "none"
    BY <2>1 DEF Evaluate, NextState, ShouldStop, Statuses
  <2>2. CASE reading # "none"
    <3> DEFINE next == Recorded(NextStrikes(reading, record), record)
    <3>1. /\ next.strikes = NextStrikes(reading, record)
          /\ next.until = record.until
          /\ next.status \in Statuses
          /\ next = [strikes |-> next.strikes, status |-> next.status, until |-> next.until]
          /\ [next EXCEPT !.status = "stopped"]
                = [strikes |-> next.strikes, status |-> "stopped", until |-> next.until]
      BY DEF Recorded, Verdict, Statuses
    <3>2. record' = next \/ record' = [next EXCEPT !.status = "stopped"]
      BY <2>2 DEF Evaluate, NextState
    <3> HIDE DEF next
    <3> QED BY <2>2, <3>1, <3>2 DEF Statuses
  <2> QED BY <2>1, <2>2
<1>2. NextStrikes(reading, record) \in Nat
  BY DEF NextStrikes, UserState
<1> QED BY <1>1, <1>2 DEF UserState, Statuses, Minutes

LEMMA HistoryEvaluate ==
  ASSUME HistoryInv, NEW reading \in Readings, Evaluate(reading)
  PROVE  HistoryInv'
<1> USE DEF HistoryInv, TypeOK
<1>1. /\ record' \in UserState
      /\ record'.strikes = IF reading = "none" THEN record.strikes
                           ELSE NextStrikes(reading, record)
      /\ reading = "none" => record' = record
      /\ NextStrikes(reading, record) \in Nat
  BY EvaluatedRecord
<1>2. readings' = IF reading = "none" THEN readings ELSE Append(readings, reading)
  BY DEF Evaluate
<1>3. TypeOK'
  BY <1>1, <1>2 DEF Evaluate, Readings
<1>4. StreakIsExact'
  <2>1. CASE reading = "none"
    BY <1>1, <1>2, <2>1 DEF StreakIsExact, LastOver
  <2>2. CASE reading = "over"
    <3>1. record'.strikes = record.strikes + 1 /\ readings' = Append(readings, "over")
      BY <1>1, <1>2, <2>2 DEF NextStrikes
    <3>2. record.strikes \in Nat /\ readings \in Seq({"over", "under"})
      BY DEF UserState
    <3> QED BY <3>1, <3>2 DEF StreakIsExact, LastOver
  <2>3. CASE reading = "under"
    <3>1. record'.strikes = 0 /\ readings' = Append(readings, "under")
      BY <1>1, <1>2, <2>3 DEF NextStrikes
    <3>2. readings \in Seq({"over", "under"})
      OBVIOUS
    <3> QED BY <3>1, <3>2 DEF StreakIsExact, LastOver
  <2> QED BY <2>1, <2>2, <2>3 DEF Readings
<1>5. StatusInv'
  <2>1. CASE reading = "none"
    BY <1>1, <2>1 DEF Evaluate, StatusInv
  <2>2. CASE reading # "none"
    <3> DEFINE n == NextStrikes(reading, record)
    <3>1. record' = IF EffectiveAutoStop(action) /\ n >= StrikeCount
                    THEN [Recorded(n, record) EXCEPT !.status = "stopped"]
                    ELSE Recorded(n, record)
      BY <2>2 DEF Evaluate, NextState, ShouldStop
    <3>2. /\ record'.strikes = n
          /\ record'.status = IF EffectiveAutoStop(action) /\ n >= StrikeCount
                              THEN "stopped" ELSE Verdict(n)
      BY <3>1 DEF Recorded
    <3>3. action' = action /\ n \in Nat
      BY <1>1 DEF Evaluate
    <3> HIDE DEF n
    <3> QED BY <3>2, <3>3, StrikeCountAssumption DEF StatusInv, Verdict, EffectiveAutoStop
  <2> QED BY <2>1, <2>2
<1> QED BY <1>3, <1>4, <1>5

LEMMA HistoryNext == HistoryInv /\ [Next]_vars => HistoryInv'
<1> SUFFICES ASSUME HistoryInv, [Next]_vars PROVE HistoryInv'
  OBVIOUS
<1>1. CASE UNCHANGED vars
  BY <1>1 DEF vars, HistoryInv, TypeOK, StreakIsExact, LastOver, StatusInv
<1>2. CASE Reinstate
  <2>1. TypeOK'
    BY <1>2 DEF Reinstate, HistoryInv, TypeOK, Fresh, UserState, Statuses, Minutes
  <2>2. StreakIsExact'
    BY <1>2 DEF Reinstate, StreakIsExact, LastOver, Fresh
  <2>3. StatusInv'
    BY <1>2, StrikeCountAssumption DEF Reinstate, StatusInv, Fresh
  <2> QED BY <2>1, <2>2, <2>3 DEF HistoryInv
<1>3. ASSUME NEW reading \in Readings, Evaluate(reading)
      PROVE  HistoryInv'
  BY <1>3, HistoryEvaluate
<1> QED BY <1>1, <1>2, <1>3 DEF Next

(* A run of "over" readings at the end of the history is as long as the      *)
(* counter, or shorter.                                                      *)
LEMMA LastOverIffStrikes ==
  ASSUME TypeOK, StreakIsExact, NEW n \in Nat \ {0}
  PROVE  LastOver(n) <=> record.strikes >= n
<1> DEFINE k == record.strikes
<1> DEFINE len == Len(readings)
<1>1. k \in Nat /\ len \in Nat
  BY DEF TypeOK, UserState
<1>2. k <= len /\ \A i \in len - k + 1 .. len : readings[i] = "over"
  BY DEF StreakIsExact, LastOver
<1>3. ASSUME k >= n
      PROVE  LastOver(n)
  BY <1>1, <1>2, <1>3 DEF LastOver
<1>4. ASSUME k < n, LastOver(n)
      PROVE  FALSE
  <2>1. n <= len /\ readings[len - k] = "under"
    BY <1>1, <1>4 DEF LastOver, StreakIsExact
  <2>2. len - k \in len - n + 1 .. len
    BY <1>1, <1>4, <2>1
  <2> QED BY <1>4, <2>1, <2>2 DEF LastOver
<1> QED BY <1>1, <1>3, <1>4

(* Type correctness.                                                         *)
THEOREM HistoryTypeTheorem == Spec => []TypeOK
<1>1. HistoryInv => TypeOK
  BY DEF HistoryInv
<1> QED BY <1>1, HistoryInit, HistoryNext, PTL DEF Spec

(* The counter is the length of the current streak, in every history.        *)
THEOREM StreakTheorem == Spec => []StreakIsExact
<1>1. HistoryInv => StreakIsExact
  BY DEF HistoryInv
<1> QED BY <1>1, HistoryInit, HistoryNext, PTL DEF Spec

(* A user is flagged or stopped exactly when its last strike_count readings  *)
(* were over the limit, in every history.                                    *)
THEOREM VerdictTheorem == Spec => []VerdictIsExact
<1>1. HistoryInv => VerdictIsExact
  BY LastOverIffStrikes, StrikeCountAssumption
     DEF HistoryInv, StatusInv, VerdictIsExact
<1> QED BY <1>1, HistoryInit, HistoryNext, PTL DEF Spec

(* The number of alerts is decided by the counter, and by the policy.        *)
Alertable == ShouldNotify(action, TRUE, FALSE)
AlertInv ==
    /\ record.strikes >= StrikeCount /\ Alertable => alerts = 1
    /\ record.strikes < StrikeCount \/ ~ Alertable => alerts = 0

LEMMA AlertEvaluate ==
  ASSUME HistoryInv, AlertInv, NEW reading \in Readings, Evaluate(reading)
  PROVE  AlertInv'
<1> DEFINE stop    == ShouldStop(reading, record, action)
<1> DEFINE crossed == CrossedThreshold(record, NextState(reading, record))
<1> DEFINE n       == record.strikes
<1>1. /\ TypeOK
      /\ n \in Nat
      /\ action' = action
      /\ alerts' = IF reading = "under" THEN 0
                   ELSE IF reading # "none" /\ ShouldNotify(action, crossed, stop)
                   THEN alerts + 1 ELSE alerts
      /\ record.status # "stopped"
  BY DEF HistoryInv, TypeOK, UserState, Evaluate
<1>2. record'.strikes = IF reading = "none" THEN n ELSE NextStrikes(reading, record)
  BY <1>1, EvaluatedRecord
<1>3. CASE reading = "none"
  BY <1>1, <1>2, <1>3 DEF AlertInv, Alertable
<1>4. CASE reading = "under"
  <2>1. record'.strikes < StrikeCount /\ ~ record'.strikes >= StrikeCount /\ alerts' = 0
    BY <1>1, <1>2, <1>4, StrikeCountAssumption DEF NextStrikes
  <2> QED BY <2>1 DEF AlertInv
<1>5. CASE reading = "over"
  <2>1. record'.strikes = n + 1 /\ NextStrikes(reading, record) = n + 1
    BY <1>2, <1>5 DEF NextStrikes
  <2>2. crossed <=> n < StrikeCount /\ n + 1 >= StrikeCount
    BY <1>5, <2>1 DEF CrossedThreshold, NextState, Recorded
  <2>3. n >= StrikeCount => ~ stop
    <3>1. n >= StrikeCount => record.status = "flagged"
      BY <1>1 DEF HistoryInv, StatusInv, TypeOK, UserState, Statuses
    <3> QED BY <3>1 DEF HistoryInv, StatusInv, ShouldStop
  <2>4. n + 1 < StrikeCount => ~ stop
    BY <1>1, <2>1, StrikeCountAssumption DEF ShouldStop
  <2>5. ShouldNotify(action, crossed, stop)
          <=> (crossed \/ stop) /\ ShouldNotify(action, TRUE, FALSE)
    BY DEF ShouldNotify
  <2>6. alerts' = IF ShouldNotify(action, crossed, stop) THEN alerts + 1 ELSE alerts
    BY <1>1, <1>5
  <2> HIDE DEF stop, crossed, n
  <2>7. crossed \/ stop <=> n < StrikeCount /\ n + 1 >= StrikeCount
    BY <1>1, <2>2, <2>3, <2>4, StrikeCountAssumption
  <2>8. Alertable' <=> Alertable
    BY <1>1 DEF Alertable
  <2>9. CASE ~ Alertable
    BY <2>5, <2>6, <2>8, <2>9 DEF AlertInv, Alertable
  <2>10. CASE Alertable
    <3>1. alerts' = IF n < StrikeCount /\ n + 1 >= StrikeCount THEN alerts + 1
                    ELSE alerts
      BY <2>5, <2>6, <2>7, <2>10 DEF Alertable
    <3>2. alerts = IF n >= StrikeCount THEN 1 ELSE 0
      BY <1>1, <2>10, StrikeCountAssumption DEF AlertInv, n
    <3> QED BY <1>1, <2>1, <2>8, <2>10, <3>1, <3>2, StrikeCountAssumption DEF AlertInv
  <2> QED BY <2>9, <2>10
<1> QED BY <1>3, <1>4, <1>5 DEF Readings

LEMMA AlertNext == HistoryInv /\ AlertInv /\ [Next]_vars => AlertInv'
<1> SUFFICES ASSUME HistoryInv, AlertInv, [Next]_vars PROVE AlertInv'
  OBVIOUS
<1>1. CASE UNCHANGED vars
  BY <1>1 DEF vars, AlertInv, Alertable
<1>2. CASE Reinstate
  <2>1. record'.strikes < StrikeCount /\ ~ record'.strikes >= StrikeCount /\ alerts' = 0
    BY <1>2, StrikeCountAssumption DEF Reinstate, Fresh
  <2> QED BY <2>1 DEF AlertInv
<1>3. ASSUME NEW reading \in Readings, Evaluate(reading)
      PROVE  AlertInv'
  BY <1>3, AlertEvaluate
<1> QED BY <1>1, <1>2, <1>3 DEF Next

(* One alert for every streak that reaches the limit, in every history:      *)
(* however the alert ends, it is not repeated within the streak.             *)
THEOREM AlertTheorem == Spec => []AlertPerStreak
<1>1. Init => AlertInv
  <2> SUFFICES ASSUME Init PROVE AlertInv
    OBVIOUS
  <2>1. record.strikes < StrikeCount /\ ~ record.strikes >= StrikeCount /\ alerts = 0
    BY StrikeCountAssumption DEF Init, Fresh
  <2> QED BY <2>1 DEF AlertInv
<1>2. HistoryInv /\ AlertInv => AlertPerStreak
  <2> SUFFICES ASSUME HistoryInv, AlertInv PROVE AlertPerStreak
    OBVIOUS
  <2>1. record.strikes \in Nat /\ (LastOver(StrikeCount) <=> record.strikes >= StrikeCount)
    BY LastOverIffStrikes, StrikeCountAssumption DEF HistoryInv, TypeOK, UserState
  <2>2. record.strikes >= StrikeCount \/ record.strikes < StrikeCount
    BY <2>1, StrikeCountAssumption
  <2> QED BY <2>1, <2>2 DEF AlertInv, Alertable, AlertPerStreak
<1> QED BY <1>1, <1>2, AlertNext, HistoryInit, HistoryNext, PTL DEF Spec

-----------------------------------------------------------------------------
(* PollCycle.                                                                *)

(* Every user the loop has still to visit comes from an active entry of its  *)
(* own, and carries that entry's reading.                                    *)
HasEntry(user, doc) ==
    \E e \in AllEntries(doc) :
        Owns(user.name, e) /\ ~ IsDisabled(e) /\ user.reading = Figure(e)

QueueInv == \A user \in queue : HasEntry(user, document)

-----------------------------------------------------------------------------

(* The minimum of a few numbers is the least of them.                        *)
LEMMA LeastOfFew ==
  ASSUME NEW S \in SUBSET (1 .. 7), S # {}
  PROVE  Min(S) \in S /\ \A n \in S : Min(S) <= n
<1>1. \E m \in S : \A n \in S : m <= n
  <2>1. CASE 1 \in S
    BY <2>1
  <2>2. CASE 1 \notin S /\ 2 \in S
    BY <2>2
  <2>3. CASE 1 \notin S /\ 2 \notin S /\ 3 \in S
    BY <2>3
  <2>4. CASE S \subseteq 4 .. 7
    <3>1. CASE 4 \in S
      BY <2>4, <3>1
    <3>2. CASE 4 \notin S /\ 5 \in S
      BY <2>4, <3>2
    <3>3. CASE S \subseteq 6 .. 7
      <4>1. CASE 6 \in S
        BY <3>3, <4>1
      <4>2. CASE 6 \notin S
        <5>1. \A n \in S : n = 7
          BY <3>3, <4>2
        <5>2. PICK m \in S : TRUE
          OBVIOUS
        <5>3. m = 7 /\ \A n \in S : m <= n
          BY <5>1
        <5> QED BY <5>3
      <4> QED BY <4>1, <4>2
    <3> QED BY <2>4, <3>1, <3>2, <3>3
  <2> QED BY <2>1, <2>2, <2>3, <2>4
<1> QED BY <1>1 DEF Min

(* A figure is a reading, whatever the entry has; one that reads over the    *)
(* limit is one of its own.                                                  *)
LEMMA FigureIsReading ==
  ASSUME NEW entry
  PROVE  /\ Figure(entry) \in Readings
         /\ Figure(entry) = "over" =>
              \E k \in DOMAIN entry.figures : entry.figures[k] = "over"
<1> DEFINE numeric == {k \in DOMAIN FigureKeys :
                         /\ FigureKeys[k] \in DOMAIN entry.figures
                         /\ entry.figures[FigureKeys[k]] \in {"over", "under"}}
<1>1. numeric \in SUBSET (1 .. 7)
  BY DEF FigureKeys
<1>2. CASE numeric = {}
  BY <1>2 DEF Figure, Readings
<1>3. CASE numeric # {}
  <2>1. Min(numeric) \in numeric
    BY <1>1, <1>3, LeastOfFew
  <2>2. Figure(entry) = entry.figures[FigureKeys[Min(numeric)]]
    BY <1>3 DEF Figure
  <2> QED BY <2>1, <2>2 DEF Readings
<1> QED BY <1>2, <1>3

(* The list that is read is part of the document.                            *)
LEMMA FirstListIsListed ==
  ASSUME NEW doc, NEW i \in DOMAIN FirstList(doc, Places)
  PROVE  FirstList(doc, Places)[i] \in AllEntries(doc)
<1> DEFINE filled == {k \in DOMAIN Places :
                        /\ Places[k] \in DOMAIN doc
                        /\ doc[Places[k]] \notin {NoList, <<>>}}
<1>1. filled \in SUBSET (1 .. 7)
  BY DEF Places
<1>2. filled # {}
  BY DEF FirstList
<1>3. Min(filled) \in filled
  BY <1>1, <1>2, LeastOfFew
<1>4. FirstList(doc, Places) = doc[Places[Min(filled)]]
  BY <1>2 DEF FirstList
<1> HIDE DEF filled
<1>5. Places[Min(filled)] \in {q \in DOMAIN doc : doc[q] # NoList}
  BY <1>3 DEF filled
<1> QED BY <1>4, <1>5 DEF AllEntries

(* What normalisation makes of a document has entries of its own.            *)
LEMMA MonitoredHasEntry ==
  ASSUME NEW doc, NEW hashes, NEW user \in Monitored(doc, hashes)
  PROVE  HasEntry(user, doc)
<1> DEFINE list == FirstList(doc, Places)
<1>1. PICK i \in DOMAIN list :
        /\ ~ IsDisabled(list[i])
        /\ Identity(list[i], hashes) # NoName
        /\ user = [at |-> i, name |-> Identity(list[i], hashes),
                   reading |-> Figure(list[i])]
  BY DEF Monitored
<1>2. list[i] \in AllEntries(doc)
  BY FirstListIsListed
<1>3. Owns(user.name, list[i])
  BY <1>1 DEF Identity, Owns, HasName
<1> HIDE DEF list
<1> QED BY <1>1, <1>2, <1>3 DEF HasEntry

LEMMA ReadUsersHasEntry ==
  ASSUME NEW doc, NEW hashes, NEW user \in ReadUsers(doc, hashes)
  PROVE  HasEntry(user, doc)
BY MonitoredHasEntry DEF ReadUsers

-----------------------------------------------------------------------------

LEMMA QueueInit == PollInit => QueueInv
BY DEF PollInit, QueueInv

LEMMA QueueNext == QueueInv /\ [PollNext]_pollVars => QueueInv'
<1> SUFFICES ASSUME QueueInv, [PollNext]_pollVars PROVE QueueInv'
  OBVIOUS
<1>1. CASE UNCHANGED pollVars
  BY <1>1 DEF QueueInv, pollVars, cycle
<1>2. ASSUME NEW outcome, Receive(outcome) PROVE QueueInv'
  <2>1. CASE outcome.got
    BY <1>2, <2>1, ReadUsersHasEntry DEF Receive, QueueInv
  <2>2. CASE ~ outcome.got
    BY <1>2, <2>2 DEF Receive, QueueInv
  <2> QED BY <2>1, <2>2
<1>3. CASE Visit
  BY <1>3 DEF Visit, QueueInv
<1>4. CASE Finish
  BY <1>4 DEF Finish, CycleEnds, QueueInv
<1>5. CASE Lift
  BY <1>5 DEF Lift, QueueInv, cycle
<1> QED BY <1>1, <1>2, <1>3, <1>4, <1>5 DEF PollNext

(* A step either evaluates a reading, which is that of an active entry of    *)
(* Me's own or a missing one, or reinstates Me, or leaves the record alone.  *)
LEMMA StepOfMe ==
  ASSUME QueueInv, [PollNext]_pollVars
  PROVE  \/ UNCHANGED vars
         \/ Reinstate
         \/ Evaluate("none")
         \/ \E e \in AllEntries(document) :
                Owns(Me, e) /\ ~ IsDisabled(e) /\ Evaluate(Figure(e))
<1>1. CASE UNCHANGED pollVars
  BY <1>1 DEF pollVars
<1>2. ASSUME NEW outcome, Receive(outcome) PROVE UNCHANGED vars
  BY <1>2 DEF Receive
<1>3. CASE Visit
  <2>1. PICK user \in queue : IF user.name = Me /\ record.status # "stopped"
                              THEN Evaluate(user.reading) ELSE UNCHANGED vars
    BY <1>3 DEF Visit
  <2>2. HasEntry(user, document)
    BY DEF QueueInv
  <2> QED BY <2>1, <2>2 DEF HasEntry
<1>4. CASE Finish
  BY <1>4 DEF Finish
<1>5. CASE Lift
  BY <1>5 DEF Lift
<1> QED BY <1>1, <1>2, <1>3, <1>4, <1>5 DEF PollNext

(* Whatever the WebIF answers, the record of a user goes through the steps   *)
(* of StrikeHistory, whose actions PollCycle takes over as they are: what is *)
(* proved of them holds for the cycle.                                       *)
LEMMA HistorySteps == PollSpec => Spec
<1>1. PollInit => Init
  BY DEF PollInit
<1>2. QueueInv /\ [PollNext]_pollVars => [Next]_vars
  BY StepOfMe, FigureIsReading DEF Next, Readings
<1> QED BY <1>1, <1>2, QueueInit, QueueNext, PTL DEF PollSpec, Spec

(* The counter, the status and the alerts of a user say what its readings    *)
(* say, whatever the responses of the WebIF were.                            *)
THEOREM RecordTheorem ==
  PollSpec => [](TypeOK /\ StreakIsExact /\ VerdictIsExact /\ AlertPerStreak)
BY HistorySteps, HistoryTypeTheorem, StreakTheorem, VerdictTheorem, AlertTheorem, PTL

(* A user is struck only for an active entry of its own that reads over the  *)
(* limit, in every response.                                                 *)
THEOREM OwnTheorem == PollSpec => StrikeIsOwn
<1> DEFINE Struck == record'.strikes > record.strikes
<1> DEFINE Own == \E e \in AllEntries(document) :
                     /\ Owns(Me, e)
                     /\ ~ IsDisabled(e)
                     /\ \E k \in DOMAIN e.figures : e.figures[k] = "over"
<1>1. ASSUME HistoryInv, QueueInv, [PollNext]_pollVars
      PROVE  [Struck => Own]_pollVars
  <2>1. record.strikes \in Nat
    BY <1>1 DEF HistoryInv, TypeOK, UserState
  <2>2. CASE UNCHANGED vars
    BY <2>1, <2>2 DEF vars
  <2>3. CASE Reinstate
    BY <2>1, <2>3 DEF Reinstate, Fresh
  <2>4. ASSUME NEW reading \in Readings, Evaluate(reading), Struck
        PROVE  reading = "over"
    <3>1. record'.strikes = IF reading = "none" THEN record.strikes
                            ELSE NextStrikes(reading, record)
      BY <1>1, <2>4, EvaluatedRecord DEF HistoryInv
    <3> QED BY <2>1, <2>4, <3>1 DEF NextStrikes
  <2>5. CASE Evaluate("none")
    BY <2>4, <2>5 DEF Readings
  <2>6. ASSUME NEW e \in AllEntries(document),
               Owns(Me, e), ~ IsDisabled(e), Evaluate(Figure(e))
        PROVE  Struck => Own
    BY <2>4, <2>6, FigureIsReading
  <2> QED BY <1>1, <2>2, <2>3, <2>5, <2>6, StepOfMe
<1>2. PollSpec => [][Next]_vars /\ Init
  BY HistorySteps, PTL DEF Spec
<1> QED BY <1>1, <1>2, QueueInit, QueueNext, HistoryInit, HistoryNext, PTL
        DEF PollSpec, StrikeIsOwn

(* If one interface answers and the other is not there, every cycle has a    *)
(* response.                                                                 *)
THEOREM EitherTheorem == PollSpec => []EitherInterface
<1>1. PollInit => EitherInterface
  BY DEF PollInit, EitherInterface
<1>2. ASSUME NEW ncam \in BOOLEAN, NEW answer \in Answers
      PROVE  ~ Outcome(ncam, answer).missed
  BY DEF Outcome, Fetch, Answers, Interfaces
<1>3. EitherInterface /\ [PollNext]_pollVars => EitherInterface'
  <2> SUFFICES ASSUME EitherInterface, [PollNext]_pollVars PROVE EitherInterface'
    OBVIOUS
  <2>1. CASE UNCHANGED pollVars
    BY <2>1 DEF pollVars, cycle, EitherInterface
  <2>2. ASSUME NEW ncam \in BOOLEAN, NEW answer \in Answers,
               Receive(Outcome(ncam, answer))
        PROVE  EitherInterface'
    BY <1>2, <2>2 DEF Receive, EitherInterface
  <2>3. CASE Visit
    BY <2>3 DEF Visit, EitherInterface
  <2>4. CASE Finish
    BY <2>4 DEF Finish, CycleEnds, EitherInterface
  <2>5. CASE Lift
    BY <2>5 DEF Lift, cycle, EitherInterface
  <2> QED BY <2>1, <2>2, <2>3, <2>4, <2>5 DEF PollNext
<1> QED BY <1>1, <1>3, PTL DEF PollSpec

-----------------------------------------------------------------------------

(* Every user a cycle reads is visited before the loop ends.                 *)
ReadInv ==
    /\ phase = "idle" => document = NoDocument /\ page = {}
    /\ \A user \in ReadUsers(document, page) : user \in queue \/ user.name \in seen

LEMMA NoDocumentIsEmpty ==
  /\ FirstList(NoDocument, Places) = <<>>
  /\ RawEntries(NoDocument) = <<>>
  /\ \A hashes : ReadUsers(NoDocument, hashes) = {}
<1>1. DOMAIN NoDocument = {}
  BY DEF NoDocument
<1>2. FirstList(NoDocument, Places) = <<>> /\ RawEntries(NoDocument) = <<>>
  BY <1>1 DEF FirstList, RawEntries
<1>3. \A hashes : Monitored(NoDocument, hashes) = {}
  <2>1. DOMAIN FirstList(NoDocument, Places) = {}
    BY <1>2
  <2> QED BY <2>1 DEF Monitored
<1> QED BY <1>2, <1>3 DEF ReadUsers

LEMMA ReadInit == PollInit => ReadInv
BY NoDocumentIsEmpty DEF PollInit, ReadInv

LEMMA ReadNext == ReadInv /\ [PollNext]_pollVars => ReadInv'
<1> SUFFICES ASSUME ReadInv, [PollNext]_pollVars PROVE ReadInv'
  OBVIOUS
<1>1. CASE UNCHANGED pollVars
  BY <1>1 DEF ReadInv, pollVars, cycle
<1>2. ASSUME NEW outcome, Receive(outcome) PROVE ReadInv'
  <2>1. CASE outcome.got
    BY <1>2, <2>1 DEF Receive, ReadInv
  <2>2. CASE ~ outcome.got
    BY <1>2, <2>2 DEF Receive, ReadInv
  <2> QED BY <2>1, <2>2
<1>3. CASE Visit
  BY <1>3 DEF Visit, ReadInv
<1>4. CASE Finish
  BY <1>4, NoDocumentIsEmpty DEF Finish, CycleEnds, ReadInv
<1>5. CASE Lift
  BY <1>5 DEF Lift, ReadInv, cycle
<1> QED BY <1>1, <1>2, <1>3, <1>4, <1>5 DEF PollNext

(* The entries that decide whether userconfig.html is needed are the ones    *)
(* that are read, unless there are none.                                     *)
LEMMA RawIsFirst ==
  ASSUME NEW doc, NEW i \in DOMAIN RawEntries(doc)
  PROVE  RawEntries(doc) = FirstList(doc, Places)
<1> DEFINE lists  == {k \in DOMAIN Places :
                        Places[k] \in DOMAIN doc /\ doc[Places[k]] # NoList}
<1> DEFINE filled == {k \in DOMAIN Places :
                        /\ Places[k] \in DOMAIN doc
                        /\ doc[Places[k]] \notin {NoList, <<>>}}
<1>1. lists \in SUBSET (1 .. 7) /\ filled \in SUBSET (1 .. 7) /\ filled \subseteq lists
  BY DEF Places
<1>2. lists # {} /\ RawEntries(doc) = doc[Places[Min(lists)]]
  BY DEF RawEntries
<1>3. Min(lists) \in lists /\ \A n \in lists : Min(lists) <= n
  BY <1>1, <1>2, LeastOfFew
<1>4. Min(lists) \in filled
  BY <1>2, <1>3
<1>5. Min(filled) \in filled /\ \A n \in filled : Min(filled) <= n
  BY <1>1, <1>4, LeastOfFew
<1>6. FirstList(doc, Places) = doc[Places[Min(filled)]]
  BY <1>4 DEF FirstList
<1>7. Min(lists) = Min(filled)
  <2>1. /\ Min(lists) \in 1 .. 7 /\ Min(filled) \in 1 .. 7
        /\ Min(lists) <= Min(filled) /\ Min(filled) <= Min(lists)
    <3> HIDE DEF lists, filled
    <3> QED BY <1>1, <1>3, <1>4, <1>5
  <2> HIDE DEF lists, filled
  <2> QED BY <2>1
<1> QED BY <1>2, <1>6, <1>7

(* An active entry gives its user a place among those that are read.         *)
LEMMA ReadCovers ==
  ASSUME NEW doc, NEW hashes, NEW u \in Names,
         NEW i \in DOMAIN RawEntries(doc),
         Owns(u, RawEntries(doc)[i]),
         ~ IsDisabled(RawEntries(doc)[i]),
         RawEntries(doc)[i].name # Blank,
         RawEntries(doc)[i].name # NoName \/ u \in hashes
  PROVE  \E user \in ReadUsers(doc, hashes) : user.name = u
<1> DEFINE list == FirstList(doc, Places)
<1> DEFINE e == list[i]
<1>1. list = RawEntries(doc)
  BY RawIsFirst
<1>2. ASSUME NEW known, Identity(e, known) = u
      PROVE  \E user \in Monitored(doc, known) : user.name = u
  <2> DEFINE user == [at |-> i, name |-> Identity(e, known), reading |-> Figure(e)]
  <2>1. user \in Monitored(doc, known)
    BY <1>1, <1>2, NoNameAssumption DEF Monitored
  <2> QED BY <1>2, <2>1
<1>3. CASE e.name # NoName
  BY <1>1, <1>2, <1>3 DEF Owns, Identity, HasName, ReadUsers
<1>4. CASE e.name = NoName
  <2>1. e.md5 = u /\ u # NoName /\ u \in hashes
    BY <1>1, <1>4, NoNameAssumption DEF Owns, HasName
  <2>2. NeedsUserConfig(doc, Monitored(doc, {}))
    BY <1>1, <1>4, <2>1 DEF NeedsUserConfig
  <2>3. Identity(e, hashes) = u
    BY <1>4, <2>1 DEF Identity, HasName
  <2> QED BY <1>2, <2>2, <2>3 DEF ReadUsers
<1> QED BY <1>3, <1>4

(* The loop visits every user with an active entry whose name or hash tells  *)
(* who it is, in every response.                                             *)
THEOREM OverlookedTheorem == PollSpec => []NobodyOverlooked
<1>1. ReadInv => NobodyOverlooked
  <2> SUFFICES ASSUME ReadInv, queue = {},
                      NEW i \in DOMAIN RawEntries(document), NEW u \in Names,
                      Owns(u, RawEntries(document)[i]),
                      ~ IsDisabled(RawEntries(document)[i]),
                      RawEntries(document)[i].name # Blank,
                      RawEntries(document)[i].name # NoName \/ u \in page
               PROVE  u \in seen
    BY DEF NobodyOverlooked
  <2>1. PICK user \in ReadUsers(document, page) : user.name = u
    BY ReadCovers
  <2> QED BY <2>1 DEF ReadInv
<1> QED BY <1>1, ReadInit, ReadNext, PTL DEF PollSpec

(* Without a list of clients, `test` and the cycle read the same list.       *)
LEMMA TestListIsFirst ==
  ASSUME NEW doc, "status.client" \notin DOMAIN doc,
         NEW i \in DOMAIN FirstList(doc, TestPlaces)
  PROVE  FirstList(doc, TestPlaces) = FirstList(doc, Places)
<1> DEFINE Filled(places) == {k \in DOMAIN places :
                                /\ places[k] \in DOMAIN doc
                                /\ doc[places[k]] \notin {NoList, <<>>}}
<1> DEFINE Full(place) == place \in DOMAIN doc /\ doc[place] \notin {NoList, <<>>}
<1>1. /\ \A k : k \in Filled(TestPlaces) <=> k \in 1 .. 3 /\ Full(TestPlaces[k])
      /\ \A k : k \in Filled(Places) <=> k \in 1 .. 5 /\ Full(Places[k])
  BY DEF Places, TestPlaces
<1>2. /\ Filled(TestPlaces) \in SUBSET (1 .. 7)
      /\ Filled(Places) \in SUBSET (1 .. 7)
  BY <1>1
<1>3. Filled(TestPlaces) # {}
  BY DEF FirstList
<1>4. /\ Min(Filled(TestPlaces)) \in Filled(TestPlaces)
      /\ \A n \in Filled(TestPlaces) : Min(Filled(TestPlaces)) <= n
  BY <1>2, <1>3, LeastOfFew
<1>5. /\ TestPlaces[1] = Places[1] /\ TestPlaces[2] = Places[2]
      /\ TestPlaces[3] = Places[4] /\ ~ Full(Places[3])
  BY DEF Places, TestPlaces
<1> DEFINE t == Min(Filled(TestPlaces))
<1> DEFINE p == Min(Filled(Places))
<1> HIDE DEF Filled, Full
<1>6. Filled(Places) # {}
  BY <1>1, <1>4, <1>5
<1>7. p \in Filled(Places) /\ \A n \in Filled(Places) : p <= n
  BY <1>2, <1>6, LeastOfFew
<1> HIDE DEF t, p
<1>8. Places[p] = TestPlaces[t]
  <2>1. /\ t \in Filled(TestPlaces) /\ \A n \in Filled(TestPlaces) : t <= n
    BY <1>4 DEF t
  <2>2. CASE Full(Places[1])
    BY <1>1, <1>5, <1>7, <2>1, <2>2
  <2>3. CASE ~ Full(Places[1]) /\ Full(Places[2])
    BY <1>1, <1>5, <1>7, <2>1, <2>3
  <2>4. CASE ~ Full(Places[1]) /\ ~ Full(Places[2])
    BY <1>1, <1>5, <1>7, <2>1, <2>4
  <2> QED BY <2>2, <2>3, <2>4
<1>9. /\ FirstList(doc, TestPlaces) = doc[TestPlaces[t]]
      /\ FirstList(doc, Places) = doc[Places[p]]
  BY <1>3, <1>6 DEF FirstList, t, p, Filled
<1> QED BY <1>8, <1>9

-----------------------------------------------------------------------------
(* Types, and the strikes of one cycle.                                      *)

(* The list that is read is a sequence of the document's entries.            *)
LEMMA FirstListType ==
  ASSUME NEW doc \in Documents \cup {NoDocument}
  PROVE  /\ FirstList(doc, Places) \in Seq(AllEntries(doc))
         /\ \A e \in AllEntries(doc) : e.name \in Names \cup {NoName, Blank}
<1> DEFINE filled == {k \in DOMAIN Places :
                        /\ Places[k] \in DOMAIN doc
                        /\ doc[Places[k]] \notin {NoList, <<>>}}
<1>1. CASE doc = NoDocument
  <2>1. FirstList(doc, Places) = <<>>
    BY <1>1, NoDocumentIsEmpty
  <2>2. AllEntries(doc) = {}
    BY <1>1 DEF AllEntries, NoDocument
  <2> QED BY <2>1, <2>2
<1>2. CASE doc \in Documents
  <2>1. /\ \A p \in DOMAIN doc : doc[p] = NoList \/ doc[p] \in Seq(AllEntries(doc))
        /\ \A e \in AllEntries(doc) : e.name \in Names \cup {NoName, Blank}
    BY <1>2, DocumentsAssumption
  <2>2. filled \in SUBSET (1 .. 7)
    BY DEF Places
  <2>3. CASE filled = {}
    BY <2>1, <2>3 DEF FirstList
  <2>4. CASE filled # {}
    <3>1. Min(filled) \in filled
      BY <2>2, <2>4, LeastOfFew
    <3>2. FirstList(doc, Places) = doc[Places[Min(filled)]]
      BY <2>4 DEF FirstList
    <3> QED BY <2>1, <3>1, <3>2
  <2> QED BY <2>1, <2>3, <2>4
<1> QED BY <1>1, <1>2

(* A monitored user is at the place of an entry of its own, one at each.     *)
Placed(users, doc) ==
    \A user \in users :
        /\ user.at \in DOMAIN FirstList(doc, Places)
        /\ Owns(user.name, FirstList(doc, Places)[user.at])
        /\ \A twin \in users : twin.at = user.at => twin = user

Users == [at : Nat, name : Names, reading : Readings]

LEMMA MonitoredPlaced ==
  ASSUME NEW doc \in Documents \cup {NoDocument}, NEW hashes \in SUBSET Names
  PROVE  Monitored(doc, hashes) \subseteq Users /\ Placed(Monitored(doc, hashes), doc)
<1> DEFINE list == FirstList(doc, Places)
           User(i) == [at |-> i, name |-> Identity(list[i], hashes),
                       reading |-> Figure(list[i])]
<1>1. /\ list \in Seq(AllEntries(doc))
      /\ \A e \in AllEntries(doc) : e.name \in Names \cup {NoName, Blank}
  BY FirstListType
<1>2. ASSUME NEW user \in Monitored(doc, hashes)
      PROVE  \E i \in DOMAIN list : /\ Identity(list[i], hashes) # NoName
                                    /\ user = User(i)
  BY DEF Monitored
<1> HIDE DEF list
<1>3. \A i \in DOMAIN list : i \in Nat /\ list[i].name \in Names \cup {NoName, Blank}
  BY <1>1
<1>4. ASSUME NEW user \in Monitored(doc, hashes)
      PROVE  /\ user \in Users
             /\ user.at \in DOMAIN list /\ Owns(user.name, list[user.at])
             /\ user = User(user.at)
  <2>1. PICK i \in DOMAIN list : Identity(list[i], hashes) # NoName /\ user = User(i)
    BY <1>2
  <2>2. Identity(list[i], hashes) \in Names /\ Owns(Identity(list[i], hashes), list[i])
    BY <1>3, <2>1 DEF Identity, Owns, HasName
  <2> QED BY <1>3, <2>1, <2>2, FigureIsReading DEF Users
<1> HIDE DEF User
<1> QED BY <1>4 DEF Placed, list

LEMMA ReadUsersPlaced ==
  ASSUME NEW doc \in Documents \cup {NoDocument}, NEW hashes \in SUBSET Names
  PROVE  ReadUsers(doc, hashes) \subseteq Users /\ Placed(ReadUsers(doc, hashes), doc)
<1>1. {} \in SUBSET Names
  OBVIOUS
<1> QED BY <1>1, MonitoredPlaced DEF ReadUsers

PlacedInv == HistoryInv /\ ReadInv /\ PollTypeOK /\ Placed(queue, document)

LEMMA PlacedInit == PollInit => PlacedInv
<1> SUFFICES ASSUME PollInit PROVE PlacedInv
  OBVIOUS
<1>1. HistoryInv /\ ReadInv
  BY HistoryInit, ReadInit DEF PollInit
<1>2. PollTypeOK
  BY DEF PollInit, PollTypeOK
<1>3. Placed(queue, document)
  BY DEF PollInit, Placed
<1> QED BY <1>1, <1>2, <1>3 DEF PlacedInv

(* Every step of a cycle is one of the record, or leaves it alone.           *)
LEMMA HistoryKept ==
  ASSUME HistoryInv, QueueInv, [PollNext]_pollVars PROVE HistoryInv'
<1>1. [Next]_vars
  BY StepOfMe, FigureIsReading DEF Next, Readings
<1> QED BY <1>1, HistoryNext

LEMMA PlacedNext == PlacedInv /\ QueueInv /\ [PollNext]_pollVars => PlacedInv'
<1> SUFFICES ASSUME PlacedInv, QueueInv, [PollNext]_pollVars PROVE PlacedInv'
  OBVIOUS
<1>1. HistoryInv' /\ ReadInv'
  BY HistoryKept, ReadNext DEF PlacedInv
<1>2. record.strikes \in Nat
  BY DEF PlacedInv, HistoryInv, TypeOK, UserState
<1>3. PollTypeOK /\ Placed(queue, document)
  BY DEF PlacedInv
<1>4. ASSUME UNCHANGED pollVars PROVE (PollTypeOK /\ Placed(queue, document))'
  BY <1>3, <1>4 DEF pollVars, cycle, PollTypeOK, Placed
<1>5. ASSUME NEW ncam \in BOOLEAN, NEW answer \in Answers, Receive(Outcome(ncam, answer))
      PROVE  (PollTypeOK /\ Placed(queue, document))'
  <2> DEFINE outcome == Outcome(ncam, answer)
  <2>1. outcome.missed \in BOOLEAN
    BY DEF Outcome
  <2> HIDE DEF outcome
  <2>2. Receive(outcome)
    BY <1>5 DEF outcome
  <2>3. /\ document' \in Documents \cup {NoDocument} /\ page' \in Pages \cup {{}}
        /\ queue' \subseteq Users /\ Placed(queue', document')
    <3>1. CASE outcome.got
      <4>1. document' \in Documents /\ page' \in Pages /\ queue' = ReadUsers(document', page')
        BY <2>2, <3>1 DEF Receive
      <4> QED BY <4>1, ReadUsersPlaced, PagesAssumption
    <3>2. CASE ~ outcome.got
      BY <1>3, <2>2, <3>2 DEF Receive, PollTypeOK, Users
    <3> QED BY <3>1, <3>2
  <2>4. phase' = "loop" /\ seen' = seen /\ before' = record.strikes
        /\ missed' = outcome.missed
    BY <2>2 DEF Receive
  <2> QED BY <1>2, <1>3, <2>1, <2>3, <2>4 DEF PollTypeOK, Users
<1>6. ASSUME Visit PROVE (PollTypeOK /\ Placed(queue, document))'
  <2>1. PICK user \in queue : queue' = queue \ {user} /\ seen' = seen \cup {user.name}
    BY <1>6 DEF Visit
  <2>2. user.name \in Names
    BY <1>3 DEF PollTypeOK
  <2>3. UNCHANGED <<phase, document, page, before, missed>>
    BY <1>6 DEF Visit
  <2> QED BY <1>3, <2>1, <2>2, <2>3 DEF PollTypeOK, Placed
<1>7. ASSUME Finish PROVE (PollTypeOK /\ Placed(queue, document))'
  BY <1>3, <1>7 DEF Finish, CycleEnds, PollTypeOK, Placed
<1>8. ASSUME Lift PROVE (PollTypeOK /\ Placed(queue, document))'
  BY <1>3, <1>8 DEF Lift, cycle, PollTypeOK, Placed
<1> QED BY <1>1, <1>4, <1>5, <1>6, <1>7, <1>8 DEF PollNext, PlacedInv

LEMMA PlacedHolds == PollSpec => [](PlacedInv /\ QueueInv)
BY PlacedInit, PlacedNext, QueueInit, QueueNext, PTL DEF PollSpec

(* Whatever the responses, every variable of the cycle has its type.         *)
THEOREM PollTypeTheorem == PollSpec => []PollTypeOK
<1>1. PlacedInv => PollTypeOK
  BY DEF PlacedInv
<1> QED BY <1>1, PlacedHolds, PTL

(* A response that `test` accepts for an entry whose user can be told gives  *)
(* the cycle somebody to evaluate, unless it has a list of clients.          *)
THEOREM TestedTheorem == PollSpec => []TestedIsRead
<1>1. ASSUME NEW doc, NEW hashes, "status.client" \notin DOMAIN doc,
             NEW e \in Accepted(doc), HasName(e) \/ e.md5 \in hashes,
             \A u \in hashes : u \in Names
      PROVE  ReadUsers(doc, hashes) # {}
  <2> DEFINE list == FirstList(doc, Places)
  <2>1. PICK i \in DOMAIN list : list[i] = e /\ ~ IsDisabled(e)
    <3>1. PICK j \in DOMAIN FirstList(doc, TestPlaces) :
            /\ FirstList(doc, TestPlaces)[j] = e
            /\ ~ IsDisabled(e)
      BY DEF Accepted
    <3>2. FirstList(doc, TestPlaces) = list
      BY <1>1, <3>1, TestListIsFirst
    <3> QED BY <3>1, <3>2
  <2>2. ASSUME NEW known, Identity(e, known) # NoName
        PROVE  Monitored(doc, known) # {}
    BY <2>1, <2>2 DEF Monitored
  <2>3. Monitored(doc, hashes) # {}
    <3>1. Identity(e, hashes) # NoName
      BY <1>1, NoNameAssumption DEF Identity, HasName
    <3> QED BY <2>2, <3>1
  <2>4. CASE Monitored(doc, {}) # {}
    BY <2>3, <2>4 DEF ReadUsers
  <2>5. CASE Monitored(doc, {}) = {}
    <3>1. ~ HasName(e)
      <4>1. HasName(e) => Identity(e, {}) # NoName
        BY DEF Identity, HasName
      <4> QED BY <2>2, <2>5, <4>1
    <3>2. e.md5 # NoName
      BY <1>1, <3>1, NoNameAssumption
    <3>3. e \in AllEntries(doc)
      BY <2>1, FirstListIsListed
    <3>4. NeedsUserConfig(doc, Monitored(doc, {}))
      BY <2>5, <3>2, <3>3 DEF NeedsUserConfig
    <3> QED BY <2>3, <3>4 DEF ReadUsers
  <2> QED BY <2>4, <2>5
<1>2. ASSUME ReadInv, PollTypeOK PROVE TestedIsRead
  <2>1. \A u \in page : u \in Names
    BY <1>2, PagesAssumption DEF PollTypeOK
  <2> QED BY <1>1, <1>2, <2>1 DEF ReadInv, TestedIsRead
<1>3. PlacedInv => ReadInv /\ PollTypeOK
  BY DEF PlacedInv
<1> QED BY <1>2, <1>3, PlacedHolds, PTL

(* The places of Me's own entries, and those the loop has still to visit.    *)
OwnPlaces(doc) ==
    {i \in DOMAIN FirstList(doc, Places) : Owns(Me, FirstList(doc, Places)[i])}
LeftOf(users) == {i \in Nat : \E user \in users : user.name = Me /\ user.at = i}

StruckInv ==
    phase = "loop" =>
        record.strikes <= before + Cardinality(OwnPlaces(document) \ LeftOf(queue))

LEMMA OwnFinite ==
  ASSUME NEW doc \in Documents \cup {NoDocument}
  PROVE  IsFiniteSet(OwnPlaces(doc)) /\ OwnPlaces(doc) \subseteq Nat
<1> DEFINE list == FirstList(doc, Places)
<1>1. list \in Seq(AllEntries(doc))
  BY FirstListType
<1> HIDE DEF list
<1>2. Len(list) \in Nat /\ DOMAIN list = 1 .. Len(list)
  BY <1>1
<1>3. OwnPlaces(doc) \in SUBSET (1 .. Len(list))
  BY <1>2 DEF OwnPlaces, list
<1>4. IsFiniteSet(1 .. Len(list))
  BY <1>2, FS_Interval
<1> QED BY <1>2, <1>3, <1>4, FS_Subset

(* An evaluation adds at most one strike.                                    *)
LEMMA OneStrike ==
  ASSUME HistoryInv, NEW reading \in Readings, Evaluate(reading)
  PROVE  record'.strikes <= record.strikes + 1 /\ record'.strikes \in Nat
<1>1. record'.strikes = IF reading = "none" THEN record.strikes
                        ELSE NextStrikes(reading, record)
  BY EvaluatedRecord DEF HistoryInv
<1>2. record.strikes \in Nat
  BY DEF HistoryInv, TypeOK, UserState
<1> QED BY <1>1, <1>2 DEF NextStrikes

LEMMA StruckNext == StruckInv /\ PlacedInv /\ QueueInv /\ [PollNext]_pollVars => StruckInv'
<1> SUFFICES ASSUME StruckInv, PlacedInv, QueueInv, [PollNext]_pollVars PROVE StruckInv'
  OBVIOUS
<1>1. /\ HistoryInv /\ PollTypeOK /\ Placed(queue, document)
      /\ record.strikes \in Nat /\ before \in Nat /\ queue \subseteq Users
      /\ document \in Documents \cup {NoDocument}
  BY DEF PlacedInv, HistoryInv, TypeOK, UserState, PollTypeOK, Users
<1>2. IsFiniteSet(OwnPlaces(document)) /\ OwnPlaces(document) \subseteq Nat
  BY <1>1, OwnFinite
<1>3. CASE UNCHANGED pollVars
  BY <1>3 DEF pollVars, vars, cycle, StruckInv
<1>4. ASSUME NEW outcome, Receive(outcome) PROVE StruckInv'
  <2>1. document' \in Documents \cup {NoDocument}
    BY <1>1, <1>4 DEF Receive
  <2>2. IsFiniteSet(OwnPlaces(document') \ LeftOf(queue'))
    BY <2>1, OwnFinite, FS_Difference
  <2>3. Cardinality(OwnPlaces(document') \ LeftOf(queue')) \in Nat
    BY <2>2, FS_CardinalityType
  <2>4. record'.strikes = record.strikes /\ before' = record.strikes
    BY <1>4 DEF Receive, vars
  <2> QED BY <1>1, <2>3, <2>4 DEF StruckInv
<1>5. CASE Visit
  <2> DEFINE Done(users) == OwnPlaces(document) \ LeftOf(users)
  <2>1. PICK user \in queue :
          /\ queue' = queue \ {user}
          /\ IF user.name = Me /\ record.status # "stopped"
             THEN Evaluate(user.reading) ELSE UNCHANGED vars
    BY <1>5 DEF Visit
  <2>2. /\ phase' = phase /\ phase = "loop" /\ before' = before /\ document' = document
    BY <1>5 DEF Visit
  <2>3. /\ IsFiniteSet(Done(queue)) /\ IsFiniteSet(Done(queue'))
        /\ Cardinality(Done(queue)) \in Nat /\ Cardinality(Done(queue')) \in Nat
    BY <1>2, FS_Difference, FS_CardinalityType
  <2>4. Done(queue) \subseteq Done(queue')
    BY <2>1 DEF LeftOf
  <2>5. Cardinality(Done(queue)) <= Cardinality(Done(queue'))
    BY <2>3, <2>4, FS_Subset
  <2>6. record.strikes <= before + Cardinality(Done(queue))
    BY <2>2 DEF StruckInv
  <2>7. CASE user.name # Me
    <3>1. record' = record
      BY <2>1, <2>7 DEF vars
    <3> QED BY <1>1, <2>2, <2>3, <2>5, <2>6, <3>1 DEF StruckInv
  <2>8. CASE user.name = Me
    <3>1. user.at \in OwnPlaces(document) /\ user.at \in LeftOf(queue)
      BY <1>1, <2>8 DEF Placed, OwnPlaces, LeftOf, Users
    <3>2. user.at \notin LeftOf(queue')
      BY <1>1, <2>1 DEF Placed, LeftOf
    <3>3. user.at \notin Done(queue) /\ Done(queue) \cup {user.at} \subseteq Done(queue')
      BY <2>4, <3>1, <3>2
    <3>4. Cardinality(Done(queue) \cup {user.at}) = Cardinality(Done(queue)) + 1
      BY <2>3, <3>3, FS_AddElement
    <3>5. Cardinality(Done(queue)) + 1 <= Cardinality(Done(queue'))
      BY <2>3, <3>3, <3>4, FS_Subset
    <3>6. record'.strikes <= record.strikes + 1 /\ record'.strikes \in Nat
      <4>1. user.reading \in Readings
        BY <1>1 DEF Users
      <4> QED BY <1>1, <2>1, <4>1, OneStrike DEF vars
    <3> HIDE DEF Done
    <3>7. record'.strikes <= before + Cardinality(Done(queue'))
      BY <1>1, <2>3, <2>6, <3>5, <3>6
    <3> QED BY <2>2, <3>7 DEF StruckInv, Done
  <2> QED BY <2>7, <2>8
<1>6. CASE Finish
  BY <1>6 DEF Finish, CycleEnds, StruckInv
<1>7. CASE Lift
  BY <1>7 DEF Lift, cycle, StruckInv
<1> QED BY <1>3, <1>4, <1>5, <1>6, <1>7 DEF PollNext

(* In one cycle a user is struck at most once for each entry of its own in   *)
(* the list that is read, whatever the responses and however often they list *)
(* it.                                                                       *)
THEOREM StruckTheorem == PollSpec => []StruckAsListed
<1>1. PollInit => StruckInv
  BY DEF PollInit, StruckInv
<1>2. ASSUME StruckInv, PlacedInv PROVE StruckAsListed
  <2>1. /\ record.strikes \in Nat /\ before \in Nat
        /\ IsFiniteSet(OwnPlaces(document))
    BY <1>2, OwnFinite DEF PlacedInv, HistoryInv, TypeOK, UserState, PollTypeOK
  <2>2. OwnPlaces(document) \ LeftOf(queue) \in SUBSET OwnPlaces(document)
    OBVIOUS
  <2>3. /\ Cardinality(OwnPlaces(document) \ LeftOf(queue)) <= Cardinality(OwnPlaces(document))
        /\ Cardinality(OwnPlaces(document) \ LeftOf(queue)) \in Nat
        /\ Cardinality(OwnPlaces(document)) \in Nat
    BY <2>1, <2>2, FS_Subset, FS_CardinalityType
  <2>4. phase = "loop" => record.strikes <= before + Cardinality(OwnPlaces(document))
    BY <1>2, <2>1, <2>3 DEF StruckInv
  <2> QED BY <2>4 DEF StruckAsListed, OwnPlaces
<1> QED BY <1>1, <1>2, StruckNext, PlacedHolds, PTL DEF PollSpec

=============================================================================
