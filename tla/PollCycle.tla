----------------------------- MODULE PollCycle -----------------------------
(***************************************************************************)
(* The cycles of one instance as one of its users, Me, meets them: each    *)
(* fetches a response, makes monitored users of it and evaluates them one  *)
(* after the other, in the order of the response.  A response may list a   *)
(* user any number of times, by name, by hash, disabled or not at all.     *)
(* StrikeHistory is the abstract specification of Me's record.             *)
(***************************************************************************)
EXTENDS StrikeHistory, UserStats

CONSTANTS
    Me,          \* the user that is followed
    Documents,   \* the responses the WebIF may give
    Pages        \* the sets of users userconfig.html may list

(* A place holds a list of entries or none, and a name is a name.           *)
ASSUME DocumentsAssumption ==
    \A doc \in Documents :
        /\ \A p \in DOMAIN doc : doc[p] = NoList \/ doc[p] \in Seq(AllEntries(doc))
        /\ \A e \in AllEntries(doc) : e.name \in Names \cup {NoName, Blank}
ASSUME PagesAssumption == Pages \subseteq SUBSET Names

Interfaces == {"oscam", "ncam"}
Answers    == [Interfaces -> {"ok", "missing", "failed"}]

VARIABLES
    phase,      \* between two cycles ("idle") or in the loop of one ("loop")
    document,   \* the response of this cycle
    page,       \* the users userconfig.html lists, if it can be fetched
    queue,      \* the monitored users the loop has still to visit
    seen,       \* those it has visited
    before,     \* history: Me's strikes when the cycle began
    missed      \* history: an interface answers, none fails, and the cycle
                \* has no response

cycle    == <<phase, document, page, queue, seen, before, missed>>
pollVars == <<vars, cycle>>

NoDocument == [p \in {} |-> <<>>]

PollInit ==
    /\ Init
    /\ phase = "idle"
    /\ document = NoDocument
    /\ page = {}
    /\ queue = {}
    /\ seen = {}
    /\ before = 0
    /\ missed = FALSE

-----------------------------------------------------------------------------

(* What comes of asking the interfaces: whether there is a response, and    *)
(* whether there should have been one.                                      *)
Outcome(ncam, answer) ==
    LET got == Fetch(ncam, answer) = "ok"
    IN  [got    |-> got,
         missed |-> /\ ~ got
                    /\ \A i \in Interfaces : answer[i] # "failed"
                    /\ \E i \in Interfaces : answer[i] = "ok"]

(* The cycle begins: a response, if there is one, becomes the users to      *)
(* monitor.                                                                 *)
Receive(outcome) ==
    /\ phase = "idle"
    /\ phase' = "loop"
    /\ IF outcome.got
       THEN /\ document' \in Documents
            /\ page' \in Pages
            /\ queue' = ReadUsers(document', page')
       ELSE UNCHANGED <<document, page, queue>>
    /\ missed' = outcome.missed
    /\ Len(readings) + Cardinality(queue') <= MaxReadings
    /\ before' = record.strikes
    /\ UNCHANGED <<vars, seen>>

(* The loop evaluates the next monitored user, unless it is stopped.        *)
Visit ==
    /\ phase = "loop"
    /\ \E user \in queue :
          /\ \A next \in queue : user.at <= next.at
          /\ queue' = queue \ {user}
          /\ seen' = seen \cup {user.name}
          /\ IF user.name = Me /\ record.status # "stopped"
             THEN Evaluate(user.reading)
             ELSE UNCHANGED vars
    /\ UNCHANGED <<phase, document, page, before, missed>>

CycleEnds ==
    /\ phase = "loop"
    /\ queue = {}
    /\ phase' = "idle"
    /\ document' = NoDocument
    /\ page' = {}
    /\ seen' = {}
    /\ before' = 0
    /\ missed' = FALSE
    /\ UNCHANGED queue

(* A user the loop has not visited, or any user if the fetch has failed,    *)
(* has no reading.                                                          *)
Finish ==
    /\ CycleEnds
    /\ IF Me \notin seen /\ record.status # "stopped"
       THEN Evaluate("none")
       ELSE UNCHANGED vars

(* A stop ends between two cycles: it has expired, or an operator lifts it. *)
Lift ==
    /\ phase = "idle"
    /\ Reinstate
    /\ UNCHANGED cycle

PollNext ==
    \/ \E outcome \in {Outcome(ncam, answer) : ncam \in BOOLEAN, answer \in Answers} :
           Receive(outcome)
    \/ Visit
    \/ Finish
    \/ Lift

PollSpec == PollInit /\ [][PollNext]_pollVars

-----------------------------------------------------------------------------

(* The entry is u's: it has its name or, without one, the hash of its name. *)
Owns(u, entry) ==
    entry.name = u \/ (~ HasName(entry) /\ entry.md5 = u)

(* Every variable has its type.                                             *)
PollTypeOK ==
    /\ phase \in {"idle", "loop"}
    /\ document \in Documents \cup {NoDocument}
    /\ page \in Pages \cup {{}}
    /\ queue \subseteq [at : Nat, name : Names, reading : Readings]
    /\ seen \subseteq Names
    /\ before \in Nat
    /\ missed \in BOOLEAN

(* A user is given a strike only for an active entry of its own, by name or *)
(* by hash, that reads over the limit: nobody is struck for what another    *)
(* user does, nor for an account that OSCam has disabled                    *)
(* (normalize_userstats_body).                                              *)
StrikeIsOwn ==
    [][record'.strikes > record.strikes =>
         \E e \in AllEntries(document) :
            /\ Owns(Me, e)
            /\ ~ IsDisabled(e)
            /\ \E k \in DOMAIN e.figures : e.figures[k] = "over"
      ]_pollVars

(* A user is flagged or stopped only after strike_count cycles: the one in  *)
(* which it happens began with strike_count - 1 strikes at least (SC-003:   *)
(* "a user with a single brief over-limit spike is never flagged").         *)
FlaggedAfterCycles ==
    phase = "loop" /\ record.status # "ok" => before >= StrikeCount - 1

(* What the code keeps instead: within one cycle a user collects at most    *)
(* one strike for each entry of its own, since the loop of run_cycle        *)
(* evaluates every entry and the second normalisation with userconfig.html  *)
(* replaces the first.                                                      *)
StruckAsListed ==
    phase = "loop" =>
        record.strikes <= before +
            Cardinality({i \in DOMAIN FirstList(document, Places) :
                           Owns(Me, FirstList(document, Places)[i])})

(* Nobody is overlooked: when the loop ends, it has visited every user with *)
(* an active entry, in the first list there is, whose name or hash tells    *)
(* who it is, also if only some of the entries have names                   *)
(* (_needs_userconfig_retry).  Left out is an entry with a name of spaces,  *)
(* which does not make the code fetch the page its hash is looked up in.    *)
NobodyOverlooked ==
    phase = "loop" /\ queue = {} =>
        \A i \in DOMAIN RawEntries(document), u \in Names :
            LET e == RawEntries(document)[i]
            IN  /\ Owns(u, e)
                /\ ~ IsDisabled(e)
                /\ e.name # Blank
                /\ e.name # NoName \/ u \in page
                => u \in seen

(* If one interface answers and the other is not there, the cycle has a     *)
(* response, whichever of the two the account file suggests                 *)
(* (fetch_userstats and is_ncam).                                           *)
EitherInterface == ~ missed

(* A response that `test` accepts for an entry whose user can be told, by   *)
(* its name or by its hash and userconfig.html, gives the cycle a user to   *)
(* evaluate, unless the response has a list of clients, which only the      *)
(* cycle looks at (validate_userstats_body, normalize_userstats_body).      *)
TestedIsRead ==
    phase = "loop" /\ "status.client" \notin DOMAIN document =>
        \A e \in Accepted(document) :
            HasName(e) \/ e.md5 \in page => queue # {} \/ seen # {}

=============================================================================
