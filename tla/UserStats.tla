----------------------------- MODULE UserStats -----------------------------
(***************************************************************************)
(* What a cycle makes of the answers of the WebIF: the interface it asks   *)
(* (webif.py), where a response keeps its users, who they are and what     *)
(* they read (parse.py, poller.py).                                        *)
(*                                                                         *)
(* A document maps each place at which a response may keep its users to    *)
(* the list found there (one object counts as a list of one), or to        *)
(* NoList.  An entry is [name, md5, marks, figures]: its "name" or         *)
(* "username" (Blank if that is made of spaces), the user whose name       *)
(* "usermd5" is the hash of, the fields that mark it as disabled, and what *)
(* each of its figures reads: "over" or "under" the limit, or "none" if it *)
(* is not a number.                                                        *)
(***************************************************************************)
EXTENDS Sequences, FiniteSetsExt

CONSTANTS
    Names,    \* user names
    NoName,   \* the name, or the hash, of an entry without one
    Blank,    \* a name of spaces only
    NoList    \* what a place holds that is neither a list nor an object

ASSUME NoNameAssumption == NoName \notin Names /\ Blank \notin Names /\ Blank # NoName

(* Mutant: the flat list of a build without userstats is forgotten.         *)
PlacesNoFlat == <<"userstats.user", "users", "status.client", "client">>

(* The places, in the order in which a cycle and `test` look at them.       *)
Places ==
    <<"userstats.user", "users", "status.client", "user", "client">>

TestPlaces == <<"userstats.user", "users", "user">>

(* The figures that stand for ECM/min, the best one first.                  *)
FigureKeys ==
    <<"total_ecm_min", "ecm_per_min", "n_requ_m", "stats.n_requ_m",
      "stats.total_ecm_min", "stats.ecm_per_min", "stats.cwrate">>

-----------------------------------------------------------------------------
(* The interface.                                                           *)

(* Mutant: the other interface is not tried.                                *)
FetchOnce(ncam, answer) == IF ncam THEN answer.ncam ELSE answer.oscam

(* An answer is "ok", "missing" (404) or "failed"; the account file's name  *)
(* says which interface is asked first.                                     *)
Fetch(ncam, answer) ==
    LET first  == IF ncam THEN answer.ncam ELSE answer.oscam
        second == IF ncam THEN answer.oscam ELSE answer.ncam
    IN  IF first = "missing" THEN second ELSE first

-----------------------------------------------------------------------------
(* One entry.                                                               *)

IsDisabled(entry) == entry.marks # {}

(* The first figure, in the order of the keys, that is a number.            *)
Figure(entry) ==
    LET numeric == {k \in DOMAIN FigureKeys :
                      /\ FigureKeys[k] \in DOMAIN entry.figures
                      /\ entry.figures[FigureKeys[k]] \in {"over", "under"}}
    IN  IF numeric = {} THEN "none" ELSE entry.figures[FigureKeys[Min(numeric)]]

(* Mutant: a hash is looked up although the entry has a name.               *)
IdentityByHash(entry, page) ==
    IF entry.md5 \in page THEN entry.md5 ELSE entry.name

(* A name of spaces is stripped and counts for none.                        *)
HasName(entry) == entry.name \notin {NoName, Blank}

(* Whose entry it is, given the users that userconfig.html lists.           *)
Identity(entry, page) ==
    IF HasName(entry) THEN entry.name
    ELSE IF entry.md5 \in page THEN entry.md5
    ELSE NoName

-----------------------------------------------------------------------------
(* One document.                                                            *)

(* The first of the places that is not empty.                               *)
FirstList(document, places) ==
    LET filled == {k \in DOMAIN places :
                     /\ places[k] \in DOMAIN document
                     /\ document[places[k]] \notin {NoList, <<>>}}
    IN  IF filled = {} THEN <<>> ELSE document[places[Min(filled)]]

(* The first of the places that is a list at all: what the decision to      *)
(* fetch userconfig.html looks at.                                          *)
RawEntries(document) ==
    LET lists == {k \in DOMAIN Places :
                    /\ Places[k] \in DOMAIN document
                    /\ document[Places[k]] # NoList}
    IN  IF lists = {} THEN <<>> ELSE document[Places[Min(lists)]]

(* Every entry of the document, wherever it is.                             *)
AllEntries(document) ==
    UNION {{document[p][i] : i \in DOMAIN document[p]} :
             p \in {q \in DOMAIN document : document[q] # NoList}}

(* Mutant: an entry that nobody can be named for is monitored as well.      *)
MonitoredUnnamed(document, page) ==
    LET list   == FirstList(document, Places)
        User(i) == [at |-> i, name |-> Identity(list[i], page),
                    reading |-> Figure(list[i])]
    IN  {User(i) : i \in {j \in DOMAIN list : ~ IsDisabled(list[j])}}

(* normalize_userstats_body: one monitored user for each active entry whose *)
(* user is known, with its position in the list.                            *)
Monitored(document, page) ==
    LET list    == FirstList(document, Places)
        Known(i) == ~ IsDisabled(list[i]) /\ Identity(list[i], page) # NoName
        User(i)  == [at |-> i, name |-> Identity(list[i], page),
                     reading |-> Figure(list[i])]
    IN  {User(i) : i \in {j \in DOMAIN list : Known(j)}}

(* Mutant: userconfig.html is fetched only if nobody was recognised.        *)
NeedsUserConfigIfNobody(document, users) ==
    users = {} /\ \E e \in AllEntries(document) : e.md5 # NoName

(* Some entry has a hash for a name, or nobody was recognised although the  *)
(* response has hashes.  The name is not stripped here: one of spaces is a  *)
(* name.                                                                    *)
NeedsUserConfig(document, users) ==
    \/ \E i \in DOMAIN RawEntries(document) :
           LET e == RawEntries(document)[i] IN e.md5 # NoName /\ e.name = NoName
    \/ users = {} /\ \E e \in AllEntries(document) : e.md5 # NoName

(* The users a cycle monitors; the page is empty if it cannot be fetched.   *)
ReadUsers(document, page) ==
    LET users == Monitored(document, {})
    IN  IF NeedsUserConfig(document, users) THEN Monitored(document, page)
        ELSE users

(* validate_userstats_body: the entries for which `test` accepts a response.*)
Accepted(document) ==
    LET list == FirstList(document, TestPlaces)
    IN  {list[i] : i \in {j \in DOMAIN list :
            /\ ~ IsDisabled(list[j])
            /\ "total_ecm_min" \in DOMAIN list[j].figures
            /\ list[j].figures["total_ecm_min"] # "none"}}

=============================================================================
