---------------------------- MODULE MCPollCycle ----------------------------
(* An instance of PollCycle for TLC: the users me and other, and responses   *)
(* of every shape the code looks for.                                        *)
EXTENDS PollCycle, TLC

CONSTANTS me, other

E(name, md5, marks, key, reading) ==
    [name |-> name, md5 |-> md5, marks |-> marks, figures |-> key :> reading]

Named(u, r)  == E(u, u, {}, "total_ecm_min", r)
Hashed(u, r) == E(NoName, u, {}, "total_ecm_min", r)
Spaced(u, r) == E(Blank, u, {}, "total_ecm_min", r)

(* Disabled by its status only; a figure that is no number beside one that   *)
(* is; the hash of another user beside a name; nobody.                       *)
Entries ==
    {Named(me, "over"), Named(me, "under"), Hashed(me, "over"),
     Named(other, "over"), Hashed(other, "over"), Spaced(me, "over"),
     E(me, me, {"status"}, "total_ecm_min", "over"),
     [Named(me, "none") EXCEPT !.figures = @ @@ ("n_requ_m" :> "over")],
     E(other, me, {}, "stats.cwrate", "over"),
     Hashed(NoName, "over")}

Lists(n) == UNION {[1..k -> Entries] : k \in 0..n}

(* One list of up to two entries; a short one at each place; two places.     *)
SomeDocuments ==
    {"userstats.user" :> l : l \in Lists(2)}
    \cup {p :> l : p \in Range(Places) \ {"userstats.user"}, l \in Lists(1)}
    \cup {("users" :> first) @@ ("user" :> <<e>>) :
            first \in {<<>>, NoList, <<Named(other, "over")>>},
            e \in Entries}
    \cup {("status.client" :> <<e>>) @@ ("user" :> <<Named(me, "over")>>) :
            e \in Entries}

(* The list of clients has one entry per connection.                         *)
Connections == {"status.client" :> l : l \in Lists(2)}

SomePages == {{}, {me}, {me, other}}
=============================================================================
