------------------------- MODULE MCReshareControl -------------------------
(* Instances of ReshareControl for TLC: named users, policies and responses. *)
EXTENDS ReshareControl, TLC

CONSTANTS u1, u2, s1, s2

OneUser  == {u1}
TwoUsers == {u1, u2}

(* u1 is stopped for a minute; u2 follows the instance's auto_stop with no   *)
(* end to the stop.                                                          *)
PolicyMixed   == (u1 :> "stop") @@ (u2 :> "global")
DurationMixed == (u1 :> 1) @@ (u2 :> 0)

(* u2 is only watched.                                                       *)
PolicyWatch   == (u1 :> "stop") @@ (u2 :> "notify")

(* Of u1 a response may have two readings.                                   *)
OneEntry   == [u \in Users |-> 1]
TwoEntries == [u \in Users |-> IF u = u1 THEN 2 ELSE 1]
NoneOfU2   == [u \in Users |-> IF u = u1 THEN 1 ELSE 0]

StopOne     == u1 :> "stop"
DurationOne == u1 :> 1
=============================================================================
