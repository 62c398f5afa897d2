---------------------------- MODULE MCInstances ----------------------------
(* An instance of Instances for TLC: two instances, with one account file    *)
(* or two.                                                                   *)
EXTENDS Instances, TLC

CONSTANTS a, b, p, q, u, v

L(kind, value) == [kind |-> kind, value |-> value, nl |-> TRUE]

(* Accounts without a flag, a foreign section between them, the last line    *)
(* unfinished; and a file with one account only, after a block without user. *)
SomeContent ==
    [path \in {p, q} |->
        IF path = p
        THEN <<L("account", "none"), L("user", u),
               L("section", "none"), L("disabled", "1"),
               L("account", "none"), L("other", "none"),
               [L("user", v) EXCEPT !.nl = FALSE]>>
        ELSE <<L("account", "none"), L("disabled", "1"),
               L("account", "none"), L("disabled", "0"), L("user", u)>>]

(* Both instances, or the second one deleted some time ago.                  *)
SomeInstances == {<<a, b>>, <<a>>}

(* A file for each instance, or one for both.                                *)
SomeLayouts == {(a :> p) @@ (b :> q), (a :> p) @@ (b :> p)}
=============================================================================
