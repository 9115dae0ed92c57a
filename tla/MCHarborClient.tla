--------------------------- MODULE MCHarborClient ---------------------------
(***************************************************************************)
(* HarborClient for TLC: the bridge of cluster "prod" beside the one of    *)
(* "eu-prod", whose robot names end alike.                                 *)
(***************************************************************************)
EXTENDS HarborClient, TLC

Configured == <<"robot", "$">>
Longer == <<"robot", "$", "ci">>   \* the configured prefix and more
Doubled == <<"robot", "$", "$">>   \* likewise, but no name begins with "$"
Other == <<"my", "$">>

prod == <<"prod">>
euProd == <<"eu", "prod">>
ci == <<"ci">>

Kind(p, f, r, s) == [prefix |-> p, filter |-> f, range |-> r, sort |-> s]

\* Every parameter honoured, and each one ignored, except the sort alone.
Kinds == {Kind(p, TRUE, TRUE, TRUE) : p \in {Configured, Longer, Doubled, Other}}
         \cup {Kind(p, FALSE, TRUE, TRUE) : p \in {Configured, Longer}}
         \cup {Kind(Configured, f, FALSE, s) : f, s \in BOOLEAN}

Robot(i, n) == [id |-> i, name |-> n, editable |-> TRUE]
Legacy(i) == [id |-> i, name |-> Configured \o ci, editable |-> FALSE]

Few == {Robot(1, euProd)}
Many == {Legacy(1), Robot(2, euProd), Robot(3, prod)}

Planned(k, rs, v, n) == [harbor |-> k, robots |-> rs, versions |-> v, changes |-> n]

\* Robots come and go; then the Secret does, and then both.
AllKinds == {Planned(k, rs, 1, 3) : k \in Kinds, rs \in {Few, Many}}
            \cup {Planned(Kind(Configured, TRUE, TRUE, TRUE), Few, 4, 0)}
            \cup {Planned(Kind(Configured, TRUE, TRUE, TRUE), Many, 2, 1)}

AllNames == {prod, euProd, ci, Configured \o ci}
Asked == {prod, euProd}
=============================================================================
