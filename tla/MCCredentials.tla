--------------------------- MODULE MCCredentials ---------------------------
EXTENDS Credentials, TLC

CONSTANTS sa1, sa2, n1, n2

MCSources == {n1, n2}
MCServiceAccounts == {sa1, sa2}
MCHarborAccesses == {1, 2}
MCReplicas == {1, 2}

Quiet == [accounts |-> <<sa1, Gone>>, ttl |-> 4, start |-> "new",
          pods |-> n1 :> sa1 @@ n2 :> Gone, up |-> {1}, clock |-> <<0, 0>>,
          limited |-> FALSE, until |-> 0, edits |-> 0, faults |-> 0, admin |-> 0]

\* A scheduled rotation, with replicas whose clocks differ by all of Skew.
Rotations == {[Quiet EXCEPT !.start = "served", !.up = {1, 2}, !.clock = <<0, 1>>, !.until = 6]}
\* A fault on the way.
Faults == {[Quiet EXCEPT !.start = "served", !.until = 7, !.faults = 1]}
\* An administrator.
Admin == {[Quiet EXCEPT !.until = 2, !.admin = 1]}
\* The Secret of a bridge without promises.
Legacy == {[Quiet EXCEPT !.start = "legacy", !.until = 7, !.ttl = 0]}
\* A HarborAccess moves to another service account and back.
Moves == {[Quiet EXCEPT !.edits = 2]}
\* Two HarborAccess objects for one service account.
Twins == {[Quiet EXCEPT !.accounts = <<sa1, sa1>>, !.edits = 1]}
\* Two nodes at the limiter.
Limits == {[Quiet EXCEPT !.accounts = <<Gone, Gone>>, !.pods = n1 :> sa1 @@ n2 :> sa1,
                         !.limited = TRUE, !.until = 5]}

MCPlans == Rotations \cup Faults \cup Admin \cup Legacy \cup Moves \cup Twins \cup Limits
=============================================================================
