---------------------------- MODULE TokenBuckets ----------------------------
(***************************************************************************)
(* What the source limiter of the credential endpoint promises: one token  *)
(* bucket per source, full at first, that fills with time and that every   *)
(* admitted request takes a token from.  A request is refused only when    *)
(* its bucket holds less than a token.  Buckets are never forgotten.       *)
(*                                                                         *)
(* A bucket's level is counted in the units that one step of the clock     *)
(* fills in, so that a token is worth Cost of them.                        *)
(***************************************************************************)
EXTENDS Integers

CONSTANTS
    Sources,    \* the source addresses
    Capacity,   \* the units in a full bucket
    Cost        \* the units of one token

VARIABLES
    level,      \* the units in every source's bucket
    verdict     \* every source's last answer: TRUE when it was admitted

bucketVars == <<level, verdict>>

BucketsInit ==
    /\ level = [s \in Sources |-> Capacity]
    /\ verdict = [s \in Sources |-> TRUE]

\* One step of the clock.
Fill == /\ level' = [s \in Sources |-> IF level[s] < Capacity THEN level[s] + 1 ELSE Capacity]
        /\ UNCHANGED verdict

Admit(s) == /\ level[s] >= Cost
            /\ level' = [level EXCEPT ![s] = @ - Cost]
            /\ verdict' = [verdict EXCEPT ![s] = TRUE]

Refuse(s) == /\ level[s] < Cost
             /\ verdict' = [verdict EXCEPT ![s] = FALSE]
             /\ UNCHANGED level

BucketsNext == Fill \/ \E s \in Sources : Admit(s) \/ Refuse(s)

BucketsSpec == BucketsInit /\ [][BucketsNext]_bucketVars
=============================================================================
