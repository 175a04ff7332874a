-------------------------- MODULE GenerationFence --------------------------
(***************************************************************************)
(* What the search_index_state row promises, without jobs, workflows,      *)
(* artifacts or retries: the corpus has a desired generation, the index an *)
(* active one, and at most one job at a time holds the right to move the   *)
(* active generation to the generation it claimed.                         *)
(***************************************************************************)
EXTENDS Integers

CONSTANTS Job, None

VARIABLES
    desired,  \* generation of the corpus
    active,   \* generation of the index
    claim,    \* the holder and its target
    lapsed    \* the holder may be superseded

vars == <<desired, active, claim, lapsed>>

Free == [job |-> None, target |-> 0]

Init ==
    /\ desired = 1
    /\ active = 0
    /\ claim = Free
    /\ lapsed = FALSE

Change ==
    /\ desired' = desired + 1
    /\ UNCHANGED <<active, claim, lapsed>>

\* A claim is granted when nobody holds one that still counts, for the corpus
\* as it is now.
Acquire(j) ==
    /\ claim.job = None \/ lapsed
    /\ claim' = [job |-> j, target |-> desired]
    /\ lapsed' = FALSE
    /\ UNCHANGED <<desired, active>>

\* The holder loses its protection, not yet its claim.
Lapse ==
    /\ claim.job # None
    /\ lapsed' = TRUE
    /\ UNCHANGED <<desired, active, claim>>

\* Only a holder activates, only its target, and it gives up the claim.
Activate ==
    /\ claim.job # None
    /\ active' = claim.target
    /\ claim' = Free
    /\ lapsed' = FALSE
    /\ UNCHANGED desired

Release ==
    /\ claim' = Free
    /\ lapsed' = FALSE
    /\ UNCHANGED <<desired, active>>

Next == Change \/ (\E j \in Job : Acquire(j)) \/ Lapse \/ Activate \/ Release

Spec == Init /\ [][Next]_vars
=============================================================================
