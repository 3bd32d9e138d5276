--------------------------- MODULE PhaseContract ---------------------------
(***************************************************************************)
(* What the plugin promises about request executions, with no gates, calls *)
(* or threads: a policy, once there, stays in its filter.models class, an  *)
(* execution belongs to the phase of the policy it first met, and every    *)
(* attempt is transformed at most once, in the phase that owns it.         *)
(***************************************************************************)
EXTENDS Naturals

CONSTANTS Snapshots, ModelBearing, NoSnapshot, Requests

VARIABLES
    policy,      \* the policy in force, or NoSnapshot
    admitted,    \* the executions that have started
    first,       \* the policy each of them met first
    transforms   \* how often its current attempt has been transformed

cvars == <<policy, admitted, first, transforms>>

Init ==
    /\ policy = NoSnapshot
    /\ admitted = [r \in Requests |-> FALSE]
    /\ first = [r \in Requests |-> NoSnapshot]
    /\ transforms = [r \in Requests |-> 0]

Publish(s) ==
    /\ policy # NoSnapshot => (policy \in ModelBearing <=> s \in ModelBearing)
    /\ policy' = s
    /\ UNCHANGED <<admitted, first, transforms>>

Admit(r) ==
    /\ ~admitted[r]
    /\ admitted' = [admitted EXCEPT ![r] = TRUE]
    /\ first' = [first EXCEPT ![r] = policy]
    /\ UNCHANGED <<policy, transforms>>

\* The attempt is transformed: at admission if the policy it met has no models,
\* later if the policy in force has.
Transform(r) ==
    /\ admitted[r] /\ transforms[r] = 0
    /\ first[r] \in Snapshots \ ModelBearing \/ policy \in ModelBearing
    /\ transforms' = [transforms EXCEPT ![r] = 1]
    /\ UNCHANGED <<policy, admitted, first>>

\* A new attempt is still owed its transform only if the policy has models.
Retry(r) ==
    /\ transforms[r] = 1 /\ policy \in ModelBearing
    /\ transforms' = [transforms EXCEPT ![r] = 0]
    /\ UNCHANGED <<policy, admitted, first>>

Next ==
    \/ \E s \in Snapshots: Publish(s)
    \/ \E r \in Requests: Admit(r) \/ Transform(r) \/ Retry(r)

Spec == Init /\ [][Next]_cvars
=============================================================================
