------------------------------- MODULE OneShot -------------------------------
(***************************************************************************)
(* What the operation core promises about an effect it must not repeat (a  *)
(* Send, a file handoff): a durable intent first, then at most one         *)
(* activation, and a confirmation only of an activation that took place.   *)
(***************************************************************************)
EXTENDS Naturals

VARIABLES
    intended,     \* the intent is in the journal
    activations,  \* how often the browser was asked for the effect
    confirmed     \* the journal holds the proof that the effect happened

vars == <<intended, activations, confirmed>>

Init ==
    /\ intended = FALSE
    /\ activations = 0
    /\ confirmed = FALSE

Intend ==
    /\ ~intended
    /\ intended' = TRUE
    /\ UNCHANGED <<activations, confirmed>>

Activate ==
    /\ intended
    /\ ~confirmed
    /\ activations = 0
    /\ activations' = 1
    /\ UNCHANGED <<intended, confirmed>>

Confirm ==
    /\ intended
    /\ activations = 1
    /\ confirmed' = TRUE
    /\ UNCHANGED <<intended, activations>>

Next == Intend \/ Activate \/ Confirm

Spec == Init /\ [][Next]_vars
=============================================================================
