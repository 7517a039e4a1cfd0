---------------------------- MODULE MCTabCoordinator ----------------------------
(* Small instances of TabCoordinator. *)
EXTENDS TabCoordinator, TLC

\* Slots are interchangeable, and so are tabs.
MCSymmetry == Permutations(Request) \cup Permutations(Tab)

-----------------------------------------------------------------------------
(* For liveness, where symmetry is not sound: *)

\* a request takes the first slot that is free;
SlotOrder == CHOOSE order \in [1..Cardinality(Request) -> Request] :
                \A i, j \in DOMAIN order : order[i] = order[j] => i = j
FirstFreeSlot(r) ==
    \E i \in DOMAIN SlotOrder : SlotOrder[i] = r /\ \A j \in 1..(i - 1) : Live(SlotOrder[j])

\* the browser's own queue holds one priority, the tab's any mix of them.
Priorities(a) == IF a = Browser THEN {"mutation"} ELSE Priority

MCTurnsNext ==
    \/ \E r \in Request :
        \/ FirstFreeSlot(r) /\ \E a \in Resource : \E p \in Priorities(a),
                                  parent \in Request \cup {Nobody} :
              Enqueue(r, a, p, parent)
        \/ CancelQueued(r) \/ CancelInFlight(r) \/ Age(r)
        \/ CallBack(r) \/ Settle(r)
    \/ Refuse
    \/ \E a \in Resource : StartNext(a)
    \/ \E g \in Gates : GateDrain(g)

MCTurnsSpec == CoordInit /\ [][MCTurnsNext]_coordVars /\ CoordFairness
=============================================================================
