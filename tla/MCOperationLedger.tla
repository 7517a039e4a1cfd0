-------------------------- MODULE MCOperationLedger --------------------------
(* The ledger with a few action identities, interchangeable for TLC. *)
EXTENDS OperationLedger, TLC

ActionSymmetry == Permutations(ActionId)
=============================================================================
