---------------------------- MODULE MCJournalQuota ----------------------------
(* A small instance of JournalQuota. *)
EXTENDS JournalQuota, TLC

QuotaSymmetry == Permutations(Operation)
=============================================================================
