--------------------------- MODULE MCJournalStore ---------------------------
(* Interchangeable processes over one operation's files. *)
EXTENDS JournalStore, TLC

CallerSymmetry == Permutations(Caller)
=============================================================================
