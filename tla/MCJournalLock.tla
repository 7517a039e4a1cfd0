--------------------------- MODULE MCJournalLock ---------------------------
(* A small instance of JournalLock: three processes of one host. *)
EXTENDS JournalLock

OneHost == [p \in Process |-> "host"]
=============================================================================
