-------------------------- MODULE MCBackendTransport --------------------------
(* Small instances of BackendTransport. *)
EXTENDS BackendTransport, TLC

MCSymmetry == Permutations(Caller \ Streams) \cup Permutations(Streams)
=============================================================================
