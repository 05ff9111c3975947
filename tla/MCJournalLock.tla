--------------------------- MODULE MCJournalLock ---------------------------
(* Instances of the journal lock for TLC. *)
EXTENDS JournalLock, TLC

CrashOnly == {"crash"}
AllFaults == {"crash", "write", "stall"}

Symmetry == Permutations(Procs) \cup Permutations(Gens)
=============================================================================
