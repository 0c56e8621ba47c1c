--------------------------- MODULE MCSQLiteStore ----------------------------
(* Small instances of SQLiteStore. *)
EXTENDS SQLiteStore

CONSTANTS k1, k2, m1, m2

Symmetry == Permutations(Keys) \cup Permutations(Messages)
=============================================================================
