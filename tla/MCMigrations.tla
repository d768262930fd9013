--------------------------- MODULE MCMigrations ---------------------------
(* Bounded instances of Migrations. *)
EXTENDS Migrations, FiniteSets

CONSTANTS api, worker, i1

MCBoth == {api, worker}
MCIds == {i1}

(* One version with overlapping start-ups, and then at most one fault. *)
MCBounds == Cardinality(overlapped) <= 1 /\ (overlapped = {} \/ faults <= 1)
=============================================================================
