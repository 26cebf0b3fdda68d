----------------------------- MODULE MCMigrator -----------------------------
(* An instance of Migrator for TLC, with the kinds of migrations there     *)
(* are: helpers that may be made twice (0001), a table that uses them      *)
(* (0002), one that refers to neither (0013), and a change of that one     *)
(* that can be made again (as 0017 of 0011).                               *)
EXTENDS Migrator, TLC

MCNeeds == 1 :> {} @@ 2 :> {1} @@ 3 :> {} @@ 4 :> {3}

Runners == Permutations(Runner)
============================================================================
