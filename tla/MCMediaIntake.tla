---------------------------- MODULE MCMediaIntake ----------------------------
(* Small instances of MediaIntake for TLC.                                 *)
EXTENDS MediaIntake, TLC

CONSTANTS a1, a2, q1, q2

(* Two requests about one asset, or about two: which of the two assets the *)
(* first one asks about is the same to every property.                     *)
MCOwned == (q1 :> {a1} @@ q2 :> {a1, a2})
=============================================================================
