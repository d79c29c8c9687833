-------------------------- MODULE MCPagePingPong --------------------------
(* Instances of PagePingPong for TLC. *)
EXTENDS PagePingPong, TLC

(* Workers and properties are interchangeable where no liveness is checked. *)
Symmetry == Permutations(Readers) \union Permutations(Props)
=============================================================================
