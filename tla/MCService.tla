------------------------------ MODULE MCService ------------------------------
(***************************************************************************)
(* Model checking of the REST interface and the listener together.         *)
(***************************************************************************)
EXTENDS ServiceProperties, TLC

Symmetry == Permutations(Requests) \union Permutations(Users)
              \union Permutations(FileNames) \union Permutations(Types)
=============================================================================
