---------------------------- MODULE MCLambdaApi ----------------------------
(***************************************************************************)
(* Model checking of the REST interface on its own.                        *)
(***************************************************************************)
EXTENDS LambdaApiProperties, TLC

Symmetry == Permutations(Requests) \union Permutations(Users)
=============================================================================
