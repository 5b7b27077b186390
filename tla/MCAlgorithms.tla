------------------------------ MODULE MCAlgorithms ------------------------------
EXTENDS Algorithms

(* Two components, two composites that share one of them in fractions, a    *)
(* service, a composite with no recipe and one with a service in it.        *)
MCKind == <<"physical", "physical", "composite", "composite", "untracked",
            "composite", "composite">>

None == [i \in {} |-> 1]

MCRecipe == [i \in 1 .. 7 |->
  CASE i = 3 -> (1 :> 5) @@ (2 :> 2)
    [] i = 4 -> (1 :> 2)
    [] i = 7 -> (1 :> 4) @@ (5 :> 4)
    [] OTHER -> None]

=============================================================================
