-------------------------- MODULE MCRequestEngine --------------------------
(* Instances of RequestEngine for TLC: one request, filed by a manager who  *)
(* is an administrator and holds the review permission; a second manager,   *)
(* to whom the first reports; and HR, who also reviews the second step.     *)
EXTENDS RequestEngine, TLC

CONSTANTS alice, bob, carol, r1

MCRequester == [r \in {r1} |-> alice]
MCManager == [u \in {alice, bob, carol} |-> IF u = alice THEN bob ELSE carol]
MCHolds == [u \in {alice, bob, carol} |->
              CASE u = alice -> {"step1", "rbac"}
                [] u = bob   -> {"step1"}
                [] u = carol -> {"step1", "step2", "manage", "rbac"}]

MCDelegable == {<<bob, carol>>, <<alice, bob>>}
ToRequester == {<<bob, alice>>}

CallSymmetry == Permutations(Calls)
=============================================================================
