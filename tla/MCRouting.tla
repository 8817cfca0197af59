----------------------------- MODULE MCRouting -----------------------------
(* A small instance of Routing. *)
EXTENDS Routing, TLC

MCOffered == {[policy |-> "session", block |-> TRUE, allow |-> TRUE],
              [policy |-> "direct", block |-> FALSE, allow |-> TRUE],
              [policy |-> "session", block |-> TRUE, allow |-> FALSE]}
MCSymmetry == Permutations(Ids) \cup Permutations(Names)
=============================================================================
