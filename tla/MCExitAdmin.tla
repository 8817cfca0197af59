---------------------------- MODULE MCExitAdmin ----------------------------
(* A small instance of ExitAdmin. *)
EXTENDS ExitAdmin, TLC

MCOffered == {[policy |-> "session", block |-> TRUE, allow |-> TRUE],
              [policy |-> "direct", block |-> FALSE, allow |-> FALSE]}
MCSymmetry == Permutations(Names)
=============================================================================
