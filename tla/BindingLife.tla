----------------------------- MODULE BindingLife -----------------------------
(***************************************************************************)
(* What the account tables promise about bindings, without rows, owners or *)
(* credentials: the accounts that exist and those bound to some exit.  An  *)
(* account that disappears takes its bindings along in the same step; no   *)
(* other change of the accounts touches a binding; and only an account     *)
(* that exists is ever bound.                                              *)
(***************************************************************************)
CONSTANT Accounts
VARIABLES alive, bound

Init == alive = {} /\ bound = {}

\* A synchronisation, a push or a deletion.
AccountsChange ==
  /\ alive' \in SUBSET Accounts
  /\ bound' = bound \cap alive'

\* The administrator binds or unbinds accounts, or deletes an exit.
BindingsChange ==
  /\ bound' \in SUBSET alive
  /\ UNCHANGED alive

Next == AccountsChange \/ BindingsChange

Spec == Init /\ [][Next]_<<alive, bound>>
=============================================================================
