---------------------------- MODULE SourceRegister ----------------------------
(***************************************************************************)
(* What the synchroniser promises about a source, without locks, readers   *)
(* and schedules: the mapping of a source is only ever written with the    *)
(* configuration that is stored at that moment, and a deleted source is    *)
(* written no more.                                                        *)
(***************************************************************************)
EXTENDS Naturals

CONSTANT Sources
VARIABLES
  state,     \* state[s]: absent, stored or deleted
  version,   \* version[s]: number of the stored configuration
  written    \* written[s]: configuration the mapping was written with, 0: none

vars == <<state, version, written>>

Init ==
  /\ state \in [Sources -> {"absent", "stored"}]
  /\ version = [s \in Sources |-> IF state[s] = "stored" THEN 1 ELSE 0]
  /\ written = [s \in Sources |-> 0]

Create(s) ==
  /\ state[s] = "absent"
  /\ state' = [state EXCEPT ![s] = "stored"]
  /\ version' = [version EXCEPT ![s] = 1]
  /\ UNCHANGED written

Configure(s) ==
  /\ state[s] = "stored"
  /\ version' = [version EXCEPT ![s] = @ + 1]
  /\ UNCHANGED <<state, written>>

Write(s) ==
  /\ state[s] = "stored"
  /\ written' = [written EXCEPT ![s] = version[s]]
  /\ UNCHANGED <<state, version>>

Delete(s) ==
  /\ state' = [state EXCEPT ![s] = "deleted"]
  /\ written' = [written EXCEPT ![s] = 0]
  /\ UNCHANGED version

Next == \E s \in Sources : Create(s) \/ Configure(s) \/ Write(s) \/ Delete(s)

Spec == Init /\ [][Next]_vars
=============================================================================
