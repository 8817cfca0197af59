------------------------------- MODULE Exits -------------------------------
(* What administrators write and requests read: exits with their names, the *)
(* settings that routing depends on, the bindings of accounts, and the      *)
(* copies of them in memory (internal/upstream, settings, acctegress).      *)
EXTENDS Naturals, FiniteSets

CONSTANTS
  Ids,        \* ids of exits
  Names,      \* names of exits
  None,       \* no name: no default upstream is set
  Absent,     \* no row
  Accounts,   \* identities that requests carry
  Offered     \* the other settings that administrators choose among

VARIABLES
  settings,   \* settings.Holder
  table,      \* upstream.Table of the server
  bound       \* acctegress.Table of the server: the exits of each account

memory == <<settings, table, bound>>

ASSUME ExitAssumption ==
  /\ None \notin Names
  /\ Absent \notin [name : Names, on : BOOLEAN]
  /\ Offered \subseteq [policy : {"session", "direct"}, block : BOOLEAN, allow : BOOLEAN]

Row == [name : Names, on : BOOLEAN]
Table == [Ids -> Row \cup {Absent}]
NoTable == [i \in Ids |-> Absent]

Has(t, i) == t[i] # Absent
Named(t, n) == {i \in Ids : Has(t, i) /\ t[i].name = n}

UniqueNames(t) ==
  \A i, j \in Ids : Has(t, i) /\ Has(t, j) /\ t[i].name = t[j].name => i = j

\* upstream.Table.Select finds something: an exit of this name that is enabled.
Usable(t, n) == \E i \in Named(t, n) : t[i].on

\* settings.Snapshot. policy is what happens to requests without an identity,
\* block is BlockPrivateTargets, allow the verdict of the ACL on the hosts of the
\* model.
Snapshot == [default : Names \cup {None}, policy : {"session", "direct"},
             block : BOOLEAN, allow : BOOLEAN]
Chosen(n, o) == [default |-> n, policy |-> o.policy, block |-> o.block, allow |-> o.allow]
NoSnapshot == [default |-> None, policy |-> "session", block |-> TRUE, allow |-> TRUE]
=============================================================================
