------------------------------ MODULE LiveTables ------------------------------
(***************************************************************************)
(* The copies of three tables that requests are routed by: the account     *)
(* registry (acct_map), the bindings (acct_egress) and the upstreams.      *)
(* Whoever changes a table commits a transaction and then reads the table  *)
(* again and swaps the copy.  For the registry and the bindings, read and  *)
(* swap happen under mapChangeMu (finishMapChange, reloadAcctEgress); for  *)
(* the upstreams nothing is held (rebuildTable).                           *)
(*                                                                         *)
(* The contents of a table is the number of the transaction that last      *)
(* changed it, the contents of a copy the number of transactions that were *)
(* committed when it was read.  A job is a request of the admin API or one *)
(* write of a synchronisation.                                             *)
(***************************************************************************)
EXTENDS Naturals

CONSTANTS
  Jobs,
  NoJob,
  MaxWrites    \* bound on the transactions of a behaviour

ASSUME JobsAssumption == NoJob \notin Jobs /\ MaxWrites \in Nat

Guarded == {"acct_map", "acct_egress"}    \* tables reloaded under mapChangeMu
Tables == Guarded \cup {"upstreams"}
NoRead == [at |-> 0, done |-> FALSE]

VARIABLES
  clock,         \* transactions committed
  written,       \* written[t]: the transaction that last changed table t
  live,          \* live[t]: transactions committed when the copy was read
  todo,          \* todo[j]: the copies job j still has to reload
  read,          \* read[j]: what it has read for the first of them
  mapChangeMu,   \* the job that holds the lock
  stale          \* history: copies that a failed reload left behind

vars == <<clock, written, live, todo, read, mapChangeMu, stale>>

TypeOK ==
  /\ clock \in Nat
  /\ written \in [Tables -> 0..clock]
  /\ live \in [Tables -> 0..clock]
  /\ todo \in [Jobs -> SUBSET Tables]
  /\ read \in [Jobs -> [at : 0..clock, done : BOOLEAN]]
  /\ mapChangeMu \in Jobs \cup {NoJob}
  /\ stale \subseteq Tables
  /\ \A j \in Jobs : mapChangeMu = j \/ read[j].done => todo[j] # {}

Init ==
  /\ clock = 0
  /\ written = [t \in Tables |-> 0]
  /\ live = [t \in Tables |-> 0]
  /\ todo = [j \in Jobs |-> {}]
  /\ read = [j \in Jobs |-> NoRead]
  /\ mapChangeMu = NoJob
  /\ stale = {}

-----------------------------------------------------------------------------
\* A transaction that changes some of these tables, and the reloads its caller
\* makes afterwards, changed or not.
Commit(j, tables, reloads) ==
  /\ todo[j] = {}
  /\ clock < MaxWrites
  /\ clock' = clock + 1
  /\ written' = [t \in Tables |-> IF t \in tables THEN clock + 1 ELSE written[t]]
  /\ todo' = [todo EXCEPT ![j] = reloads]
  /\ UNCHANGED <<live, read, mapChangeMu, stale>>

\* The bindings collected with the last row of an account are not reloaded.
ChangeMap_Wrong(j) ==
  \E tables \in {{"acct_map"}, Guarded} : Commit(j, tables, {"acct_map"})

\* A synchronisation, a push, a deletion of an account, a token or a source.
ChangeMap(j) == \E tables \in {{"acct_map"}, Guarded} : Commit(j, tables, Guarded)

\* Bindings replaced, removed or cleared.
ChangeBindings(j) == Commit(j, {"acct_egress"}, {"acct_egress"})

\* An upstream created, updated or made the default, or settings saved.
ChangeUpstream(j) == Commit(j, {"upstreams"}, {"upstreams"})

\* An upstream deleted together with its bindings.
DeleteUpstream(j) ==
  \E tables \in {{"upstreams"}, {"upstreams", "acct_egress"}} :
    Commit(j, tables, {"upstreams", "acct_egress"})

\* The bindings first.
First_Wrong(S) ==
  IF "upstreams" \in S THEN "upstreams"
  ELSE IF "acct_egress" \in S THEN "acct_egress" ELSE "acct_map"

\* The copy that is reloaded first: the upstreams, then the registry.
First(S) ==
  IF "upstreams" \in S THEN "upstreams"
  ELSE IF "acct_map" \in S THEN "acct_map" ELSE "acct_egress"

Lock(j) ==
  /\ todo[j] # {} /\ First(todo[j]) \in Guarded
  /\ mapChangeMu = NoJob
  /\ mapChangeMu' = j
  /\ UNCHANGED <<clock, written, live, todo, read, stale>>

\* The table is read before the lock is asked for.
MayRead_Wrong(j) == todo[j] # {}

MayRead(j) ==
  /\ todo[j] # {}
  /\ First(todo[j]) \in Guarded => mapChangeMu = j

Read(j) ==
  /\ MayRead(j) /\ ~read[j].done
  /\ read' = [read EXCEPT ![j] = [at |-> clock, done |-> TRUE]]
  /\ UNCHANGED <<clock, written, live, todo, mapChangeMu, stale>>

\* Nobody unlocks.
Leave_Wrong(j, rest) ==
  /\ todo' = [todo EXCEPT ![j] = rest]
  /\ UNCHANGED mapChangeMu

\* The lock is released with the last reload made under it.
Leave(j, rest) ==
  /\ todo' = [todo EXCEPT ![j] = rest]
  /\ mapChangeMu' = IF rest = {} /\ mapChangeMu = j THEN NoJob ELSE mapChangeMu

Swap(j) ==
  LET t == First(todo[j])
  IN  /\ read[j].done
      /\ First(todo[j]) \in Guarded => mapChangeMu = j
      /\ live' = [live EXCEPT ![t] = read[j].at]
      /\ stale' = IF read[j].at < written[t] THEN stale ELSE stale \ {t}
      /\ read' = [read EXCEPT ![j] = NoRead]
      /\ Leave(j, todo[j] \ {t})
      /\ UNCHANGED <<clock, written>>

\* Reading fails.  After the registry the bindings are not tried; after the
\* upstreams they are.
ReadFails(j) ==
  LET t == First(todo[j])
      rest == IF t = "upstreams" THEN todo[j] \ {t} ELSE {}
  IN  /\ MayRead(j) /\ ~read[j].done
      /\ stale' = stale \cup (todo[j] \ rest)
      /\ Leave(j, rest)
      /\ UNCHANGED <<clock, written, live, read>>

\* The process dies and starts again: it loads all copies before it serves, and
\* starts with an empty registry when that table cannot be read.
Restart(missing) ==
  /\ live' = [t \in Tables |-> IF t \in missing THEN 0 ELSE clock]
  /\ todo' = [j \in Jobs |-> {}]
  /\ read' = [j \in Jobs |-> NoRead]
  /\ mapChangeMu' = NoJob
  /\ stale' = missing
  /\ UNCHANGED <<clock, written>>

Work(j) == Read(j) \/ Swap(j) \/ ReadFails(j)

Next ==
  \/ \E j \in Jobs :
       \/ ChangeMap(j) \/ ChangeBindings(j) \/ ChangeUpstream(j) \/ DeleteUpstream(j)
       \/ Lock(j) \/ Work(j)
  \/ \E missing \in SUBSET {"acct_map"} : Restart(missing)

\* A goroutine that can run does, and sync.Mutex starves none of its waiters.
Fairness == \A j \in Jobs : WF_vars(Work(j)) /\ SF_vars(Lock(j))

Spec == Init /\ [][Next]_vars /\ Fairness

-----------------------------------------------------------------------------
(* Properties.                                                             *)

NobodyReloads(t) == \A j \in Jobs : t \notin todo[j]
Current(t) == NobodyReloads(t) /\ t \notin stale => live[t] >= written[t]

\* When no job has a reload ahead of it, the registry and the bindings show
\* every committed change, whatever the order in which the jobs committed, read
\* and swapped (acctegress.go:20-22): only a failed reload leaves them behind.
GuardedCurrent == \A t \in Guarded : Current(t)

\* A job never puts back an older registry or older bindings over newer ones
\* (mapChangeMu, syncer.go:65-67).
NeverBackwards ==
  [][(\E j \in Jobs : Swap(j)) => \A t \in Guarded : live'[t] >= live[t]]_vars

\* Outside the lock the bindings are at least as new as the registry: an
\* account that the registry has lost is bound to nothing any more.
BindingsFollowRegistry ==
  mapChangeMu = NoJob /\ "acct_egress" \notin stale =>
    live["acct_egress"] >= live["acct_map"]

\* Every committed change of the registry or the bindings is live in the end,
\* or the reload has failed.
ChangesShow ==
  \A t \in Guarded : \A n \in 1..MaxWrites :
    written[t] = n ~> live[t] >= n \/ t \in stale
=============================================================================
