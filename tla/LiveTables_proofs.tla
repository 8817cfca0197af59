--------------------------- MODULE LiveTables_proofs ---------------------------
(***************************************************************************)
(* Proofs about LiveTables, for any number of jobs and transactions.       *)
(***************************************************************************)
EXTENDS LiveTables, TLAPS

ReadingGuarded(j) == read[j].done /\ First(todo[j]) \in Guarded

\* Whoever has read a guarded table holds the lock, and the lock is only held
\* for guarded tables.
LockInv ==
  \A j \in Jobs : /\ mapChangeMu = j => First(todo[j]) \in Guarded
                  /\ ReadingGuarded(j) => mapChangeMu = j

\* What the holder of the lock has read is not older than any guarded copy.
ReadInv == \A j \in Jobs : ReadingGuarded(j) => \A t \in Guarded : live[t] <= read[j].at

\* A copy shows the last change, or was left behind by a failure, or a job will
\* reload it and has not read an older table for that.
Pending(j, t) ==
  /\ t \in todo[j]
  /\ read[j].done /\ First(todo[j]) = t => read[j].at >= written[t]
ShownInv ==
  \A t \in Guarded : live[t] >= written[t] \/ t \in stale \/ \E j \in Jobs : Pending(j, t)

\* The bindings are only older than the registry while the job that swapped the
\* registry still holds the lock.
CoverInv ==
  /\ \A j \in Jobs : "acct_map" \in todo[j] => "acct_egress" \in todo[j]
  /\ \/ live["acct_egress"] >= live["acct_map"]
     \/ "acct_egress" \in stale
     \/ \E j \in Jobs : mapChangeMu = j /\ todo[j] = {"acct_egress"}

Inv == TypeOK /\ LockInv /\ ReadInv /\ ShownInv /\ CoverInv

-----------------------------------------------------------------------------
\* The copy reloaded first is one of those to reload.
LEMMA FirstIn == ASSUME NEW S \in SUBSET Tables, S # {} PROVE First(S) \in S
BY DEF First, Tables, Guarded

\* Initially no copy is behind.
LEMMA InitInv == Init => Inv
BY JobsAssumption DEF Init, Inv, TypeOK, LockInv, ReadInv, ShownInv, CoverInv,
                      ReadingGuarded, NoRead, Tables, Guarded

\* A committed change is pending with the job that made it.
LEMMA CommitInv ==
  ASSUME Inv, NEW j \in Jobs, NEW tables \in SUBSET Tables, NEW reloads \in SUBSET Tables,
         tables \subseteq reloads, reloads # {},
         "acct_map" \in reloads => "acct_egress" \in reloads,
         Commit(j, tables, reloads)
  PROVE  Inv'
<1> USE DEF Inv, Commit
<1>1. ~read[j].done /\ mapChangeMu # j
  BY DEF TypeOK
<1>2. \A k \in Jobs : k # j => todo'[k] = todo[k]
  BY DEF TypeOK
<1>3. todo'[j] = reloads
  BY DEF TypeOK
<1>4. TypeOK'
  <2>1. clock' \in Nat /\ 0..clock \subseteq 0..clock'
    BY DEF TypeOK
  <2>2. written' \in [Tables -> 0..clock']
    BY DEF TypeOK
  <2>3. live' \in [Tables -> 0..clock'] /\ read' \in [Jobs -> [at : 0..clock', done : BOOLEAN]]
    BY <2>1 DEF TypeOK
  <2>4. \A k \in Jobs : mapChangeMu' = k \/ read'[k].done => todo'[k] # {}
    BY <1>1, <1>2, <1>3 DEF TypeOK
  <2> QED
    BY <2>1, <2>2, <2>3, <2>4 DEF TypeOK
<1>5. \A k \in Jobs : ReadingGuarded(k)' => ReadingGuarded(k)
  BY <1>1, <1>2 DEF ReadingGuarded
<1>6. LockInv'
  BY <1>1, <1>2, <1>5 DEF LockInv
<1>7. ReadInv'
  BY <1>5 DEF ReadInv
<1>8. ShownInv'
  <2> SUFFICES ASSUME NEW t \in Guarded
               PROVE  live[t] >= written'[t] \/ t \in stale \/ \E k \in Jobs : Pending(k, t)'
    BY DEF ShownInv
  <2>1. CASE t \in tables
    <3>1. Pending(j, t)'
      BY <1>1, <1>3, <2>1 DEF Pending
    <3> QED
      BY <3>1
  <2>2. CASE t \notin tables
    <3>1. written'[t] = written[t]
      BY <2>2 DEF Tables
    <3>2. \A k \in Jobs : Pending(k, t) => Pending(k, t)'
      BY <1>2, <3>1 DEF Pending
    <3> QED
      BY <3>1, <3>2 DEF ShownInv
  <2> QED
    BY <2>1, <2>2
<1>9. CoverInv'
  BY <1>1, <1>2, <1>3 DEF CoverInv
<1> QED
  BY <1>4, <1>6, <1>7, <1>8, <1>9

\* Taking the lock.
LEMMA LockStep == ASSUME Inv, NEW j \in Jobs, Lock(j) PROVE Inv'
<1>1. TypeOK'
  BY DEF Inv, TypeOK, Lock
<1>2. LockInv' /\ ReadInv'
  BY JobsAssumption DEF Inv, LockInv, ReadInv, ReadingGuarded, Lock
<1>3. ShownInv'
  BY DEF Inv, ShownInv, Pending, Lock
<1>4. CoverInv'
  BY JobsAssumption DEF Inv, CoverInv, Lock
<1> QED
  BY <1>1, <1>2, <1>3, <1>4 DEF Inv

\* What is read under the lock is everything committed.
LEMMA ReadStep == ASSUME Inv, NEW j \in Jobs, Read(j) PROVE Inv'
<1>1. /\ read'[j] = [at |-> clock, done |-> TRUE]
      /\ \A k \in Jobs : k # j => read'[k] = read[k]
  BY DEF Inv, TypeOK, Read
<1>2. UNCHANGED <<clock, written, live, todo, mapChangeMu, stale>> /\ MayRead(j)
  BY DEF Read
<1>3. TypeOK'
  <2>1. read' \in [Jobs -> [at : 0..clock, done : BOOLEAN]]
    BY DEF Inv, TypeOK, Read
  <2> QED
    BY <1>1, <1>2, <2>1 DEF Inv, TypeOK, MayRead
<1>4. LockInv'
  BY <1>1, <1>2 DEF Inv, LockInv, ReadingGuarded, MayRead
<1>5. ReadInv'
  <2>1. \A t \in Guarded : live[t] <= clock
    BY DEF Inv, TypeOK, Tables
  <2> QED
    BY <1>1, <1>2, <2>1 DEF Inv, ReadInv, ReadingGuarded
<1>6. ShownInv'
  <2>1. \A t \in Guarded : written[t] <= clock
    BY DEF Inv, TypeOK, Tables
  <2>2. \A t \in Guarded, k \in Jobs : Pending(k, t) => Pending(k, t)'
    BY <1>1, <1>2, <2>1 DEF Pending
  <2> QED
    BY <1>2, <2>2 DEF Inv, ShownInv
<1>7. CoverInv'
  BY <1>2 DEF Inv, CoverInv
<1> QED
  BY <1>3, <1>4, <1>5, <1>6, <1>7 DEF Inv

\* A swap installs what no other job can have overtaken.
LEMMA SwapStep == ASSUME Inv, NEW j \in Jobs, Swap(j) PROVE Inv'
<1> DEFINE t == First(todo[j])
           rest == todo[j] \ {t}
<1>1. /\ read[j].done /\ todo[j] # {} /\ t \in todo[j] /\ t \in Tables
      /\ t \in Guarded => mapChangeMu = j
  BY FirstIn DEF Inv, TypeOK, Swap
<1>2. /\ todo'[j] = rest /\ read'[j] = NoRead
      /\ \A k \in Jobs : k # j => todo'[k] = todo[k] /\ read'[k] = read[k]
      /\ live'[t] = read[j].at
      /\ \A u \in Tables : u # t => live'[u] = live[u]
      /\ UNCHANGED <<clock, written>>
  BY <1>1 DEF Inv, TypeOK, Swap, Leave
<1>3. mapChangeMu' = IF rest = {} /\ mapChangeMu = j THEN NoJob ELSE mapChangeMu
  BY DEF Swap, Leave
<1>4. stale' = IF read[j].at < written[t] THEN stale ELSE stale \ {t}
  BY DEF Swap
<1>5. TypeOK'
  <2>1. read[j].at \in 0..clock
    BY DEF Inv, TypeOK
  <2>2. live' \in [Tables -> 0..clock] /\ todo' \in [Jobs -> SUBSET Tables]
    BY <2>1 DEF Inv, TypeOK, Swap, Leave
  <2>3. read' \in [Jobs -> [at : 0..clock, done : BOOLEAN]]
    BY DEF Inv, TypeOK, Swap, NoRead
  <2>4. \A k \in Jobs : mapChangeMu' = k \/ read'[k].done => todo'[k] # {}
    BY <1>2, <1>3, JobsAssumption DEF Inv, TypeOK, NoRead
  <2>5. mapChangeMu' \in Jobs \cup {NoJob} /\ stale' \subseteq Tables
    BY <1>3, <1>4 DEF Inv, TypeOK
  <2> QED
    BY <1>2, <2>2, <2>3, <2>4, <2>5 DEF Inv, TypeOK
<1>6. LockInv'
  <2>1. mapChangeMu' = j => First(rest) \in Guarded
    BY <1>3, JobsAssumption, FirstIn DEF Inv, TypeOK, LockInv, First, Tables, Guarded
  <2>2. ASSUME NEW k \in Jobs, k # j
        PROVE  /\ mapChangeMu' = k => First(todo'[k]) \in Guarded
               /\ ReadingGuarded(k)' => mapChangeMu' = k
    <3>1. mapChangeMu' = k => mapChangeMu = k
      BY <1>3, JobsAssumption
    <3>2. ReadingGuarded(k)' => mapChangeMu = k
      BY <1>2, <2>2 DEF Inv, LockInv, ReadingGuarded
    <3>3. mapChangeMu = k => mapChangeMu' = k
      BY <1>3, <2>2
    <3> QED
      BY <1>2, <2>2, <3>1, <3>2, <3>3 DEF Inv, LockInv
  <2>3. ~ReadingGuarded(j)'
    BY <1>2 DEF ReadingGuarded, NoRead
  <2> QED
    BY <1>2, <2>1, <2>2, <2>3 DEF LockInv
<1>7. ReadInv'
  <2> SUFFICES ASSUME NEW k \in Jobs, ReadingGuarded(k)', NEW u \in Guarded
               PROVE  live'[u] <= read'[k].at
    BY DEF ReadInv
  <2>1. k # j /\ ReadingGuarded(k) /\ mapChangeMu = k
    BY <1>2 DEF Inv, LockInv, ReadingGuarded, NoRead
  <2>2. u # t
    BY <1>1, <2>1
  <2> QED
    BY <1>2, <2>1, <2>2 DEF Inv, ReadInv, Tables
<1>8. ShownInv'
  <2> SUFFICES ASSUME NEW u \in Guarded
               PROVE  live'[u] >= written[u] \/ u \in stale' \/ \E k \in Jobs : Pending(k, u)'
    BY <1>2 DEF ShownInv
  <2>1. ASSUME NEW k \in Jobs, Pending(k, u), u # t \/ k # j
        PROVE  Pending(k, u)'
    BY <1>2, <2>1 DEF Pending, NoRead
  <2>2. CASE u # t
    BY <1>2, <1>4, <2>1, <2>2 DEF Inv, ShownInv, Tables
  <2>3. CASE u = t /\ read[j].at >= written[t]
    BY <1>2, <2>3
  <2>4. CASE u = t /\ ~(read[j].at >= written[t])
    <3>1. /\ read[j].at \in Nat /\ written[t] \in Nat /\ live[t] \in Nat
          /\ live[t] <= read[j].at
      BY <1>1, <2>4 DEF Inv, TypeOK, ReadInv, ReadingGuarded
    <3>2. ~(live[t] >= written[t]) /\ stale' = stale
      BY <1>4, <2>4, <3>1
    <3>3. ~Pending(j, u)
      BY <1>1, <2>4 DEF Pending
    <3> QED
      BY <2>1, <2>4, <3>2, <3>3 DEF Inv, ShownInv
  <2> QED
    BY <2>2, <2>3, <2>4
<1>9. CoverInv'
  <2>1. \A k \in Jobs : "acct_map" \in todo'[k] => "acct_egress" \in todo'[k]
    BY <1>2 DEF Inv, CoverInv, First
  <2>2. CASE t = "acct_map"
    <3>1. rest = {"acct_egress"}
      BY <1>1, <2>2 DEF Inv, TypeOK, CoverInv, First, Tables, Guarded
    <3>2. mapChangeMu' = j
      BY <1>1, <1>3, <2>2, <3>1 DEF Guarded
    <3> QED
      BY <1>2, <2>1, <3>1, <3>2 DEF CoverInv
  <2>3. CASE t = "acct_egress"
    <3>1. live["acct_map"] <= read[j].at
      BY <1>1, <2>3 DEF Inv, ReadInv, ReadingGuarded, Guarded
    <3>2. live'["acct_egress"] >= live'["acct_map"]
      BY <1>1, <1>2, <2>3, <3>1 DEF Inv, TypeOK, Tables, Guarded
    <3> QED
      BY <2>1, <3>2 DEF CoverInv
  <2>4. CASE t = "upstreams"
    <3>1. mapChangeMu # j
      BY <2>4 DEF Inv, LockInv, Guarded
    <3>2. \A k \in Jobs : mapChangeMu = k /\ todo[k] = {"acct_egress"} =>
                            mapChangeMu' = k /\ todo'[k] = {"acct_egress"}
      BY <1>2, <1>3, <3>1
    <3> QED
      BY <1>2, <1>4, <2>1, <2>4, <3>2 DEF Inv, CoverInv, Tables, Guarded
  <2> QED
    BY <1>1, <2>2, <2>3, <2>4 DEF Tables, Guarded
<1> QED
  BY <1>5, <1>6, <1>7, <1>8, <1>9 DEF Inv

\* A failed reload marks what it leaves behind.
LEMMA FailStep == ASSUME Inv, NEW j \in Jobs, ReadFails(j) PROVE Inv'
<1> DEFINE t == First(todo[j])
           rest == IF t = "upstreams" THEN todo[j] \ {t} ELSE {}
<1>1. /\ ~read[j].done /\ todo[j] # {} /\ t \in todo[j] /\ t \in Tables
      /\ t \in Guarded => mapChangeMu = j
  BY FirstIn DEF Inv, TypeOK, ReadFails, MayRead
<1>2. /\ todo'[j] = rest
      /\ \A k \in Jobs : k # j => todo'[k] = todo[k]
      /\ UNCHANGED <<clock, written, live, read>>
  BY DEF Inv, TypeOK, ReadFails, Leave
<1>3. mapChangeMu' = IF rest = {} /\ mapChangeMu = j THEN NoJob ELSE mapChangeMu
  BY DEF ReadFails, Leave
<1>4. stale' = stale \cup (todo[j] \ rest)
  BY DEF ReadFails
<1>5. rest \in {{}, todo[j] \ {"upstreams"}} /\ (mapChangeMu = j => rest = {})
  BY DEF Inv, LockInv, Guarded
<1>6. TypeOK'
  <2>1. todo' \in [Jobs -> SUBSET Tables]
    BY DEF Inv, TypeOK, ReadFails, Leave
  <2>2. \A k \in Jobs : mapChangeMu' = k \/ read'[k].done => todo'[k] # {}
    BY <1>1, <1>2, <1>3, <1>5, JobsAssumption DEF Inv, TypeOK
  <2> QED
    BY <1>2, <1>3, <1>4, <2>1, <2>2 DEF Inv, TypeOK
<1>7. LockInv' /\ ReadInv'
  <2>1. \A k \in Jobs : ReadingGuarded(k)' => k # j /\ ReadingGuarded(k)
    BY <1>1, <1>2 DEF ReadingGuarded
  <2>2. \A k \in Jobs : mapChangeMu' = k => k # j /\ mapChangeMu = k
    BY <1>3, <1>5, JobsAssumption
  <2>3. \A k \in Jobs : k # j /\ mapChangeMu = k => mapChangeMu' = k
    BY <1>3
  <2>4. LockInv'
    BY <1>2, <2>1, <2>2, <2>3 DEF Inv, LockInv
  <2> QED
    BY <1>2, <2>1, <2>4 DEF Inv, ReadInv
<1>8. ShownInv'
  <2>1. \A u \in Guarded, k \in Jobs : Pending(k, u) => Pending(k, u)' \/ u \in stale'
    BY <1>1, <1>2, <1>4 DEF Pending
  <2> QED
    BY <1>2, <1>4, <2>1 DEF Inv, ShownInv
<1>9. CoverInv'
  <2>1. \A k \in Jobs : "acct_map" \in todo'[k] => "acct_egress" \in todo'[k]
    BY <1>2, <1>5 DEF Inv, CoverInv
  <2>2. ASSUME NEW k \in Jobs, mapChangeMu = k, todo[k] = {"acct_egress"}
        PROVE  "acct_egress" \in stale' \/ (mapChangeMu' = k /\ todo'[k] = {"acct_egress"})
    BY <1>2, <1>3, <1>4, <1>5, <2>2
  <2> QED
    BY <1>2, <1>4, <2>1, <2>2 DEF Inv, CoverInv
<1> QED
  BY <1>6, <1>7, <1>8, <1>9 DEF Inv

\* After a restart every copy is current, or the registry is known to be empty.
LEMMA RestartStep ==
  ASSUME Inv, NEW missing \in SUBSET {"acct_map"}, Restart(missing)
  PROVE  Inv'
<1>1. TypeOK'
  BY JobsAssumption DEF Inv, TypeOK, Restart, NoRead, Tables, Guarded
<1>2. LockInv' /\ ReadInv'
  BY JobsAssumption DEF LockInv, ReadInv, ReadingGuarded, Restart, NoRead
<1>3. ShownInv'
  BY DEF Inv, TypeOK, ShownInv, Restart, Tables
<1>4. CoverInv'
  BY DEF Inv, TypeOK, CoverInv, Restart, Tables, Guarded
<1> QED
  BY <1>1, <1>2, <1>3, <1>4 DEF Inv

\* Inv is inductive.
LEMMA NextInv == Inv /\ [Next]_vars => Inv'
<1> SUFFICES ASSUME Inv, [Next]_vars PROVE Inv'
  OBVIOUS
<1>1. CASE UNCHANGED vars
  BY <1>1 DEF vars, Inv, TypeOK, LockInv, ReadInv, ShownInv, CoverInv, ReadingGuarded, Pending
<1>2. ASSUME NEW j \in Jobs, ChangeMap(j) PROVE Inv'
  BY <1>2, CommitInv DEF ChangeMap, Tables, Guarded
<1>3. ASSUME NEW j \in Jobs, ChangeBindings(j) PROVE Inv'
  BY <1>3, CommitInv DEF ChangeBindings, Tables, Guarded
<1>4. ASSUME NEW j \in Jobs, ChangeUpstream(j) PROVE Inv'
  BY <1>4, CommitInv DEF ChangeUpstream, Tables
<1>5. ASSUME NEW j \in Jobs, DeleteUpstream(j) PROVE Inv'
  BY <1>5, CommitInv DEF DeleteUpstream, Tables, Guarded
<1> QED
  BY <1>1, <1>2, <1>3, <1>4, <1>5, LockStep, ReadStep, SwapStep, FailStep, RestartStep
     DEF Next, Work

\* The inductive invariant of the reloads.
THEOREM Invariant == Spec => []Inv
BY InitInv, NextInv, PTL DEF Spec

\* Types: a job that holds the lock or has read something has a reload to make.
THEOREM TypeCorrect == Spec => []TypeOK
BY Invariant, PTL DEF Inv

\* With no reload ahead, registry and bindings show every committed change
\* unless a reload failed (finishMapChange, reloadAcctEgress).
THEOREM CopiesCurrent == Spec => []GuardedCurrent
<1>1. Inv => GuardedCurrent
  BY DEF Inv, ShownInv, Pending, GuardedCurrent, Current, NobodyReloads
<1> QED
  BY <1>1, Invariant, PTL

\* Outside the lock the bindings are as new as the registry.
THEOREM BindingsCover == Spec => []BindingsFollowRegistry
<1>1. Inv => BindingsFollowRegistry
  BY JobsAssumption DEF Inv, CoverInv, BindingsFollowRegistry
<1> QED
  BY <1>1, Invariant, PTL

\* No swap puts older data over newer data (mapChangeMu).
THEOREM SwapsAdvance == Spec => NeverBackwards
<1>1. ASSUME Inv, NEW j \in Jobs, Swap(j), NEW t \in Guarded
      PROVE  live'[t] >= live[t]
  <2>1. live' = [live EXCEPT ![First(todo[j])] = read[j].at] /\ read[j].done
    BY <1>1 DEF Swap
  <2>2. CASE t = First(todo[j])
    BY <1>1, <2>1, <2>2 DEF Inv, TypeOK, ReadInv, ReadingGuarded, Tables
  <2>3. CASE t # First(todo[j])
    BY <1>1, <2>1, <2>3 DEF Inv, TypeOK, Tables
  <2> QED
    BY <2>2, <2>3
<1>2. Inv => [(\E j \in Jobs : Swap(j)) => \A t \in Guarded : live'[t] >= live[t]]_vars
  BY <1>1
<1> QED
  BY <1>2, Invariant, PTL DEF NeverBackwards
=============================================================================
