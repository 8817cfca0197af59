-------------------------- MODULE DirectSync_proofs --------------------------
(***************************************************************************)
(* Proofs about DirectSync, for any number of sources, administrators and  *)
(* readers.  The inductive invariant IInv puts every goroutine where its   *)
(* job allows (Roles), says what reconcileMu covers (MuHeld), who can hold *)
(* which incarnation of a lock (Locks), that a live reader is registered   *)
(* or awaited (Registered), that a plan stays valid while it is carried    *)
(* out (Plans), that readers and fetches have the stored configuration     *)
(* (Fresh) and that nobody reads after Run (Ended).                        *)
(* With it nobody waits in a circle for reconcileMu, readers and locks.    *)
(***************************************************************************)
EXTENDS DirectSync, TLAPS

\* r has been started, and nobody has seen its end.
Live(r) == at[r] # "free"

\* p is between taking and releasing reconcileMu.
Reconciling(p) ==
  \/ at[p] \in {"list", "stop", "await", "start"}
  \/ at[p] \in {"locking", "locked"} /\ job[p].op \in {"update", "delete"}

ReaderPlaces == {"free", "idle", "locking", "reading", "checked", "done"}
ProcPlaces == {"off", "idle", "enter", "list", "stop", "await", "start", "locking",
               "locked", "tickAll", "syncs", "fetched", "loop", "exited"}

\* Who may be where, with which job.
Roles ==
  /\ \A r \in Readers : at[r] \in ReaderPlaces
  /\ \A p \in Procs :
       /\ at[p] \in ProcPlaces
       /\ at[p] \in {"off", "tickAll", "syncs", "loop", "fetched", "exited"} => p = Scheduler
       /\ at[p] \in {"enter", "list", "stop", "await", "start"} =>
            \/ job[p].op \in {"reconcile", "update", "delete"} /\ job[p].source \in Sources
                 /\ p \in Admins
            \/ job[p].op \in {"tick", "exit"} /\ p = Scheduler
       /\ at[p] \in {"list", "start"} => job[p].op \in {"reconcile", "tick"}
       /\ at[p] \in {"locking", "locked", "fetched"} =>
            /\ job[p].source \in Sources /\ lock[p].source = job[p].source
            /\ IF p = Scheduler THEN job[p].op = "sync"
                                ELSE job[p].op \in {"update", "delete", "test"}

\* Whoever reconciles holds reconcileMu.
MuHeld == \A p \in Procs : Reconciling(p) => reconcileMu = p

Waiting(w) == at[w] = "locking" \/ Inside(w)

\* A source that was never deleted has its first lock; whoever waits has a lock
\* that exists or existed; a lock has one holder.
Locks ==
  /\ \A s \in Sources : row[s].state # "deleted" => lockNo[s] = 0
  /\ \A w \in Workers : Waiting(w) =>
       lock[w].source \in Sources /\ lock[w].no <= lockNo[lock[w].source]
  /\ \A r \in Readers : Waiting(r) => lock[r].source = reader[r].source
  /\ \A v, w \in Workers : Inside(v) /\ Inside(w) /\ lock[v] = lock[w] => v = w

\* A live reader is registered, or somebody waits for its end.
Registered ==
  /\ \A s \in Sources : runtimes[s] # Nobody =>
       Live(runtimes[s]) /\ reader[runtimes[s]].source = s
  /\ \A r \in Readers : Live(r) =>
       /\ reader[r].source \in Sources
       /\ \/ runtimes[reader[r].source] = r
          \/ \E p \in Procs : at[p] = "await" /\ plan[p].wait = r
  /\ \A p \in Procs : at[p] = "await" =>
       /\ plan[p].wait \in Readers /\ Live(plan[p].wait)
       /\ runtimes[reader[plan[p].wait].source] = Nobody

\* What was planned when reconcileMu was taken still holds.
Plans ==
  \A p \in Procs :
    /\ at[p] \in {"stop", "await"} /\ job[p].op \in {"update", "delete"} =>
         job[p].source \in plan[p].stop
    /\ at[p] \in {"stop", "await"} /\ job[p].op = "exit" =>
         plan[p].stop = Sources /\ ~running
    /\ at[p] \in {"stop", "await", "start"} /\ job[p].op \in {"reconcile", "tick"} =>
         \A s \in plan[p].start : Desired(s)
    /\ at[p] \in {"locking", "locked"} /\ job[p].op \in {"update", "delete"} =>
         runtimes[job[p].source] = Nobody

\* A live reader, and a scheduler that has fetched, have the stored configuration.
Fresh ==
  /\ \A r \in Readers : Live(r) =>
       LET s == reader[r].source
       IN  Desired(s) /\ reader[r].version = row[s].version
  /\ at[Scheduler] = "fetched" =>
       Stored(job[Scheduler].source) /\ seen = row[job[Scheduler].source].version

\* Run has returned.
Ended ==
  at[Scheduler] = "exited" => ~running /\ \A r \in Readers : ~Live(r)

IInv == TypeOK /\ Roles /\ MuHeld /\ Locks /\ Registered /\ Plans /\ Fresh /\ Ended

Plan == [stop : SUBSET Sources, wait : Readers \cup {Nobody}, start : SUBSET Sources]
Config == [source : Sources \cup {Nobody}, version : 0..MaxConfigs,
           path : Paths \cup {NoPath}, cancelled : BOOLEAN]
Job == [op : {"none", "reconcile", "update", "delete", "test", "tick", "sync", "exit"},
        source : Sources \cup {Nobody}]
LockType == [source : Sources \cup {Nobody}, no : Nat]

-----------------------------------------------------------------------------
\* Changing one place of a function keeps its type.
LEMMA ExceptType ==
  ASSUME NEW A, NEW B, NEW f \in [A -> B], NEW i \in A, NEW v \in B
  PROVE  [f EXCEPT ![i] = v] \in [A -> B]
  OBVIOUS

\* The same for one field of a plan.
LEMMA PlanFields ==
  ASSUME NEW q \in Plan, NEW S \in SUBSET Sources, NEW x \in Readers \cup {Nobody}
  PROVE  /\ [q EXCEPT !.stop = S] \in Plan
         /\ [q EXCEPT !.wait = x] \in Plan
         /\ [q EXCEPT !.start = S] \in Plan
  BY DEF Plan

\* The same for the operation of a job.
LEMMA JobFields ==
  ASSUME NEW j \in Job PROVE [j EXCEPT !.op = "reconcile"] \in Job
  BY DEF Job

\* A lock is its source and its incarnation.
LEMMA SameLock ==
  ASSUME NEW l \in LockType, NEW m \in LockType, l.source = m.source, l.no = m.no
  PROVE  l = m
  BY DEF LockType

\* Who is who, from the assumption on the constants.
LEMMA Sets ==
  /\ Scheduler \in Procs /\ Scheduler \in Workers
  /\ Scheduler \notin Readers /\ Scheduler \notin Admins
  /\ \A a \in Admins : a \in Procs /\ a \in Workers /\ a \notin Readers /\ a # Scheduler
  /\ \A p \in Procs : p \in Workers /\ p \notin Readers /\ p # Nobody
       /\ (p = Scheduler \/ p \in Admins)
  /\ \A r \in Readers : r \in Workers /\ r \notin Procs /\ r # Scheduler /\ r # Nobody
  /\ \A w \in Workers : w \in Procs \/ w \in Readers
  /\ Nobody \notin Sources /\ NoPath \notin Paths
  /\ MaxConfigs \in Nat \ {0} /\ WakeSize \in Nat
  BY DirectSyncAssumption DEF Procs, Workers

-----------------------------------------------------------------------------
\* One lemma per action: it preserves every part of the invariant.

\* A new source has no reader and no lock yet.
LEMMA CreateStep ==
  ASSUME IInv, NEW a \in Admins, NEW s \in Sources, NEW path \in Paths \cup {NoPath},
         Create(a, s, path)
  PROVE  IInv'
<1> USE Sets
<1>1. TypeOK'
  BY DEF IInv, TypeOK, Rows, Create, Go
<1>2. Roles'
  BY DEF IInv, Roles, ReaderPlaces, ProcPlaces, Create, Go, TypeOK
<1>3. MuHeld'
  BY DEF IInv, MuHeld, Reconciling, Create, Go
<1>4. Locks'
  BY DEF IInv, Locks, Waiting, Inside, Create, Go
<1>5. Registered'
  BY DEF IInv, Registered, Live, Create, Go
<1>6. Plans'
  BY DEF IInv, Plans, Desired, Stored, Create, Go
<1>7. Fresh'
  BY DEF IInv, Fresh, Live, Desired, Stored, Create, Go
<1>8. Ended'
  BY DEF IInv, Ended, Live, Create, Go
<1> QED BY <1>1, <1>2, <1>3, <1>4, <1>5, <1>6, <1>7, <1>8 DEF IInv

\* A request is noted; nothing else changes.
LEMMA AskStep ==
  ASSUME IInv, NEW a \in Admins, NEW s \in Sources, NEW op \in {"update", "delete"},
         Ask(a, op, s)
  PROVE  IInv'
<1> USE Sets
<1>1. TypeOK'
  BY DEF IInv, TypeOK, Rows, Ask, Stored, Go
<1>2. Roles'
  BY DEF IInv, Roles, ReaderPlaces, ProcPlaces, Ask, Stored, Go, TypeOK
<1>3. MuHeld'
  BY DEF IInv, MuHeld, Reconciling, Ask, Stored, Go
<1>4. Locks'
  BY DEF IInv, Locks, Waiting, Inside, Ask, Stored, Go
<1>5. Registered'
  BY DEF IInv, Registered, Live, Ask, Stored, Go
<1>6. Plans'
  BY DEF IInv, Plans, Desired, Stored, Ask, Go
<1>7. Fresh'
  BY DEF IInv, Fresh, Live, Desired, Stored, Ask, Go
<1>8. Ended'
  BY DEF IInv, Ended, Live, Ask, Stored, Go
<1> QED BY <1>1, <1>2, <1>3, <1>4, <1>5, <1>6, <1>7, <1>8 DEF IInv

\* A test waits for the lock that the source has now.
LEMMA AskTestStep ==
  ASSUME IInv, NEW a \in Admins, NEW s \in Sources, AskTest(a, s)
  PROVE  IInv'
<1> USE Sets
<1>1. TypeOK'
  BY DEF IInv, TypeOK, Rows, AskTest, Stored, Lock, Go
<1>2. Roles'
  BY DEF IInv, Roles, ReaderPlaces, ProcPlaces, AskTest, Stored, Lock, Go, TypeOK
<1>3. MuHeld'
  BY DEF IInv, MuHeld, Reconciling, AskTest, Stored, Lock, Go, TypeOK
<1>4. Locks'
  BY DEF IInv, Locks, Waiting, Inside, AskTest, Stored, Lock, Go, TypeOK
<1>5. Registered'
  BY DEF IInv, Registered, Live, AskTest, Stored, Lock, Go
<1>6. Plans'
  BY DEF IInv, Plans, Desired, Stored, AskTest, Lock, Go, TypeOK
<1>7. Fresh'
  BY DEF IInv, Fresh, Live, Desired, Stored, AskTest, Lock, Go
<1>8. Ended'
  BY DEF IInv, Ended, Live, AskTest, Stored, Lock, Go
<1> QED BY <1>1, <1>2, <1>3, <1>4, <1>5, <1>6, <1>7, <1>8 DEF IInv

\* A test gives its lock back.
LEMMA TestDoneStep ==
  ASSUME IInv, NEW a \in Admins, TestDone(a)
  PROVE  IInv'
<1> USE Sets
<1>1. TypeOK'
  BY DEF IInv, TypeOK, Rows, TestDone, NoJob, Unlock, NoLock, Go
<1>2. Roles'
  BY DEF IInv, Roles, ReaderPlaces, ProcPlaces, TestDone, NoJob, Unlock, NoLock, Go,
       TypeOK
<1>3. MuHeld'
  BY DEF IInv, MuHeld, Reconciling, TestDone, NoJob, Unlock, NoLock, Go
<1>4. Locks'
  BY DEF IInv, Locks, Waiting, Inside, TestDone, NoJob, Unlock, NoLock, Go, TypeOK
<1>5. Registered'
  BY DEF IInv, Registered, Live, TestDone, NoJob, Unlock, NoLock, Go
<1>6. Plans'
  BY DEF IInv, Plans, Desired, Stored, TestDone, NoJob, Unlock, NoLock, Go
<1>7. Fresh'
  BY DEF IInv, Fresh, Live, Desired, Stored, TestDone, NoJob, Unlock, NoLock, Go
<1>8. Ended'
  BY DEF IInv, Ended, Live, TestDone, NoJob, Unlock, NoLock, Go
<1> QED BY <1>1, <1>2, <1>3, <1>4, <1>5, <1>6, <1>7, <1>8 DEF IInv

\* The channel is below its capacity before one more is added.
LEMMA WakeStep ==
  ASSUME IInv, NEW s \in Sources, Wake(s)
  PROVE  IInv'
<1> USE Sets
<1>1. TypeOK'
  BY DEF IInv, TypeOK, Rows, Wake, Stored
<1>2. Locks'
  BY DEF IInv, Locks, Waiting, Inside, Wake, Stored
<1>3. Roles' /\ MuHeld' /\ Registered' /\ Plans' /\ Fresh' /\ Ended'
  BY DEF IInv, Roles, ReaderPlaces, ProcPlaces, Wake, Stored, MuHeld, Reconciling,
       Registered, Live, Plans, Desired, Fresh, Ended
<1> QED BY <1>1, <1>2, <1>3 DEF IInv

\* The mutex was free, so nobody else reconciles.
LEMMA EnterStep ==
  ASSUME IInv, NEW p \in Procs, Enter(p)
  PROVE  IInv'
<1> USE Sets
<1>1. TypeOK'
  <2> DEFINE S == CASE job[p].op \in {"update", "delete"} -> {job[p].source}
                    [] job[p].op = "exit" -> Sources
                    [] OTHER -> {}
  <2>1. S \in SUBSET Sources
    <3>1. job[p].op \in {"update", "delete"} => job[p].source \in Sources /\ job[p].op # "exit"
      BY DEF IInv, Enter, Roles
    <3> QED BY <3>1
  <2>2. plan' = [plan EXCEPT ![p] = [plan[p] EXCEPT !.stop = S]]
    BY DEF Enter
  <2>3. plan' \in [Procs -> Plan]
    <3>1. plan \in [Procs -> Plan]
      BY DEF IInv, TypeOK, Plan
    <3>2. [plan[p] EXCEPT !.stop = S] \in Plan
      BY <2>1, <3>1, PlanFields
    <3> HIDE DEF S
    <3> QED BY <2>2, <3>1, <3>2, ExceptType
  <2> QED BY <2>3 DEF IInv, Enter, Go, TypeOK, Plan
<1>2. Roles'
  BY DEF IInv, Roles, ReaderPlaces, ProcPlaces, Enter, Go
<1>3. MuHeld'
  BY DEF IInv, MuHeld, Reconciling, Enter, Go
<1>4. Locks'
  BY DEF IInv, Locks, Waiting, Inside, Enter, Go
<1>5. Registered'
  BY DEF IInv, Registered, Live, Enter, Go
<1>6. Plans'
  <2> DEFINE S == CASE job[p].op \in {"update", "delete"} -> {job[p].source}
                    [] job[p].op = "exit" -> Sources
                    [] OTHER -> {}
  <2>1. /\ \A q \in Procs \ {p} : plan'[q] = plan[q] /\ at'[q] = at[q]
        /\ plan'[p] = [plan[p] EXCEPT !.stop = S]
        /\ running' = (running /\ job[p].op # "exit")
        /\ UNCHANGED <<job, row, runtimes>>
    BY DEF IInv, TypeOK, Enter, Go
  <2>2. plan'[p].stop = S
    BY <2>1 DEF IInv, TypeOK
  <2>3. /\ job[p].op \in {"update", "delete"} => S = {job[p].source}
        /\ job[p].op = "exit" => S = Sources
    OBVIOUS
  <2>4. at'[p] = IF job[p].op \in {"reconcile", "tick"} THEN "list" ELSE "stop"
    BY DEF IInv, TypeOK, Enter, Go
  <2>5. job[p].op = "exit" => ~running'
    BY <2>1
  <2>6. ~running => ~running'
    BY <2>1
  <2> HIDE DEF S
  <2>7. \A t \in Sources : Desired(t)' = Desired(t)
    BY <2>1 DEF Desired, Stored
  <2> SUFFICES ASSUME NEW q \in Procs
               PROVE /\ at'[q] \in {"stop", "await"} /\ job'[q].op \in {"update", "delete"} =>
                          job'[q].source \in plan'[q].stop
                     /\ at'[q] \in {"stop", "await"} /\ job'[q].op = "exit" =>
                          plan'[q].stop = Sources /\ ~running'
                     /\ at'[q] \in {"stop", "await", "start"} /\ job'[q].op \in {"reconcile", "tick"} =>
                          \A s \in plan'[q].start : Desired(s)'
                     /\ at'[q] \in {"locking", "locked"} /\ job'[q].op \in {"update", "delete"} =>
                          runtimes'[job'[q].source] = Nobody
    BY DEF Plans
  <2>8. CASE q = p
    BY <2>1, <2>2, <2>3, <2>4, <2>5, <2>8
  <2>9. CASE q # p
    <3>1. \A s \in plan[q].start : s \in Sources
      BY DEF IInv, TypeOK
    <3> QED BY <2>1, <2>6, <2>7, <2>9, <3>1 DEF IInv, Plans
  <2> QED BY <2>8, <2>9
<1>7. Fresh'
  BY DEF IInv, Fresh, Live, Desired, Stored, Enter, Go
<1>8. Ended'
  BY DEF IInv, Ended, Live, Enter, Go, TypeOK
<1> QED BY <1>1, <1>2, <1>3, <1>4, <1>5, <1>6, <1>7, <1>8 DEF IInv

\* Only sources that should have a reader are planned to get one.
LEMMA ListStep ==
  ASSUME IInv, NEW p \in Procs, List(p)
  PROVE  IInv'
<1> USE Sets
<1>1. TypeOK'
  BY DEF IInv, TypeOK, Rows, List, Scope, Stale, Desired, Stored, Matches, Go, Roles,
       ReaderPlaces, ProcPlaces
<1>2. Roles'
  BY DEF IInv, Roles, ReaderPlaces, ProcPlaces, List, Scope, Stale, Desired, Stored,
       Matches, Go
<1>3. MuHeld'
  BY DEF IInv, MuHeld, Reconciling, List, Scope, Stale, Desired, Stored, Matches, Go
<1>4. Locks'
  BY DEF IInv, Locks, Waiting, Inside, List, Scope, Stale, Desired, Stored, Matches, Go
<1>5. Registered'
  BY DEF IInv, Registered, Live, List, Scope, Stale, Desired, Stored, Matches, Go
<1>6. Plans'
  BY DEF IInv, Plans, Desired, Stored, List, Scope, Stale, Matches, Go, TypeOK, Roles,
       ReaderPlaces, ProcPlaces
<1>7. Fresh'
  BY DEF IInv, Fresh, Live, Desired, Stored, List, Scope, Stale, Matches, Go
<1>8. Ended'
  BY DEF IInv, Ended, Live, List, Scope, Stale, Desired, Stored, Matches, Go
<1> QED BY <1>1, <1>2, <1>3, <1>4, <1>5, <1>6, <1>7, <1>8 DEF IInv

\* Without a list the mutex is given back and nothing is planned.
LEMMA ListFailsStep ==
  ASSUME IInv, NEW p \in Procs, ListFails(p)
  PROVE  IInv'
<1> USE Sets
<1>1. TypeOK'
  BY DEF IInv, TypeOK, Rows, ListFails, Leave, NoJob, NoPlan
<1>2. Roles'
  BY DEF IInv, Roles, ReaderPlaces, ProcPlaces, ListFails, Leave, NoJob, NoPlan, TypeOK
<1>3. MuHeld'
  BY DEF IInv, MuHeld, Reconciling, ListFails, Leave, NoJob, NoPlan, TypeOK
<1>4. Locks'
  BY DEF IInv, Locks, Waiting, Inside, ListFails, Leave, NoJob, NoPlan
<1>5. Registered'
  BY DEF IInv, Registered, Live, ListFails, Leave, NoJob, NoPlan
<1>6. Plans'
  BY DEF IInv, Plans, Desired, Stored, ListFails, Leave, NoJob, NoPlan
<1>7. Fresh'
  BY DEF IInv, Fresh, Live, Desired, Stored, ListFails, Leave, NoJob, NoPlan
<1>8. Ended'
  BY DEF IInv, Ended, Live, ListFails, Leave, NoJob, NoPlan, TypeOK, Roles,
       ReaderPlaces, ProcPlaces
<1> QED BY <1>1, <1>2, <1>3, <1>4, <1>5, <1>6, <1>7, <1>8 DEF IInv

\* A reader leaves the map, and its end is awaited by the one who stops it.
LEMMA StopStep ==
  ASSUME IInv, NEW p \in Procs, NEW s \in Sources, Stop(p, s)
  PROVE  IInv'
<1> USE Sets
<1>1. TypeOK'
  <2>1. runtimes[s] \in Readers
    BY DEF IInv, Stop, TypeOK
  <2>2. plan' \in [Procs -> Plan]
    <3>1. plan \in [Procs -> Plan]
      BY DEF IInv, TypeOK, Plan
    <3>2. plan' = [plan EXCEPT ![p] = [plan[p] EXCEPT !.wait = runtimes[s]]]
      BY DEF Stop
    <3>3. [plan[p] EXCEPT !.wait = runtimes[s]] \in Plan
      <4>1. runtimes[s] \in Readers \cup {Nobody}
        BY <2>1, <3>1 DEF Plan
      <4> QED BY <3>1, <4>1, PlanFields
    <3> QED BY <3>1, <3>2, <3>3, ExceptType
  <2>3. reader' \in [Readers -> Config]
    <3>1. reader \in [Readers -> Config]
      BY DEF IInv, TypeOK, Config
    <3>2. reader' = [reader EXCEPT ![runtimes[s]] = [reader[runtimes[s]] EXCEPT !.cancelled = TRUE]]
      BY DEF Stop
    <3>3. [reader[runtimes[s]] EXCEPT !.cancelled = TRUE] \in Config
      BY <2>1, <3>1 DEF Config
    <3> QED BY <2>1, <3>1, <3>2, <3>3, ExceptType
  <2> QED BY <2>1, <2>2, <2>3 DEF IInv, Stop, Go, TypeOK, Plan, Config
<1>2. Roles'
  BY DEF IInv, Roles, ReaderPlaces, ProcPlaces, Stop, Go
<1>3. MuHeld'
  BY DEF IInv, MuHeld, Reconciling, Stop, Go
<1>4. Locks'
  BY DEF IInv, Locks, Waiting, Inside, Stop, Go
<1>5. Registered'
  <2> DEFINE r == runtimes[s]
  <2>1. /\ at[p] = "stop" /\ r \in Readers /\ Live(r) /\ reader[r].source = s
        /\ p # r
    BY DEF IInv, Registered, Stop, TypeOK
  <2>2. /\ at'[p] = "await" /\ \A w \in Workers \ {p} : at'[w] = at[w]
        /\ plan'[p].wait = r /\ \A q \in Procs \ {p} : plan'[q] = plan[q]
    BY DEF IInv, Stop, Go, TypeOK
  <2>3. /\ runtimes'[s] = Nobody /\ \A t \in Sources \ {s} : runtimes'[t] = runtimes[t]
        /\ \A q \in Readers : reader'[q].source = reader[q].source
    BY <2>1 DEF IInv, Stop, TypeOK
  <2> HIDE DEF r
  <2>4. \A q \in Readers : at'[q] = at[q]
    BY <2>2, Sets
  <2>5. \A t \in Sources : runtimes'[t] # Nobody =>
          at'[runtimes'[t]] # "free" /\ reader'[runtimes'[t]].source = t
    <3>1. \A t \in Sources \ {s} : runtimes[t] \in Readers \cup {Nobody}
      BY DEF IInv, TypeOK
    <3> QED BY <2>3, <2>4, <3>1 DEF IInv, Registered, Live
  <2>6. ASSUME NEW q \in Readers, Live(q)
        PROVE  /\ reader'[q].source \in Sources
               /\ \/ runtimes'[reader'[q].source] = q
                  \/ \E x \in Procs : at'[x] = "await" /\ plan'[x].wait = q
    <3>1. CASE q = r
      BY <2>1, <2>2, <2>3, <3>1
    <3>2. CASE q # r /\ runtimes[reader[q].source] = q
      BY <2>1, <2>3, <2>6, <3>2 DEF IInv, Registered, r
    <3>3. ASSUME NEW x \in Procs, at[x] = "await", plan[x].wait = q
          PROVE  at'[x] = "await" /\ plan'[x].wait = q /\ runtimes[reader[q].source] = Nobody
      BY <2>1, <2>2, <3>3 DEF IInv, Registered
    <3> QED BY <2>3, <2>6, <3>1, <3>2, <3>3 DEF IInv, Registered
  <2>7. ASSUME NEW x \in Procs, at'[x] = "await"
        PROVE  /\ plan'[x].wait \in Readers /\ at'[plan'[x].wait] # "free"
               /\ runtimes'[reader'[plan'[x].wait].source] = Nobody
    <3>1. CASE x = p
      BY <2>1, <2>2, <2>3, <2>4, <3>1 DEF Live
    <3>2. CASE x # p
      <4>1. at[x] = "await" /\ plan'[x].wait = plan[x].wait
        BY <2>2, <2>7, <3>2
      <4>2. /\ plan[x].wait \in Readers /\ Live(plan[x].wait)
            /\ runtimes[reader[plan[x].wait].source] = Nobody
            /\ reader[plan[x].wait].source \in Sources
        BY <4>1 DEF IInv, Registered
      <4> QED BY <2>3, <2>4, <4>1, <4>2 DEF Live
    <3> QED BY <3>1, <3>2
  <2> QED BY <2>4, <2>5, <2>6, <2>7 DEF Registered, Live
<1>6. Plans'
  BY DEF IInv, Plans, Desired, Stored, Stop, Go
<1>7. Fresh'
  BY DEF IInv, Fresh, Live, Desired, Stored, Stop, Go
<1>8. Ended'
  BY DEF IInv, Ended, Live, Stop, Go
<1> QED BY <1>1, <1>2, <1>3, <1>4, <1>5, <1>6, <1>7, <1>8 DEF IInv

\* The awaited reader was not registered, so freeing it leaves no trace.
LEMMA StoppedStep ==
  ASSUME IInv, NEW p \in Procs, Stopped(p)
  PROVE  IInv'
<1> USE Sets
<1> DEFINE r == plan[p].wait
<1>a. r \in Readers /\ at[r] = "done" /\ at[p] = "await" /\ Live(r)
  BY DEF IInv, Registered, Stopped
<1>b. at'[p] = "stop" /\ at'[r] = "free" /\ \A w \in Workers \ {p, r} : at'[w] = at[w]
  BY <1>a DEF IInv, Stopped, TypeOK
<1>c. /\ plan'[p] = [plan[p] EXCEPT !.wait = Nobody]
      /\ \A q \in Procs \ {p} : plan'[q] = plan[q]
      /\ \A q \in Readers \ {r} : reader'[q] = reader[q]
  BY <1>a DEF IInv, Stopped, TypeOK
<1>d. UNCHANGED <<row, runtimes, reconcileMu, lockNo, lock, job, running>>
  BY DEF Stopped
<1> HIDE DEF r
<1>1. TypeOK'
  <2>1. plan[p].wait \in Readers
    BY DEF IInv, Registered, Stopped
  <2>2. plan' \in [Procs -> Plan]
    <3>1. plan \in [Procs -> Plan]
      BY DEF IInv, TypeOK, Plan
    <3>2. plan' = [plan EXCEPT ![p] = [plan[p] EXCEPT !.wait = Nobody]]
      BY DEF Stopped
    <3>3. [plan[p] EXCEPT !.wait = Nobody] \in Plan
      <4>1. Nobody \in Readers \cup {Nobody}
        BY <3>1 DEF Plan
      <4> QED BY <3>1, <4>1, PlanFields
    <3> QED BY <3>1, <3>2, <3>3, ExceptType
  <2>3. reader' \in [Readers -> Config]
    BY <2>1 DEF IInv, Stopped, NoReader, TypeOK, Config
  <2> QED BY <2>1, <2>2, <2>3 DEF IInv, Stopped, TypeOK, Plan, Config
<1>2. Roles'
  <2>1. job[p].op \in {"update", "delete"} \/ job[p].op \in {"reconcile", "tick", "exit"}
    BY <1>a DEF IInv, Roles
  <2> QED BY <1>a, <1>b, <1>d DEF IInv, Roles, ReaderPlaces, ProcPlaces
<1>3. MuHeld'
  BY DEF IInv, MuHeld, Reconciling, Stopped, NoReader, TypeOK
<1>4. Locks'
  <2>1. \A w \in Workers : Inside(w)' => Inside(w)
    BY <1>a, <1>b DEF Inside
  <2>2. \A w \in Workers : Waiting(w)' => Waiting(w) /\ w # r
    BY <1>a, <1>b DEF Inside, Waiting
  <2>3. \A q \in Readers : Waiting(q)' => lock'[q].source = reader'[q].source
    BY <1>c, <1>d, <2>2 DEF IInv, Locks
  <2> QED BY <1>d, <2>1, <2>2, <2>3 DEF IInv, Locks
<1>5. Registered'
  <2>1. \A q \in Procs \ {p} : at[q] # "await"
    BY <1>a DEF IInv, MuHeld, Reconciling
  <2>2. runtimes[reader[r].source] = Nobody /\ reader[r].source \in Sources
    BY <1>a DEF IInv, Registered, r
  <2>3. \A s \in Sources : runtimes[s] # r
    <3> SUFFICES ASSUME NEW s \in Sources, runtimes[s] = r PROVE FALSE
      OBVIOUS
    <3>1. r # Nobody
      BY <1>a
    <3>2. reader[r].source = s
      BY <3>1 DEF IInv, Registered
    <3> QED BY <2>2, <3>1, <3>2
  <2>4. \A q \in Procs : at'[q] # "await"
    BY <1>a, <1>b, <2>1
  <2>5. \A q \in Readers : Live(q)' => Live(q) /\ q # r /\ runtimes[reader[q].source] = q
    <3>1. \A q \in Readers \ {r} : at'[q] = at[q]
      BY <1>a, <1>b
    <3>2. \A q \in Readers \ {r} : Live(q) => runtimes[reader[q].source] = q
      BY <2>1, <1>a DEF IInv, Registered, r
    <3> QED BY <1>b, <3>1, <3>2 DEF Live
  <2>6. \A q \in Readers \ {r} : Live(q) => Live(q)'
    BY <1>a, <1>b DEF Live
  <2>7. \A s \in Sources : runtimes[s] # Nobody => runtimes[s] \in Readers \ {r}
    BY <2>3 DEF IInv, TypeOK
  <2> QED BY <1>c, <1>d, <2>4, <2>5, <2>6, <2>7 DEF IInv, Registered
<1>6. Plans'
  BY DEF IInv, Plans, Desired, Stored, Stopped, NoReader, TypeOK
<1>7. Fresh'
  BY DEF IInv, Fresh, Live, Desired, Stored, Stopped, NoReader, TypeOK
<1>8. Ended'
  BY DEF IInv, Ended, Live, Stopped, NoReader, TypeOK
<1> QED BY <1>1, <1>2, <1>3, <1>4, <1>5, <1>6, <1>7, <1>8 DEF IInv

\* An administrator waits for the lock; the source has no reader.
LEMMA GoLockStep ==
  ASSUME IInv, NEW p \in Procs, GoLock(p)
  PROVE  IInv'
<1> USE Sets
<1>1. TypeOK'
  BY DEF IInv, TypeOK, Rows, GoLock, NothingToStop, Lock, Go, Roles, ReaderPlaces,
       ProcPlaces
<1>2. Roles'
  BY DEF IInv, Roles, ReaderPlaces, ProcPlaces, GoLock, NothingToStop, Lock, Go, TypeOK
<1>3. MuHeld'
  BY DEF IInv, MuHeld, Reconciling, GoLock, NothingToStop, Lock, Go
<1>4. Locks'
  <2>1. job[p].source \in Sources /\ lockNo[job[p].source] \in Nat
    BY DEF IInv, TypeOK, Roles, GoLock, NothingToStop
  <2>2. at' = [at EXCEPT ![p] = "locking"] /\ lock' = [lock EXCEPT ![p] = Lock(job[p].source)]
    BY DEF GoLock, Go
  <2>3. /\ lock'[p].source = job[p].source
        /\ lock'[p].no = lockNo[job[p].source] /\ at'[p] = "locking"
    BY <2>2 DEF IInv, TypeOK, Lock
  <2>4. \A v \in Workers \ {p} : lock'[v] = lock[v] /\ at'[v] = at[v]
    BY <2>2 DEF IInv, TypeOK
  <2>5. UNCHANGED <<row, lockNo, reader>>
    BY DEF GoLock, NothingToStop
  <2>6. \A v \in Workers \ {p} : Inside(v)' = Inside(v) /\ Waiting(v)' = Waiting(v)
    BY <2>4 DEF Inside, Waiting
  <2>7. ~Inside(p)'
    BY <2>3 DEF Inside
  <2>8. \A v \in Workers : Waiting(v)' =>
          lock'[v].source \in Sources /\ lock'[v].no <= lockNo'[lock'[v].source]
    <3> TAKE v \in Workers
    <3>1. CASE v = p
      BY <2>1, <2>3, <2>5, <3>1
    <3>2. CASE v # p
      BY <2>4, <2>5, <2>6, <3>2 DEF IInv, Locks
    <3> QED BY <3>1, <3>2
  <2>9. \A q \in Readers : Waiting(q)' => lock'[q].source = reader'[q].source
    BY <2>3, <2>4, <2>5, <2>6 DEF IInv, Locks
  <2>10. \A u, v \in Workers : Inside(u)' /\ Inside(v)' /\ lock'[u] = lock'[v] => u = v
    BY <2>4, <2>6, <2>7 DEF IInv, Locks
  <2>11. \A s \in Sources : row'[s].state # "deleted" => lockNo'[s] = 0
    BY <2>5 DEF IInv, Locks
  <2> QED BY <2>8, <2>9, <2>10, <2>11 DEF Locks
<1>5. Registered'
  BY DEF IInv, Registered, Live, GoLock, NothingToStop, Lock, Go
<1>6. Plans'
  BY DEF IInv, Plans, Desired, Stored, GoLock, NothingToStop, Lock, Go
<1>7. Fresh'
  BY DEF IInv, Fresh, Live, Desired, Stored, GoLock, NothingToStop, Lock, Go
<1>8. Ended'
  BY DEF IInv, Ended, Live, GoLock, NothingToStop, Lock, Go
<1> QED BY <1>1, <1>2, <1>3, <1>4, <1>5, <1>6, <1>7, <1>8 DEF IInv

\* Nothing is left to stop.
LEMMA GoStartStep ==
  ASSUME IInv, NEW p \in Procs, GoStart(p)
  PROVE  IInv'
<1> USE Sets
<1>1. TypeOK'
  BY DEF IInv, TypeOK, Rows, GoStart, NothingToStop, Go
<1>2. Roles'
  BY DEF IInv, Roles, ReaderPlaces, ProcPlaces, GoStart, NothingToStop, Go
<1>3. MuHeld'
  BY DEF IInv, MuHeld, Reconciling, GoStart, NothingToStop, Go
<1>4. Locks'
  BY DEF IInv, Locks, Waiting, Inside, GoStart, NothingToStop, Go
<1>5. Registered'
  BY DEF IInv, Registered, Live, GoStart, NothingToStop, Go
<1>6. Plans'
  BY DEF IInv, Plans, Desired, Stored, GoStart, NothingToStop, Go
<1>7. Fresh'
  BY DEF IInv, Fresh, Live, Desired, Stored, GoStart, NothingToStop, Go
<1>8. Ended'
  BY DEF IInv, Ended, Live, GoStart, NothingToStop, Go
<1> QED BY <1>1, <1>2, <1>3, <1>4, <1>5, <1>6, <1>7, <1>8 DEF IInv

\* The new reader gets the stored configuration, and the source had no other.
LEMMA StartStep ==
  ASSUME IInv, NEW p \in Procs, NEW s \in Sources, NEW r \in Readers, Start(p, s, r)
  PROVE  IInv'
<1> USE Sets
<1>1. TypeOK'
  <2>1. plan' \in [Procs -> Plan]
    <3>1. plan \in [Procs -> Plan]
      BY DEF IInv, TypeOK, Plan
    <3>2. plan' = [plan EXCEPT ![p] = [plan[p] EXCEPT !.start = plan[p].start \ {s}]]
      BY DEF Start
    <3>3. [plan[p] EXCEPT !.start = plan[p].start \ {s}] \in Plan
      <4>1. plan[p].start \ {s} \in SUBSET Sources
        BY <3>1 DEF Plan
      <4> QED BY <3>1, <4>1, PlanFields
    <3> QED BY <3>1, <3>2, <3>3, ExceptType
  <2>2. reader' \in [Readers -> Config]
    <3>1. row[s].version \in 0..MaxConfigs /\ row[s].path \in Paths \cup {NoPath}
      BY DEF IInv, TypeOK, Rows
    <3> QED BY <3>1 DEF IInv, Start, TypeOK, Config
  <2> QED BY <2>1, <2>2 DEF IInv, Start, Go, TypeOK, Plan, Config
<1>2. Roles'
  BY DEF IInv, Roles, ReaderPlaces, ProcPlaces, Start, Go
<1>3. MuHeld'
  BY DEF IInv, MuHeld, Reconciling, Start, Go
<1>4. Locks'
  BY DEF IInv, Locks, Waiting, Inside, Start, Go
<1>5. Registered'
  BY DEF IInv, Registered, Live, Start, Go, TypeOK, Roles, ReaderPlaces, ProcPlaces,
       MuHeld, Reconciling
<1>6. Plans'
  BY DEF IInv, Plans, Desired, Stored, Start, Go, TypeOK, Roles, ReaderPlaces,
       ProcPlaces, MuHeld, Reconciling
<1>7. Fresh'
  BY DEF IInv, Fresh, Live, Desired, Stored, Start, Go, TypeOK, Roles, ReaderPlaces,
       ProcPlaces, MuHeld, Reconciling, Registered, Plans
<1>8. Ended'
  BY DEF IInv, Ended, Live, Start, Go
<1> QED BY <1>1, <1>2, <1>3, <1>4, <1>5, <1>6, <1>7, <1>8 DEF IInv

\* A source drops out of the plan.
LEMMA SkipStep ==
  ASSUME IInv, NEW p \in Procs, NEW s \in Sources, Skip(p, s)
  PROVE  IInv'
<1> USE Sets
<1>1. TypeOK'
  <2>1. plan' \in [Procs -> Plan]
    <3>1. plan \in [Procs -> Plan]
      BY DEF IInv, TypeOK, Plan
    <3>2. plan' = [plan EXCEPT ![p] = [plan[p] EXCEPT !.start = plan[p].start \ {s}]]
      BY DEF Skip
    <3>3. [plan[p] EXCEPT !.start = plan[p].start \ {s}] \in Plan
      <4>1. plan[p].start \ {s} \in SUBSET Sources
        BY <3>1 DEF Plan
      <4> QED BY <3>1, <4>1, PlanFields
    <3> QED BY <3>1, <3>2, <3>3, ExceptType
  <2> QED BY <2>1 DEF IInv, Skip, TypeOK, Plan
<1>2. Locks'
  BY DEF IInv, Locks, Waiting, Inside, Skip
<1>3. Registered'
  BY DEF IInv, Registered, Live, Skip
<1>4. Plans'
  BY DEF IInv, Plans, Desired, Stored, Skip
<1>5. Roles' /\ MuHeld' /\ Fresh' /\ Ended'
  BY DEF IInv, Roles, ReaderPlaces, ProcPlaces, Skip, MuHeld, Reconciling, Fresh, Live,
       Desired, Stored, Ended
<1> QED BY <1>1, <1>2, <1>3, <1>4, <1>5 DEF IInv

\* The plan is carried out; after an exit no source has a reader.
LEMMA ReconciledStep ==
  ASSUME IInv, NEW p \in Procs, Reconciled(p)
  PROVE  IInv'
<1> USE Sets
<1>1. TypeOK'
  BY DEF IInv, TypeOK, Rows, Reconciled, NothingToStop, Leave, NoJob, NoPlan
<1>2. Roles'
  BY DEF IInv, Roles, ReaderPlaces, ProcPlaces, Reconciled, NothingToStop, Leave, NoJob,
       NoPlan, TypeOK
<1>3. MuHeld'
  BY DEF IInv, MuHeld, Reconciling, Reconciled, NothingToStop, Leave, NoJob, NoPlan,
       TypeOK
<1>4. Locks'
  BY DEF IInv, Locks, Waiting, Inside, Reconciled, NothingToStop, Leave, NoJob, NoPlan
<1>5. Registered'
  BY DEF IInv, Registered, Live, Reconciled, NothingToStop, Leave, NoJob, NoPlan
<1>6. Plans'
  BY DEF IInv, Plans, Desired, Stored, Reconciled, NothingToStop, Leave, NoJob, NoPlan,
       TypeOK
<1>7. Fresh'
  BY DEF IInv, Fresh, Live, Desired, Stored, Reconciled, NothingToStop, Leave, NoJob,
       NoPlan
<1>8. Ended'
  <2>1. ASSUME job[p].op = "exit", p = Scheduler, NothingToStop(p)
        PROVE  ~running /\ \A r \in Readers : ~Live(r)
    <3>1. ~running /\ \A s \in Sources : runtimes[s] = Nobody
      BY <2>1 DEF IInv, Plans, NothingToStop
    <3>2. \A q \in Procs : at[q] # "await"
      BY <2>1 DEF IInv, MuHeld, Reconciling, NothingToStop
    <3> QED BY <3>1, <3>2 DEF IInv, Registered
  <2>2. at[p] = "start" => job[p].op # "exit"
    BY DEF IInv, Roles
  <2>3. p = Scheduler \/ at[Scheduler] # "exited" \/ p # Scheduler
    OBVIOUS
  <2>4. \A w \in Workers \ {p} : at'[w] = at[w]
    BY DEF Reconciled, Leave, IInv, TypeOK
  <2>5. running' = running /\ \A r \in Readers : Live(r)' = Live(r)
    BY <2>4 DEF Reconciled, Live
  <2>6. p = Scheduler /\ at'[p] = "exited" => job[p].op = "exit"
    BY DEF Reconciled, Leave, IInv, TypeOK
  <2>7. CASE p = Scheduler
    BY <2>1, <2>2, <2>5, <2>6, <2>7 DEF Reconciled, Ended
  <2>8. CASE p # Scheduler
    BY <2>4, <2>5, <2>8 DEF IInv, Ended
  <2> QED BY <2>7, <2>8
<1> QED BY <1>1, <1>2, <1>3, <1>4, <1>5, <1>6, <1>7, <1>8 DEF IInv

\* The lock was free.
LEMMA TakeLockStep ==
  ASSUME IInv, NEW w \in Procs, TakeLock(w)
  PROVE  IInv'
<1> USE Sets
<1>1. TypeOK'
  BY DEF IInv, TypeOK, Rows, TakeLock, Free, Inside, Go
<1>2. Roles'
  BY DEF IInv, Roles, ReaderPlaces, ProcPlaces, TakeLock, Free, Inside, Go
<1>3. MuHeld'
  BY DEF IInv, MuHeld, Reconciling, TakeLock, Free, Inside, Go
<1>4. Locks'
  BY DEF IInv, Locks, Waiting, Inside, TakeLock, Free, Go
<1>5. Registered'
  BY DEF IInv, Registered, Live, TakeLock, Free, Inside, Go
<1>6. Plans'
  BY DEF IInv, Plans, Desired, Stored, TakeLock, Free, Inside, Go
<1>7. Fresh'
  BY DEF IInv, Fresh, Live, Desired, Stored, TakeLock, Free, Inside, Go
<1>8. Ended'
  BY DEF IInv, Ended, Live, TakeLock, Free, Inside, Go
<1> QED BY <1>1, <1>2, <1>3, <1>4, <1>5, <1>6, <1>7, <1>8 DEF IInv

\* The source has no reader, and the scheduler is not inside its lock.
LEMMA CommitStep ==
  ASSUME IInv, NEW a \in Admins, NEW path \in Paths \cup {NoPath}, NEW keys \in
         BOOLEAN, Commit(a, path, keys)
  PROVE  IInv'
<1> USE Sets
<1>1. TypeOK'
  <2>1. job[a].source \in Sources
    BY DEF IInv, Roles, Commit, Reconfigured
  <2>2. row' \in [Sources -> Rows]
    <3> DEFINE s == job[a].source
    <3>1. row[s] \in Rows /\ row \in [Sources -> Rows]
      BY <2>1 DEF IInv, TypeOK
    <3>2. row[s].version + 1 \in 0..MaxConfigs
      BY <3>1 DEF Rows, Commit
    <3>3. [[row[s] EXCEPT !.version = row[s].version + 1] EXCEPT !.path = path] \in Rows
      BY <3>1, <3>2 DEF Rows
    <3>4. \/ row' = row
          \/ row' = [row EXCEPT ![s] = [[row[s] EXCEPT !.version = row[s].version + 1] EXCEPT !.path = path]]
      BY <2>1, <3>1 DEF Commit
    <3> QED BY <2>1, <3>1, <3>3, <3>4, ExceptType
  <2>3. secrets' \subseteq Sources
    BY <2>1 DEF IInv, TypeOK, Commit
  <2>4. job' \in [Procs -> Job]
    <3>1. job \in [Procs -> Job] /\ a \in Procs
      BY DEF IInv, TypeOK, Job
    <3>2. job' = [job EXCEPT ![a] = [job[a] EXCEPT !.op = "reconcile"]]
      BY DEF Commit, Reconfigured
    <3>3. [job[a] EXCEPT !.op = "reconcile"] \in Job
      BY <3>1, JobFields
    <3> QED BY <3>1, <3>2, <3>3, ExceptType
  <2> QED BY <2>1, <2>2, <2>3, <2>4
       DEF IInv, Commit, Reconfigured, Go, Unlock, NoLock, TypeOK, Job
<1>2. Roles'
  BY DEF IInv, Roles, ReaderPlaces, ProcPlaces, Commit, Reconfigured, Unlock, NoLock,
       Go, Stored, TypeOK
<1>3. MuHeld'
  BY DEF IInv, MuHeld, Reconciling, Commit, Reconfigured, Unlock, NoLock, Go, Stored
<1>4. Locks'
  BY DEF IInv, Locks, Waiting, Inside, Commit, Reconfigured, Unlock, NoLock, Go, Stored,
       TypeOK
<1>5. Registered'
  BY DEF IInv, Registered, Live, Commit, Reconfigured, Unlock, NoLock, Go, Stored
<1>6. Plans'
  BY DEF IInv, Plans, Desired, Stored, Commit, Reconfigured, Unlock, NoLock, Go, TypeOK,
       Roles, ReaderPlaces, ProcPlaces, MuHeld, Reconciling
<1>7. Fresh'
  <2>1. reconcileMu = a /\ runtimes[job[a].source] = Nobody
    BY DEF IInv, Commit, Reconfigured, MuHeld, Reconciling, Plans
  <2>2. \A q \in Procs : at[q] # "await"
    BY <2>1 DEF IInv, Commit, Reconfigured, MuHeld, Reconciling
  <2>3. \A r \in Readers : Live(r) =>
          reader[r].source \in Sources /\ reader[r].source # job[a].source
    BY <2>1, <2>2 DEF IInv, Registered
  <2>4. ASSUME at[Scheduler] = "fetched" PROVE job[Scheduler].source # job[a].source
    <3>1. Stored(job[Scheduler].source) /\ Inside(Scheduler) /\ Inside(a)
      BY <2>4 DEF IInv, Fresh, Commit, Reconfigured, Inside
    <3>2. /\ lock[Scheduler].source = job[Scheduler].source /\ job[Scheduler].source \in Sources
          /\ lock[a].source = job[a].source
      BY <2>4 DEF IInv, Roles, Commit, Reconfigured
    <3>3. SUFFICES ASSUME job[Scheduler].source = job[a].source PROVE FALSE
      OBVIOUS
    <3>4. lockNo[job[a].source] = 0
      BY <3>1, <3>2, <3>3 DEF IInv, Locks, Stored
    <3>5. lock[Scheduler].no = 0 /\ lock[a].no = 0
      BY <3>1, <3>2, <3>3, <3>4 DEF IInv, Locks, Waiting, TypeOK
    <3>6. lock[Scheduler] = lock[a]
      <4>1. lock[Scheduler] \in LockType /\ lock[a] \in LockType
        BY DEF IInv, TypeOK, LockType
      <4> QED BY <3>2, <3>3, <3>5, <4>1, SameLock
    <3> QED BY <3>1, <3>6 DEF IInv, Locks
  <2>5. \A t \in Sources \ {job[a].source} : row'[t] = row[t]
    BY DEF IInv, Commit, TypeOK
  <2>6. \A r \in Readers : Live(r)' = Live(r) /\ reader'[r] = reader[r]
    BY DEF IInv, Commit, Reconfigured, Go, TypeOK, Live
  <2>7. /\ at'[Scheduler] = at[Scheduler] /\ job'[Scheduler] = job[Scheduler] /\ seen' = seen
    BY DEF IInv, Commit, Reconfigured, Go, TypeOK
  <2>8. at[Scheduler] = "fetched" => job[Scheduler].source \in Sources
    BY DEF IInv, Roles
  <2> QED BY <2>3, <2>4, <2>5, <2>6, <2>7, <2>8 DEF IInv, Fresh, Desired, Stored
<1>8. Ended'
  BY DEF IInv, Ended, Live, Commit, Reconfigured, Unlock, NoLock, Go, Stored
<1> QED BY <1>1, <1>2, <1>3, <1>4, <1>5, <1>6, <1>7, <1>8 DEF IInv

\* Nothing was stored; the reader is planned again.
LEMMA CommitFailsStep ==
  ASSUME IInv, NEW a \in Admins, CommitFails(a)
  PROVE  IInv'
<1> USE Sets
<1>1. TypeOK'
  <2>1. job' \in [Procs -> Job]
    <3>1. job \in [Procs -> Job] /\ a \in Procs
      BY DEF IInv, TypeOK, Job
    <3>2. job' = [job EXCEPT ![a] = [job[a] EXCEPT !.op = "reconcile"]]
      BY DEF CommitFails, Reconfigured
    <3>3. [job[a] EXCEPT !.op = "reconcile"] \in Job
      BY <3>1, JobFields
    <3> QED BY <3>1, <3>2, <3>3, ExceptType
  <2> QED BY <2>1 DEF IInv, CommitFails, Reconfigured, Go, Unlock, NoLock, TypeOK, Job
<1>2. Roles'
  BY DEF IInv, Roles, ReaderPlaces, ProcPlaces, CommitFails, Reconfigured, Unlock,
       NoLock, Go, TypeOK
<1>3. MuHeld'
  BY DEF IInv, MuHeld, Reconciling, CommitFails, Reconfigured, Unlock, NoLock, Go
<1>4. Locks'
  BY DEF IInv, Locks, Waiting, Inside, CommitFails, Reconfigured, Unlock, NoLock, Go,
       TypeOK
<1>5. Registered'
  BY DEF IInv, Registered, Live, CommitFails, Reconfigured, Unlock, NoLock, Go
<1>6. Plans'
  BY DEF IInv, Plans, Desired, Stored, CommitFails, Reconfigured, Unlock, NoLock, Go
<1>7. Fresh'
  BY DEF IInv, Fresh, Live, Desired, Stored, CommitFails, Reconfigured, Unlock, NoLock,
       Go
<1>8. Ended'
  BY DEF IInv, Ended, Live, CommitFails, Reconfigured, Unlock, NoLock, Go
<1> QED BY <1>1, <1>2, <1>3, <1>4, <1>5, <1>6, <1>7, <1>8 DEF IInv

\* The source has no reader; waiters keep the old incarnation of the lock.
LEMMA DeleteRowStep ==
  ASSUME IInv, NEW a \in Admins, DeleteRow(a)
  PROVE  IInv'
<1> USE Sets
<1>1. TypeOK'
  <2>1. job[a].source \in Sources
    BY DEF IInv, Roles, DeleteRow
  <2>2. row' \in [Sources -> Rows]
    <3> DEFINE s == job[a].source
    <3>1. row[s] \in Rows /\ row \in [Sources -> Rows]
      BY <2>1 DEF IInv, TypeOK
    <3>2. [[row[s] EXCEPT !.state = "deleted"] EXCEPT !.path = NoPath] \in Rows
      BY <3>1 DEF Rows
    <3>3. row' = [row EXCEPT ![s] = [[row[s] EXCEPT !.state = "deleted"] EXCEPT !.path = NoPath]]
      BY <2>1, <3>1 DEF DeleteRow
    <3> QED BY <2>1, <3>1, <3>2, <3>3, ExceptType
  <2>3. lockNo' \in [Sources -> Nat] /\ written' \in [Sources -> 0..MaxConfigs]
    BY <2>1 DEF IInv, TypeOK, DeleteRow
  <2>4. plan' \in [Procs -> Plan]
    BY DEF IInv, DeleteRow, Leave, NoPlan, TypeOK, Plan
  <2> QED BY <2>1, <2>2, <2>3, <2>4
       DEF IInv, DeleteRow, Leave, Unlock, NoLock, NoJob, TypeOK, Plan
<1>2. Roles'
  BY DEF IInv, Roles, ReaderPlaces, ProcPlaces, DeleteRow, Leave, NoJob, NoPlan, Unlock,
       NoLock, TypeOK
<1>3. MuHeld'
  BY DEF IInv, MuHeld, Reconciling, DeleteRow, Leave, NoJob, NoPlan, Unlock, NoLock,
       TypeOK
<1>4. Locks'
  BY DEF IInv, Locks, Waiting, Inside, DeleteRow, Leave, NoJob, NoPlan, Unlock, NoLock,
       TypeOK
<1>5. Registered'
  BY DEF IInv, Registered, Live, DeleteRow, Leave, NoJob, NoPlan, Unlock, NoLock
<1>6. Plans'
  BY DEF IInv, Plans, Desired, Stored, DeleteRow, Leave, NoJob, NoPlan, Unlock, NoLock,
       TypeOK, Roles, ReaderPlaces, ProcPlaces, MuHeld, Reconciling
<1>7. Fresh'
  <2>1. reconcileMu = a /\ runtimes[job[a].source] = Nobody
    BY DEF IInv, DeleteRow, MuHeld, Reconciling, Plans
  <2>2. \A q \in Procs : at[q] # "await"
    BY <2>1 DEF IInv, DeleteRow, MuHeld, Reconciling
  <2>3. \A r \in Readers : Live(r) =>
          reader[r].source \in Sources /\ reader[r].source # job[a].source
    BY <2>1, <2>2 DEF IInv, Registered
  <2>4. ASSUME at[Scheduler] = "fetched" PROVE job[Scheduler].source # job[a].source
    <3>1. Stored(job[Scheduler].source) /\ Inside(Scheduler) /\ Inside(a)
      BY <2>4 DEF IInv, Fresh, DeleteRow, Inside
    <3>2. /\ lock[Scheduler].source = job[Scheduler].source /\ job[Scheduler].source \in Sources
          /\ lock[a].source = job[a].source
      BY <2>4 DEF IInv, Roles, DeleteRow
    <3>3. SUFFICES ASSUME job[Scheduler].source = job[a].source PROVE FALSE
      OBVIOUS
    <3>4. lockNo[job[a].source] = 0
      BY <3>1, <3>2, <3>3 DEF IInv, Locks, Stored
    <3>5. lock[Scheduler].no = 0 /\ lock[a].no = 0
      BY <3>1, <3>2, <3>3, <3>4 DEF IInv, Locks, Waiting, TypeOK
    <3>6. lock[Scheduler] = lock[a]
      <4>1. lock[Scheduler] \in LockType /\ lock[a] \in LockType
        BY DEF IInv, TypeOK, LockType
      <4> QED BY <3>2, <3>3, <3>5, <4>1, SameLock
    <3> QED BY <3>1, <3>6 DEF IInv, Locks
  <2>5. \A t \in Sources \ {job[a].source} : row'[t] = row[t]
    BY DEF IInv, DeleteRow, TypeOK
  <2>6. \A r \in Readers : Live(r)' = Live(r) /\ reader'[r] = reader[r]
    BY DEF IInv, DeleteRow, Leave, TypeOK, Live
  <2>7. /\ at'[Scheduler] = at[Scheduler] /\ job'[Scheduler] = job[Scheduler] /\ seen' = seen
    BY DEF IInv, DeleteRow, Leave, TypeOK
  <2>8. at[Scheduler] = "fetched" => job[Scheduler].source \in Sources
    BY DEF IInv, Roles
  <2> QED BY <2>3, <2>4, <2>5, <2>6, <2>7, <2>8 DEF IInv, Fresh, Desired, Stored
<1>8. Ended'
  BY DEF IInv, Ended, Live, DeleteRow, Leave, NoJob, NoPlan, Unlock, NoLock
<1> QED BY <1>1, <1>2, <1>3, <1>4, <1>5, <1>6, <1>7, <1>8 DEF IInv

\* Nothing was deleted, and the lock stays.
LEMMA DeleteFailsStep ==
  ASSUME IInv, NEW a \in Admins, DeleteFails(a)
  PROVE  IInv'
<1> USE Sets
<1>1. TypeOK'
  BY DEF IInv, TypeOK, Rows, DeleteFails, Leave, NoJob, NoPlan, Unlock, NoLock
<1>2. Roles'
  BY DEF IInv, Roles, ReaderPlaces, ProcPlaces, DeleteFails, Leave, NoJob, NoPlan,
       Unlock, NoLock, TypeOK
<1>3. MuHeld'
  BY DEF IInv, MuHeld, Reconciling, DeleteFails, Leave, NoJob, NoPlan, Unlock, NoLock,
       TypeOK
<1>4. Locks'
  BY DEF IInv, Locks, Waiting, Inside, DeleteFails, Leave, NoJob, NoPlan, Unlock,
       NoLock, TypeOK
<1>5. Registered'
  BY DEF IInv, Registered, Live, DeleteFails, Leave, NoJob, NoPlan, Unlock, NoLock
<1>6. Plans'
  BY DEF IInv, Plans, Desired, Stored, DeleteFails, Leave, NoJob, NoPlan, Unlock, NoLock
<1>7. Fresh'
  BY DEF IInv, Fresh, Live, Desired, Stored, DeleteFails, Leave, NoJob, NoPlan, Unlock,
       NoLock
<1>8. Ended'
  BY DEF IInv, Ended, Live, DeleteFails, Leave, NoJob, NoPlan, Unlock, NoLock
<1> QED BY <1>1, <1>2, <1>3, <1>4, <1>5, <1>6, <1>7, <1>8 DEF IInv

\* The scheduler begins; it has not run before.
LEMMA RunStep ==
  ASSUME IInv, Run
  PROVE  IInv'
<1> USE Sets
<1>1. TypeOK'
  BY DEF IInv, TypeOK, Rows, Run, Begin, Go
<1>2. Roles'
  BY DEF IInv, Roles, ReaderPlaces, ProcPlaces, Run, Begin, Go, TypeOK
<1>3. MuHeld'
  BY DEF IInv, MuHeld, Reconciling, Run, Begin, Go
<1>4. Locks'
  BY DEF IInv, Locks, Waiting, Inside, Run, Begin, Go
<1>5. Registered'
  BY DEF IInv, Registered, Live, Run, Begin, Go
<1>6. Plans'
  BY DEF IInv, Plans, Desired, Stored, Run, Begin, Go, TypeOK, Roles, ReaderPlaces,
       ProcPlaces
<1>7. Fresh'
  BY DEF IInv, Fresh, Live, Desired, Stored, Run, Begin, Go
<1>8. Ended'
  BY DEF IInv, Ended, Live, Run, Begin, Go
<1> QED BY <1>1, <1>2, <1>3, <1>4, <1>5, <1>6, <1>7, <1>8 DEF IInv

\* Sources are due.
LEMMA TickAllStep ==
  ASSUME IInv, TickAll
  PROVE  IInv'
<1> USE Sets
<1>1. TypeOK'
  BY DEF IInv, TypeOK, Rows, TickAll, Stored, Go
<1>2. Roles'
  BY DEF IInv, Roles, ReaderPlaces, ProcPlaces, TickAll, Stored, Go
<1>3. MuHeld'
  BY DEF IInv, MuHeld, Reconciling, TickAll, Stored, Go
<1>4. Locks'
  BY DEF IInv, Locks, Waiting, Inside, TickAll, Stored, Go
<1>5. Registered'
  BY DEF IInv, Registered, Live, TickAll, Stored, Go
<1>6. Plans'
  BY DEF IInv, Plans, Desired, Stored, TickAll, Go
<1>7. Fresh'
  BY DEF IInv, Fresh, Live, Desired, Stored, TickAll, Go
<1>8. Ended'
  BY DEF IInv, Ended, Live, TickAll, Stored, Go
<1> QED BY <1>1, <1>2, <1>3, <1>4, <1>5, <1>6, <1>7, <1>8 DEF IInv

\* The scheduler waits for the lock that a due source has now.
LEMMA SyncDueStep ==
  ASSUME IInv, NEW s \in Sources, SyncDue(s)
  PROVE  IInv'
<1> USE Sets
<1>1. TypeOK'
  BY DEF IInv, TypeOK, Rows, SyncDue, Sync, Lock, Go
<1>2. Roles'
  BY DEF IInv, Roles, ReaderPlaces, ProcPlaces, SyncDue, Sync, Lock, Go, TypeOK
<1>3. MuHeld'
  BY DEF IInv, MuHeld, Reconciling, SyncDue, Sync, Lock, Go, TypeOK
<1>4. Locks'
  BY DEF IInv, Locks, Waiting, Inside, SyncDue, Sync, Lock, Go, TypeOK
<1>5. Registered'
  BY DEF IInv, Registered, Live, SyncDue, Sync, Lock, Go
<1>6. Plans'
  BY DEF IInv, Plans, Desired, Stored, SyncDue, Sync, Lock, Go, TypeOK
<1>7. Fresh'
  BY DEF IInv, Fresh, Live, Desired, Stored, SyncDue, Sync, Lock, Go
<1>8. Ended'
  BY DEF IInv, Ended, Live, SyncDue, Sync, Lock, Go
<1> QED BY <1>1, <1>2, <1>3, <1>4, <1>5, <1>6, <1>7, <1>8 DEF IInv

\* The scheduler waits for the lock of the source it was woken for.
LEMMA WokenStep ==
  ASSUME IInv, Woken
  PROVE  IInv'
<1> USE Sets
<1>1. TypeOK'
  <2>1. Head(wake) \in Sources
    BY DEF IInv, TypeOK, Woken
  <2>2. wake' \in Seq(Sources) /\ Len(wake') <= WakeSize
    BY DEF IInv, TypeOK, Woken, Sync
  <2>3. Lock(Head(wake)) \in LockType
    BY <2>1 DEF IInv, TypeOK, Lock, LockType
  <2> QED BY <2>1, <2>2, <2>3 DEF IInv, Woken, Sync, Go, TypeOK, LockType
<1>2. Roles'
  BY DEF IInv, Roles, ReaderPlaces, ProcPlaces, Woken, Sync, Lock, Go, TypeOK
<1>3. MuHeld'
  BY DEF IInv, MuHeld, Reconciling, Woken, Sync, Lock, Go, TypeOK
<1>4. Locks'
  BY DEF IInv, Locks, Waiting, Inside, Woken, Sync, Lock, Go, TypeOK
<1>5. Registered'
  BY DEF IInv, Registered, Live, Woken, Sync, Lock, Go
<1>6. Plans'
  BY DEF IInv, Plans, Desired, Stored, Woken, Sync, Lock, Go, TypeOK
<1>7. Fresh'
  BY DEF IInv, Fresh, Live, Desired, Stored, Woken, Sync, Lock, Go
<1>8. Ended'
  BY DEF IInv, Ended, Live, Woken, Sync, Lock, Go
<1> QED BY <1>1, <1>2, <1>3, <1>4, <1>5, <1>6, <1>7, <1>8 DEF IInv

\* No source is due any more.
LEMMA SyncsDoneStep ==
  ASSUME IInv, SyncsDone
  PROVE  IInv'
<1> USE Sets
<1>1. TypeOK'
  BY DEF IInv, TypeOK, Rows, SyncsDone, Go
<1>2. Roles'
  BY DEF IInv, Roles, ReaderPlaces, ProcPlaces, SyncsDone, Go
<1>3. MuHeld'
  BY DEF IInv, MuHeld, Reconciling, SyncsDone, Go
<1>4. Locks'
  BY DEF IInv, Locks, Waiting, Inside, SyncsDone, Go
<1>5. Registered'
  BY DEF IInv, Registered, Live, SyncsDone, Go
<1>6. Plans'
  BY DEF IInv, Plans, Desired, Stored, SyncsDone, Go
<1>7. Fresh'
  BY DEF IInv, Fresh, Live, Desired, Stored, SyncsDone, Go
<1>8. Ended'
  BY DEF IInv, Ended, Live, SyncsDone, Go
<1> QED BY <1>1, <1>2, <1>3, <1>4, <1>5, <1>6, <1>7, <1>8 DEF IInv

\* The ticker fires.
LEMMA TickStep ==
  ASSUME IInv, Tick
  PROVE  IInv'
<1> USE Sets
<1>1. TypeOK'
  BY DEF IInv, TypeOK, Rows, Tick, Begin, Go
<1>2. Roles'
  BY DEF IInv, Roles, ReaderPlaces, ProcPlaces, Tick, Begin, Go, TypeOK
<1>3. MuHeld'
  BY DEF IInv, MuHeld, Reconciling, Tick, Begin, Go
<1>4. Locks'
  BY DEF IInv, Locks, Waiting, Inside, Tick, Begin, Go
<1>5. Registered'
  BY DEF IInv, Registered, Live, Tick, Begin, Go
<1>6. Plans'
  BY DEF IInv, Plans, Desired, Stored, Tick, Begin, Go
<1>7. Fresh'
  BY DEF IInv, Fresh, Live, Desired, Stored, Tick, Begin, Go
<1>8. Ended'
  BY DEF IInv, Ended, Live, Tick, Begin, Go
<1> QED BY <1>1, <1>2, <1>3, <1>4, <1>5, <1>6, <1>7, <1>8 DEF IInv

\* The scheduler begins to leave.
LEMMA ExitStep ==
  ASSUME IInv, Exit
  PROVE  IInv'
<1> USE Sets
<1>1. TypeOK'
  BY DEF IInv, TypeOK, Rows, Exit, Begin, Go
<1>2. Roles'
  BY DEF IInv, Roles, ReaderPlaces, ProcPlaces, Exit, Begin, Go, TypeOK
<1>3. MuHeld'
  BY DEF IInv, MuHeld, Reconciling, Exit, Begin, Go
<1>4. Locks'
  BY DEF IInv, Locks, Waiting, Inside, Exit, Begin, Go
<1>5. Registered'
  BY DEF IInv, Registered, Live, Exit, Begin, Go
<1>6. Plans'
  BY DEF IInv, Plans, Desired, Stored, Exit, Begin, Go
<1>7. Fresh'
  BY DEF IInv, Fresh, Live, Desired, Stored, Exit, Begin, Go
<1>8. Ended'
  BY DEF IInv, Ended, Live, Exit, Begin, Go
<1> QED BY <1>1, <1>2, <1>3, <1>4, <1>5, <1>6, <1>7, <1>8 DEF IInv

\* The configuration is read while the lock is held.
LEMMA FetchStep ==
  ASSUME IInv, Fetch
  PROVE  IInv'
<1> USE Sets
<1>1. TypeOK'
  BY DEF IInv, TypeOK, Rows, Fetch, Stored, Go, Roles, ReaderPlaces, ProcPlaces
<1>2. Roles'
  BY DEF IInv, Roles, ReaderPlaces, ProcPlaces, Fetch, Stored, Go
<1>3. MuHeld'
  BY DEF IInv, MuHeld, Reconciling, Fetch, Stored, Go
<1>4. Locks'
  BY DEF IInv, Locks, Waiting, Inside, Fetch, Stored, Go
<1>5. Registered'
  BY DEF IInv, Registered, Live, Fetch, Stored, Go
<1>6. Plans'
  BY DEF IInv, Plans, Desired, Stored, Fetch, Go
<1>7. Fresh'
  BY DEF IInv, Fresh, Live, Desired, Stored, Fetch, Go
<1>8. Ended'
  BY DEF IInv, Ended, Live, Fetch, Stored, Go
<1> QED BY <1>1, <1>2, <1>3, <1>4, <1>5, <1>6, <1>7, <1>8 DEF IInv

\* The mapping is written and the lock given back.
LEMMA SnapshotStep ==
  ASSUME IInv, Snapshot
  PROVE  IInv'
<1> USE Sets
<1>1. TypeOK'
  BY DEF IInv, TypeOK, Rows, Snapshot, Stored, SyncEnds, NoJob, Unlock, NoLock, Go,
       Roles, ReaderPlaces, ProcPlaces
<1>2. Roles'
  BY DEF IInv, Roles, ReaderPlaces, ProcPlaces, Snapshot, Stored, SyncEnds, NoJob,
       Unlock, NoLock, Go, TypeOK
<1>3. MuHeld'
  BY DEF IInv, MuHeld, Reconciling, Snapshot, Stored, SyncEnds, NoJob, Unlock, NoLock,
       Go
<1>4. Locks'
  BY DEF IInv, Locks, Waiting, Inside, Snapshot, Stored, SyncEnds, NoJob, Unlock,
       NoLock, Go, TypeOK
<1>5. Registered'
  BY DEF IInv, Registered, Live, Snapshot, Stored, SyncEnds, NoJob, Unlock, NoLock, Go
<1>6. Plans'
  BY DEF IInv, Plans, Desired, Stored, Snapshot, SyncEnds, NoJob, Unlock, NoLock, Go
<1>7. Fresh'
  BY DEF IInv, Fresh, Live, Desired, Stored, Snapshot, SyncEnds, NoJob, Unlock, NoLock,
       Go, TypeOK
<1>8. Ended'
  BY DEF IInv, Ended, Live, Snapshot, Stored, SyncEnds, NoJob, Unlock, NoLock, Go
<1> QED BY <1>1, <1>2, <1>3, <1>4, <1>5, <1>6, <1>7, <1>8 DEF IInv

\* The lock is given back.
LEMMA SyncFailsStep ==
  ASSUME IInv, SyncFails
  PROVE  IInv'
<1> USE Sets
<1>1. TypeOK'
  BY DEF IInv, TypeOK, Rows, SyncFails, SyncEnds, NoJob, Unlock, NoLock, Go
<1>2. Roles'
  BY DEF IInv, Roles, ReaderPlaces, ProcPlaces, SyncFails, SyncEnds, NoJob, Unlock,
       NoLock, Go, TypeOK
<1>3. MuHeld'
  BY DEF IInv, MuHeld, Reconciling, SyncFails, SyncEnds, NoJob, Unlock, NoLock, Go
<1>4. Locks'
  BY DEF IInv, Locks, Waiting, Inside, SyncFails, SyncEnds, NoJob, Unlock, NoLock, Go,
       TypeOK
<1>5. Registered'
  BY DEF IInv, Registered, Live, SyncFails, SyncEnds, NoJob, Unlock, NoLock, Go
<1>6. Plans'
  BY DEF IInv, Plans, Desired, Stored, SyncFails, SyncEnds, NoJob, Unlock, NoLock, Go
<1>7. Fresh'
  BY DEF IInv, Fresh, Live, Desired, Stored, SyncFails, SyncEnds, NoJob, Unlock, NoLock,
       Go, TypeOK
<1>8. Ended'
  BY DEF IInv, Ended, Live, SyncFails, SyncEnds, NoJob, Unlock, NoLock, Go
<1> QED BY <1>1, <1>2, <1>3, <1>4, <1>5, <1>6, <1>7, <1>8 DEF IInv

\* A reader waits for the lock that its source has now.
LEMMA WakeupStep ==
  ASSUME IInv, NEW r \in Readers, Wakeup(r)
  PROVE  IInv'
<1> USE Sets
<1>1. TypeOK'
  BY DEF IInv, TypeOK, Rows, Wakeup, Lock, Go, ReaderStep, Roles, ReaderPlaces,
       ProcPlaces, Registered, Live
<1>2. Roles'
  BY DEF IInv, Roles, ReaderPlaces, ProcPlaces, Wakeup, Lock, Go, ReaderStep
<1>3. MuHeld'
  BY DEF IInv, MuHeld, Reconciling, Wakeup, Lock, Go, ReaderStep
<1>4. Locks'
  <2>1. reader[r].source \in Sources /\ lockNo[reader[r].source] \in Nat
    BY DEF IInv, TypeOK, Registered, Live, Wakeup
  <2>2. at' = [at EXCEPT ![r] = "locking"] /\ lock' = [lock EXCEPT ![r] = Lock(reader[r].source)]
    BY DEF Wakeup, Go
  <2>3. /\ lock'[r].source = reader[r].source
        /\ lock'[r].no = lockNo[reader[r].source] /\ at'[r] = "locking"
    BY <2>2 DEF IInv, TypeOK, Lock
  <2>4. \A v \in Workers \ {r} : lock'[v] = lock[v] /\ at'[v] = at[v]
    BY <2>2 DEF IInv, TypeOK
  <2>5. UNCHANGED <<row, lockNo, reader>>
    BY DEF Wakeup, ReaderStep
  <2>6. \A v \in Workers \ {r} : Inside(v)' = Inside(v) /\ Waiting(v)' = Waiting(v)
    BY <2>4 DEF Inside, Waiting
  <2>7. ~Inside(r)'
    BY <2>3 DEF Inside
  <2>8. \A v \in Workers : Waiting(v)' =>
          lock'[v].source \in Sources /\ lock'[v].no <= lockNo'[lock'[v].source]
    <3> TAKE v \in Workers
    <3>1. CASE v = r
      BY <2>1, <2>3, <2>5, <3>1
    <3>2. CASE v # r
      BY <2>4, <2>5, <2>6, <3>2 DEF IInv, Locks
    <3> QED BY <3>1, <3>2
  <2>9. \A q \in Readers : Waiting(q)' => lock'[q].source = reader'[q].source
    BY <2>3, <2>4, <2>5, <2>6 DEF IInv, Locks
  <2>10. \A u, v \in Workers : Inside(u)' /\ Inside(v)' /\ lock'[u] = lock'[v] => u = v
    BY <2>4, <2>6, <2>7 DEF IInv, Locks
  <2>11. \A s \in Sources : row'[s].state # "deleted" => lockNo'[s] = 0
    BY <2>5 DEF IInv, Locks
  <2> QED BY <2>8, <2>9, <2>10, <2>11 DEF Locks
<1>5. Registered'
  BY DEF IInv, Registered, Live, Wakeup, Lock, Go, ReaderStep
<1>6. Plans'
  BY DEF IInv, Plans, Desired, Stored, Wakeup, Lock, Go, ReaderStep
<1>7. Fresh'
  BY DEF IInv, Fresh, Live, Desired, Stored, Wakeup, Lock, Go, ReaderStep
<1>8. Ended'
  BY DEF IInv, Ended, Live, Wakeup, Lock, Go, ReaderStep
<1> QED BY <1>1, <1>2, <1>3, <1>4, <1>5, <1>6, <1>7, <1>8 DEF IInv

\* The lock was free, or the reader is told to stop and does not keep it.
LEMMA ReadStep ==
  ASSUME IInv, NEW r \in Readers, Read(r)
  PROVE  IInv'
<1> USE Sets
<1>1. TypeOK'
  <2>1. /\ lock' \in [Workers -> [source : Sources \cup {Nobody}, no : Nat]]
        /\ at' \in [Workers -> ReaderPlaces \cup ProcPlaces]
    <3>1. CASE Over(r)
      <4>1. lock' = [lock EXCEPT ![r] = NoLock] /\ at' = [at EXCEPT ![r] = "idle"]
        BY <3>1 DEF Read, Unlock, Go
      <4>2. NoLock \in [source : Sources \cup {Nobody}, no : Nat]
        BY DEF NoLock
      <4> QED BY <4>1, <4>2 DEF IInv, TypeOK, ReaderPlaces, ProcPlaces
    <3>2. CASE ~Over(r)
      BY <3>2 DEF IInv, Read, Go, TypeOK, ReaderPlaces, ProcPlaces
    <3> QED BY <3>1, <3>2
  <2> QED BY <2>1 DEF IInv, Read, ReaderStep, TypeOK, ReaderPlaces, ProcPlaces
<1>2. Roles'
  <2>1. /\ at'[r] \in {"idle", "reading"}
        /\ \A w \in Workers \ {r} : at'[w] = at[w] /\ lock'[w] = lock[w]
    <3>1. CASE Over(r)
      BY <3>1 DEF IInv, Read, Go, Unlock, TypeOK
    <3>2. CASE ~Over(r)
      BY <3>2 DEF IInv, Read, Go, TypeOK
    <3> QED BY <3>1, <3>2
  <2>2. \A q \in Readers : at'[q] \in ReaderPlaces
    BY <2>1 DEF IInv, Roles, ReaderPlaces
  <2>3. \A p \in Procs : at'[p] = at[p] /\ lock'[p] = lock[p]
    BY <2>1
  <2> QED BY <2>2, <2>3 DEF IInv, Roles, Read, ReaderStep
<1>3. MuHeld'
  BY DEF IInv, MuHeld, Reconciling, Read, Free, Inside, Over, Unlock, NoLock, Go,
       ReaderStep, TypeOK
<1>4. Locks'
  <2>1. /\ \A w \in Workers \ {r} : at'[w] = at[w] /\ lock'[w] = lock[w]
        /\ \/ at'[r] = "idle"
           \/ at'[r] = "reading" /\ lock'[r] = lock[r]
    <3>1. CASE Over(r)
      BY <3>1 DEF IInv, Read, Go, Unlock, TypeOK
    <3>2. CASE ~Over(r)
      BY <3>2 DEF IInv, Read, Go, TypeOK
    <3> QED BY <3>1, <3>2
  <2>2. \A w \in Workers \ {r} : (Inside(w)' <=> Inside(w)) /\ (Waiting(w)' <=> Waiting(w))
    BY <2>1 DEF Inside, Waiting
  <2>3. Waiting(r)' => Waiting(r) /\ lock'[r] = lock[r]
    BY <2>1 DEF Read, Inside, Waiting
  <2>4. Inside(r)' => \A w \in Workers : Inside(w) => lock[w] # lock'[r]
    BY <2>1 DEF Read, Free, Inside
  <2>5. UNCHANGED <<row, lockNo, reader>>
    BY DEF Read, ReaderStep
  <2>6. \A w \in Workers : Waiting(w)' => Waiting(w) /\ lock'[w] = lock[w]
    BY <2>1, <2>2, <2>3
  <2>7. \A v, w \in Workers : Inside(v)' /\ Inside(w)' /\ lock'[v] = lock'[w] => v = w
    BY <2>1, <2>2, <2>4 DEF IInv, Locks
  <2> QED BY <2>5, <2>6, <2>7 DEF IInv, Locks
<1>5. Registered'
  BY DEF IInv, Registered, Live, Read, Free, Inside, Over, Unlock, NoLock, Go,
       ReaderStep, TypeOK
<1>6. Plans'
  BY DEF IInv, Plans, Desired, Stored, Read, Free, Inside, Over, Unlock, NoLock, Go,
       ReaderStep, TypeOK
<1>7. Fresh'
  BY DEF IInv, Fresh, Live, Desired, Stored, Read, Free, Inside, Over, Unlock, NoLock,
       Go, ReaderStep, TypeOK
<1>8. Ended'
  BY DEF IInv, Ended, Live, Read, Free, Inside, Over, Unlock, NoLock, Go, ReaderStep,
       TypeOK
<1> QED BY <1>1, <1>2, <1>3, <1>4, <1>5, <1>6, <1>7, <1>8 DEF IInv

\* The source is looked up.
LEMMA CheckStep ==
  ASSUME IInv, NEW r \in Readers, Check(r)
  PROVE  IInv'
<1> USE Sets
<1>1. TypeOK'
  BY DEF IInv, TypeOK, Rows, Check, Desired, Stored, Matches, Go, ReaderStep
<1>2. Roles'
  BY DEF IInv, Roles, ReaderPlaces, ProcPlaces, Check, Desired, Stored, Matches, Go,
       ReaderStep
<1>3. MuHeld'
  BY DEF IInv, MuHeld, Reconciling, Check, Desired, Stored, Matches, Go, ReaderStep
<1>4. Locks'
  BY DEF IInv, Locks, Waiting, Inside, Check, Desired, Stored, Matches, Go, ReaderStep
<1>5. Registered'
  BY DEF IInv, Registered, Live, Check, Desired, Stored, Matches, Go, ReaderStep
<1>6. Plans'
  BY DEF IInv, Plans, Desired, Stored, Check, Matches, Go, ReaderStep
<1>7. Fresh'
  BY DEF IInv, Fresh, Live, Desired, Stored, Check, Matches, Go, ReaderStep
<1>8. Ended'
  BY DEF IInv, Ended, Live, Check, Desired, Stored, Matches, Go, ReaderStep
<1> QED BY <1>1, <1>2, <1>3, <1>4, <1>5, <1>6, <1>7, <1>8 DEF IInv

\* The mapping is written.
LEMMA ApplyStep ==
  ASSUME IInv, NEW r \in Readers, Apply(r)
  PROVE  IInv'
<1> USE Sets
<1>1. TypeOK'
  BY DEF IInv, TypeOK, Rows, Apply, Stored, Go, ReaderStep
<1>2. Roles'
  BY DEF IInv, Roles, ReaderPlaces, ProcPlaces, Apply, Stored, Go, ReaderStep
<1>3. MuHeld'
  BY DEF IInv, MuHeld, Reconciling, Apply, Stored, Go, ReaderStep
<1>4. Locks'
  BY DEF IInv, Locks, Waiting, Inside, Apply, Stored, Go, ReaderStep
<1>5. Registered'
  BY DEF IInv, Registered, Live, Apply, Stored, Go, ReaderStep
<1>6. Plans'
  BY DEF IInv, Plans, Desired, Stored, Apply, Go, ReaderStep
<1>7. Fresh'
  BY DEF IInv, Fresh, Live, Desired, Stored, Apply, Go, ReaderStep
<1>8. Ended'
  BY DEF IInv, Ended, Live, Apply, Stored, Go, ReaderStep
<1> QED BY <1>1, <1>2, <1>3, <1>4, <1>5, <1>6, <1>7, <1>8 DEF IInv

\* The lock is given back.
LEMMA RoundEndsStep ==
  ASSUME IInv, NEW r \in Readers, RoundEnds(r)
  PROVE  IInv'
<1> USE Sets
<1>1. TypeOK'
  BY DEF IInv, TypeOK, Rows, RoundEnds, Unlock, NoLock, Go, ReaderStep
<1>2. Roles'
  BY DEF IInv, Roles, ReaderPlaces, ProcPlaces, RoundEnds, Unlock, NoLock, Go,
       ReaderStep
<1>3. MuHeld'
  BY DEF IInv, MuHeld, Reconciling, RoundEnds, Unlock, NoLock, Go, ReaderStep
<1>4. Locks'
  BY DEF IInv, Locks, Waiting, Inside, RoundEnds, Unlock, NoLock, Go, ReaderStep, TypeOK
<1>5. Registered'
  BY DEF IInv, Registered, Live, RoundEnds, Unlock, NoLock, Go, ReaderStep
<1>6. Plans'
  BY DEF IInv, Plans, Desired, Stored, RoundEnds, Unlock, NoLock, Go, ReaderStep
<1>7. Fresh'
  BY DEF IInv, Fresh, Live, Desired, Stored, RoundEnds, Unlock, NoLock, Go, ReaderStep
<1>8. Ended'
  BY DEF IInv, Ended, Live, RoundEnds, Unlock, NoLock, Go, ReaderStep
<1> QED BY <1>1, <1>2, <1>3, <1>4, <1>5, <1>6, <1>7, <1>8 DEF IInv

\* The reader holds no lock any more.
LEMMA QuitStep ==
  ASSUME IInv, NEW r \in Readers, Quit(r)
  PROVE  IInv'
<1> USE Sets
<1>1. TypeOK'
  BY DEF IInv, TypeOK, Rows, Quit, Over, Go, ReaderStep
<1>2. Roles'
  BY DEF IInv, Roles, ReaderPlaces, ProcPlaces, Quit, Over, Go, ReaderStep
<1>3. MuHeld'
  BY DEF IInv, MuHeld, Reconciling, Quit, Over, Go, ReaderStep
<1>4. Locks'
  BY DEF IInv, Locks, Waiting, Inside, Quit, Over, Go, ReaderStep
<1>5. Registered'
  BY DEF IInv, Registered, Live, Quit, Over, Go, ReaderStep
<1>6. Plans'
  BY DEF IInv, Plans, Desired, Stored, Quit, Over, Go, ReaderStep
<1>7. Fresh'
  BY DEF IInv, Fresh, Live, Desired, Stored, Quit, Over, Go, ReaderStep
<1>8. Ended'
  BY DEF IInv, Ended, Live, Quit, Over, Go, ReaderStep
<1> QED BY <1>1, <1>2, <1>3, <1>4, <1>5, <1>6, <1>7, <1>8 DEF IInv

\* Being told to stop changes nothing else.
LEMMA CancelStep ==
  ASSUME IInv, Cancel
  PROVE  IInv'
<1> USE Sets
<1>1. TypeOK'
  BY DEF IInv, TypeOK, Rows, Cancel
<1>2. Roles'
  BY DEF IInv, Roles, ReaderPlaces, ProcPlaces, Cancel
<1>3. Locks'
  BY DEF IInv, Locks, Waiting, Inside, Cancel
<1>4. MuHeld' /\ Registered' /\ Plans' /\ Fresh' /\ Ended'
  BY DEF IInv, MuHeld, Reconciling, Cancel, Registered, Live, Plans, Desired, Stored,
       Fresh, Ended
<1> QED BY <1>1, <1>2, <1>3, <1>4 DEF IInv

-----------------------------------------------------------------------------
\* Before anybody does anything.
LEMMA Initially == Init => IInv
<1> SUFFICES ASSUME Init PROVE IInv
  OBVIOUS
<1> USE Sets
<1>1. \A w \in Workers : at[w] \in {"free", "off", "idle"}
  BY DEF Init
<1>2. \A r \in Readers : at[r] = "free"
  BY DEF Init
<1>3. \A p \in Procs : at[p] = IF p = Scheduler THEN "off" ELSE "idle"
  BY DEF Init
<1>4. TypeOK
  <2>1. /\ NoRow \in Rows
        /\ [state : {"stored"}, version : {1}, path : Paths \cup {NoPath}] \subseteq Rows
    BY DEF NoRow, Rows
  <2>2. row \in [Sources -> Rows]
    BY <2>1 DEF Init
  <2>3. wake \in Seq(Sources) /\ Len(wake) <= WakeSize
    BY DEF Init
  <2>4. reader \in [Readers -> Config]
    BY DEF Init, NoReader, Config
  <2>5. lock \in [Workers -> LockType]
    BY DEF Init, NoLock, LockType
  <2>6. job \in [Procs -> Job]
    BY DEF Init, NoJob, Job
  <2>7. plan \in [Procs -> Plan]
    BY DEF Init, NoPlan, Plan
  <2>8. 0 \in 0..MaxConfigs
    OBVIOUS
  <2>9. at \in [Workers -> {"free", "off", "idle"}]
    BY DEF Init
  <2> QED BY <2>2, <2>3, <2>4, <2>5, <2>6, <2>7, <2>8, <2>9
       DEF Init, TypeOK, Config, LockType, Job, Plan
<1>5. Roles /\ MuHeld
  BY <1>2, <1>3 DEF Roles, MuHeld, Reconciling, ReaderPlaces, ProcPlaces
<1>6. Locks
  BY <1>1 DEF Init, Locks, Waiting, Inside
<1>7. Registered /\ Plans /\ Fresh /\ Ended
  BY <1>1, <1>2, <1>3 DEF Init, Registered, Plans, Fresh, Ended, Live
<1> QED BY <1>4, <1>5, <1>6, <1>7 DEF IInv

\* Every step preserves the invariant.
LEMMA Inductive == IInv /\ [Next]_vars => IInv'
<1> SUFFICES ASSUME IInv, [Next]_vars PROVE IInv'
  OBVIOUS
<1>1. ASSUME NEW a \in Admins, Request(a) PROVE IInv'
  BY <1>1, CreateStep, AskStep, AskTestStep DEF Request
<1>2. ASSUME NEW a \in Admins, UnderLock(a) PROVE IInv'
  BY <1>2, TestDoneStep, CommitFailsStep, DeleteRowStep, DeleteFailsStep, CommitStep
       DEF UnderLock
<1>3. ASSUME NEW p \in Procs, Enter(p) \/ TakeLock(p) PROVE IInv'
  BY <1>3, EnterStep, TakeLockStep
<1>4. ASSUME NEW p \in Procs, Reconcile(p) PROVE IInv'
  BY <1>4, ListStep, ListFailsStep, StopStep, StoppedStep, GoLockStep, GoStartStep,
     ReconciledStep, SkipStep, StartStep DEF Reconcile
<1>5. ASSUME Schedule \/ Loop PROVE IInv'
  BY <1>5, RunStep, TickAllStep, SyncsDoneStep, FetchStep, SnapshotStep, SyncFailsStep,
     SyncDueStep, WokenStep, TickStep, ExitStep DEF Schedule, Loop
<1>6. ASSUME NEW r \in Readers, Wakeup(r) \/ Read(r) \/ Round(r) \/ Quit(r) PROVE IInv'
  BY <1>6, WakeupStep, ReadStep, CheckStep, ApplyStep, RoundEndsStep, QuitStep DEF Round
<1>7. ASSUME NEW s \in Sources, Wake(s) PROVE IInv'
  BY <1>7, WakeStep
<1>8. CASE Cancel
  BY <1>8, CancelStep
<1>9. CASE UNCHANGED vars
  BY <1>9 DEF vars, IInv, TypeOK, Roles, MuHeld, Reconciling, Locks, Waiting, Inside,
     Registered, Plans, Fresh, Desired, Stored, Live, Ended
<1> QED BY <1>1, <1>2, <1>3, <1>4, <1>5, <1>6, <1>7, <1>8, <1>9 DEF Next

\* The inductive invariant of locks, readers and plans.
THEOREM Invariant == Spec => []IInv
BY Initially, Inductive, PTL DEF Spec

\* Every variable keeps its type, and the wake channel its capacity.
THEOREM TypeCorrect == Spec => []TypeOK
<1>1. IInv => TypeOK
  BY DEF IInv
<1> QED BY Invariant, <1>1, PTL

\* Any number of administrators, sources and readers: nobody else is inside the
\* lock of an existing source (syncOne, runDirectIncremental, runDirectCPAFile,
\* UpdateSourceConfig, DeleteSource, TestDirectSource).
THEOREM Exclusive == Spec => []OneInside
<1>1. IInv => OneInside
  <2> SUFFICES ASSUME IInv, NEW v \in Workers, NEW w \in Workers, Inside(v), Inside(w),
                      lock[v].source = lock[w].source, Stored(lock[v].source)
               PROVE  v = w
    BY DEF OneInside
  <2>1. /\ lock[v].source \in Sources
        /\ lock[v].no <= lockNo[lock[v].source] /\ lock[w].no <= lockNo[lock[v].source]
    BY DEF IInv, Locks, Waiting
  <2>2. lockNo[lock[v].source] = 0
    BY <2>1 DEF IInv, Locks, Stored
  <2>3. lock[v] \in LockType /\ lock[w] \in LockType
    BY DEF IInv, TypeOK, LockType
  <2>4. lock[v].no = 0 /\ lock[w].no = 0
    BY <2>1, <2>2, <2>3 DEF LockType
  <2>5. lock[v] = lock[w]
    BY <2>3, <2>4, SameLock
  <2> QED BY <2>5 DEF IInv, Locks
<1> QED BY Invariant, <1>1, PTL

\* A source never has two readers, even while one of them is being stopped
\* (stopDirectRuntime, ensureDirectRuntime).
THEOREM AtMostOneReader == Spec => []OneReader
<1>1. IInv => OneReader
  <2> SUFFICES ASSUME IInv, NEW q \in Readers, NEW r \in Readers, Live(q), Live(r),
                      reader[q].source = reader[r].source
               PROVE  q = r
    BY DEF OneReader, Live
  <2>1. \A x \in Readers : x # Nobody
    BY Sets
  <2>2. CASE runtimes[reader[q].source] = q
    BY <2>1, <2>2 DEF IInv, Registered
  <2>3. CASE runtimes[reader[r].source] = r
    BY <2>1, <2>3 DEF IInv, Registered
  <2>4. CASE /\ \E p \in Procs : at[p] = "await" /\ plan[p].wait = q
             /\ \E p \in Procs : at[p] = "await" /\ plan[p].wait = r
    BY <2>4 DEF IInv, MuHeld, Reconciling
  <2> QED BY <2>2, <2>3, <2>4 DEF IInv, Registered
<1> QED BY Invariant, <1>1, PTL

\* Whoever releases reconcileMu leaves readers that match the stored rows
\* (reconcileLocked, UpdateSourceConfig, DeleteSource).
THEOREM ReadersAreCurrent == Spec => []ReadersMatchRows
<1>1. IInv => ReadersMatchRows
  <2> SUFFICES ASSUME IInv, reconcileMu = Nobody PROVE ReadersMatchRows
    BY DEF ReadersMatchRows
  <2>1. \A p \in Procs : at[p] # "await"
    BY Sets DEF IInv, MuHeld, Reconciling
  <2>2. \A r \in Readers : Live(r) => reader[r].source \in Sources /\ runtimes[reader[r].source] = r
    BY <2>1 DEF IInv, Registered
  <2>3. ASSUME NEW s \in Sources, runtimes[s] # Nobody
        PROVE  Desired(s) /\ reader[runtimes[s]].version = row[s].version
    <3>1. runtimes[s] \in Readers /\ Live(runtimes[s]) /\ reader[runtimes[s]].source = s
      BY <2>3 DEF IInv, Registered, TypeOK
    <3> QED BY <3>1 DEF IInv, Fresh
  <2> QED BY <2>2, <2>3 DEF ReadersMatchRows, Live
<1> QED BY Invariant, <1>1, PTL

\* Once Run has returned there is no reader, and none is started any more.
THEOREM RunStopsReaders == Spec => []NoReaderAfterRun
<1>1. IInv => NoReaderAfterRun
  BY DEF IInv, Ended, Live, NoReaderAfterRun
<1> QED BY Invariant, <1>1, PTL

-----------------------------------------------------------------------------
(* Nobody waits in a circle.                                               *)

\* reconcileMu is released at the end of every path.
MuReleased == \A p \in Procs : reconcileMu = p => Reconciling(p)

\* Whoever waits for a reader has told it to stop.
Told == \A p \in Procs : at[p] = "await" => reader[plan[p].wait].cancelled

\* w cannot go on before v does.
WaitsFor(w, v) ==
  \/ at[w] = "enter" /\ reconcileMu = v
  \/ at[w] = "await" /\ plan[w].wait = v /\ at[v] # "done"
  \/ at[w] = "locking" /\ Inside(v) /\ lock[v] = lock[w]

\* Among goroutines that are not finished, however many, there is always one that
\* waits for none of the others: reconcileMu is taken before the end of a reader
\* is awaited, and both before the lock of a source (direct.go:215).
NoCircularWait ==
  \A W \in SUBSET Workers : W # {} => \E w \in W : \A v \in W : ~WaitsFor(w, v)

\* Administrators leave reconcileMu free, or still reconcile.
LEMMA AdminReleases ==
  ASSUME IInv, MuReleased, NEW a \in Admins, Request(a) \/ UnderLock(a)
  PROVE  MuReleased'
<1> USE Sets
<1>1. ASSUME NEW s \in Sources, NEW path \in Paths \cup {NoPath}, Create(a, s, path)
      PROVE  MuReleased'
  BY <1>1 DEF IInv, TypeOK, MuReleased, Reconciling, Create, Go
<1>2. ASSUME NEW s \in Sources, NEW op \in {"update", "delete"}, Ask(a, op, s)
      PROVE  MuReleased'
  BY <1>2 DEF IInv, TypeOK, MuReleased, Reconciling, Ask, Go
<1>3. ASSUME NEW s \in Sources, AskTest(a, s) PROVE MuReleased'
  BY <1>3 DEF IInv, TypeOK, MuReleased, Reconciling, AskTest, Go
<1>4. ASSUME TestDone(a) PROVE MuReleased'
  BY <1>4 DEF IInv, TypeOK, MuReleased, Reconciling, TestDone, Go
<1>5. ASSUME Reconfigured(a) PROVE MuReleased'
  BY <1>5 DEF IInv, TypeOK, MuReleased, Reconciling, Reconfigured, Go
<1>6. ASSUME DeleteRow(a) \/ DeleteFails(a) PROVE MuReleased'
  BY <1>6 DEF IInv, TypeOK, MuReleased, Reconciling, DeleteRow, DeleteFails, Leave
<1> QED BY <1>1, <1>2, <1>3, <1>4, <1>5, <1>6
     DEF Request, UnderLock, CommitFails, Commit

\* So does everybody who takes it.
LEMMA ReconcilingReleases ==
  ASSUME IInv, MuReleased, NEW p \in Procs, Enter(p) \/ Reconcile(p) \/ TakeLock(p)
  PROVE  MuReleased'
<1> USE Sets
<1>1. ASSUME Enter(p) PROVE MuReleased'
  BY <1>1 DEF IInv, TypeOK, MuReleased, Reconciling, Enter, Go
<1>2. ASSUME List(p) \/ GoStart(p) PROVE MuReleased'
  BY <1>2 DEF IInv, TypeOK, MuReleased, Reconciling, List, GoStart, Go
<1>3. ASSUME ListFails(p) \/ Reconciled(p) PROVE MuReleased'
  BY <1>3 DEF IInv, TypeOK, MuReleased, Reconciling, ListFails, Reconciled, Leave
<1>4. ASSUME NEW s \in Sources, Stop(p, s) \/ Skip(p, s) PROVE MuReleased'
  BY <1>4 DEF IInv, TypeOK, MuReleased, Reconciling, Stop, Skip, Go
<1>5. ASSUME Stopped(p) PROVE MuReleased'
  BY <1>5 DEF IInv, TypeOK, MuReleased, Reconciling, Registered, Stopped
<1>6. ASSUME GoLock(p) \/ TakeLock(p) PROVE MuReleased'
  BY <1>6 DEF IInv, TypeOK, MuReleased, Reconciling, GoLock, TakeLock, NothingToStop, Go
<1>7. ASSUME NEW s \in Sources, NEW r \in Readers, Start(p, s, r) PROVE MuReleased'
  BY <1>7 DEF IInv, TypeOK, MuReleased, Reconciling, Start, Go
<1> QED BY <1>1, <1>2, <1>3, <1>4, <1>5, <1>6, <1>7 DEF Reconcile

\* The scheduler between reconciliations, readers and the rest do not hold it.
LEMMA OthersRelease ==
  ASSUME IInv, MuReleased,
         \/ Schedule \/ Loop \/ Cancel \/ UNCHANGED vars
         \/ \E r \in Readers : Wakeup(r) \/ Read(r) \/ Round(r) \/ Quit(r)
         \/ \E s \in Sources : Wake(s)
  PROVE  MuReleased'
<1> USE Sets
<1>1. ASSUME Run \/ Tick \/ Exit \/ TickAll \/ SyncsDone \/ Fetch \/ Snapshot \/ SyncFails
      PROVE  MuReleased'
  BY <1>1 DEF IInv, TypeOK, Roles, MuReleased, Reconciling, Run, Tick, Exit, Begin, TickAll, SyncsDone,
     Fetch, Snapshot, SyncFails, SyncEnds, Go
<1>2. ASSUME NEW s \in Sources, SyncDue(s) PROVE MuReleased'
  BY <1>2 DEF IInv, TypeOK, MuReleased, Reconciling, SyncDue, Sync, Go
<1>3. ASSUME Woken PROVE MuReleased'
  BY <1>3 DEF IInv, TypeOK, MuReleased, Reconciling, Woken, Sync, Go
<1>4. ASSUME NEW r \in Readers, Wakeup(r) \/ Read(r) \/ Round(r) \/ Quit(r)
      PROVE  MuReleased'
  BY <1>4 DEF IInv, TypeOK, MuReleased, Reconciling, Wakeup, Read, Round, Check, Apply, RoundEnds,
     Quit, ReaderStep, Go
<1>5. ASSUME Cancel \/ UNCHANGED vars \/ \E s \in Sources : Wake(s) PROVE MuReleased'
  BY <1>5 DEF MuReleased, Reconciling, Cancel, Wake, vars
<1> QED BY <1>1, <1>2, <1>3, <1>4, <1>5 DEF Schedule, Loop

\* Only the one who reconciles stops a reader, and a reader keeps its cancellation
\* until its end has been seen.
LEMMA TellStep ==
  ASSUME IInv, Told, [Next]_vars PROVE Told'
<1> USE Sets
<1>1. ASSUME NEW p \in Procs, NEW s \in Sources, Stop(p, s) PROVE Told'
  BY <1>1 DEF IInv, TypeOK, MuHeld, Reconciling, Told, Stop, Go
<1>2. ASSUME NEW p \in Procs, Stopped(p) PROVE Told'
  BY <1>2 DEF IInv, TypeOK, MuHeld, Reconciling, Registered, Told, Stopped
<1>3. ASSUME NEW p \in Procs, NEW s \in Sources, NEW r \in Readers, Start(p, s, r)
      PROVE  Told'
  BY <1>3 DEF IInv, TypeOK, Registered, Live, Told, Start, Go
<1>4. ASSUME UNCHANGED reader,
             \A p \in Procs : at'[p] = "await" => at[p] = "await" /\ plan'[p].wait = plan[p].wait
      PROVE  Told'
  BY <1>4 DEF Told
<1>5. ASSUME NEW a \in Admins, Request(a) \/ UnderLock(a) PROVE Told'
  BY <1>4, <1>5 DEF IInv, TypeOK, Request, UnderLock, Create, Ask, AskTest, TestDone,
     Commit, CommitFails, Reconfigured, DeleteRow, DeleteFails, Leave, Go
<1>6. ASSUME NEW p \in Procs, Enter(p) \/ List(p) \/ ListFails(p) PROVE Told'
  BY <1>4, <1>6 DEF IInv, TypeOK, Enter, List, ListFails, Leave, Go
<1>7. ASSUME NEW p \in Procs, GoLock(p) \/ GoStart(p) \/ Reconciled(p) \/ TakeLock(p) PROVE Told'
  BY <1>4, <1>7 DEF IInv, TypeOK, GoLock, GoStart, Reconciled, TakeLock, Leave, Go
<1>8. ASSUME NEW p \in Procs, NEW s \in Sources, Skip(p, s) PROVE Told'
  BY <1>4, <1>8 DEF IInv, TypeOK, Skip, Go
<1>9. ASSUME Schedule \/ Loop PROVE Told'
  BY <1>4, <1>9 DEF IInv, TypeOK, Schedule, Loop, Run, Tick, Exit, Begin, TickAll, SyncsDone,
     Fetch, Snapshot, SyncFails, SyncEnds, SyncDue, Woken, Sync, Go
<1>10. ASSUME NEW r \in Readers, Wakeup(r) \/ Read(r) \/ Round(r) \/ Quit(r) PROVE Told'
  BY <1>4, <1>10 DEF IInv, TypeOK, Wakeup, Read, Round, Check, Apply, RoundEnds,
     Quit, ReaderStep, Go
<1>11. ASSUME Cancel \/ UNCHANGED vars \/ \E s \in Sources : Wake(s) PROVE Told'
  BY <1>4, <1>11 DEF Cancel, Wake, vars
<1> QED BY <1>1, <1>2, <1>3, <1>5, <1>6, <1>7, <1>8, <1>9, <1>10, <1>11
     DEF Next, Reconcile

\* Waiting goes down from reconcileMu over readers to locks.
LEMMA Descends ==
  ASSUME IInv, MuReleased PROVE NoCircularWait
<1> USE Sets
<1> SUFFICES ASSUME NEW W \in SUBSET Workers, W # {}
             PROVE  \E w \in W : \A v \in W : ~WaitsFor(w, v)
  BY DEF NoCircularWait
<1>1. ASSUME NEW w \in Workers, NEW v \in Workers, WaitsFor(w, v)
      PROVE  /\ at[w] \in {"enter", "await", "locking"}
             /\ at[v] # "enter"
             /\ at[w] # "enter" => at[v] # "await"
             /\ at[w] = "locking" => at[v] # "locking"
  <2>1. CASE at[w] = "enter" /\ reconcileMu = v
    <3>1. v \in Procs
      BY <2>1 DEF IInv, TypeOK
    <3> QED BY <2>1, <3>1 DEF MuReleased, Reconciling
  <2>2. CASE at[w] = "await" /\ plan[w].wait = v
    <3>1. w \in Procs
      BY <2>2 DEF IInv, Roles, ReaderPlaces
    <3>2. v \in Readers
      BY <2>2, <3>1 DEF IInv, Registered
    <3> QED BY <2>2, <3>2 DEF IInv, Roles, ReaderPlaces
  <2>3. CASE at[w] = "locking" /\ Inside(v)
    BY <2>3 DEF Inside
  <2> QED BY <1>1, <2>1, <2>2, <2>3 DEF WaitsFor
<1>2. CASE \E w \in W : at[w] \notin {"enter", "await", "locking"}
  BY <1>1, <1>2
<1>3. CASE \A w \in W : at[w] \in {"enter", "await", "locking"}
  <2>1. CASE \E w \in W : at[w] = "locking"
    BY <1>1, <1>3, <2>1
  <2>2. CASE ~(\E w \in W : at[w] = "locking") /\ \E w \in W : at[w] = "await"
    BY <1>1, <1>3, <2>2
  <2>3. CASE \A w \in W : at[w] = "enter"
    BY <1>1, <2>3
  <2> QED BY <1>3, <2>1, <2>2, <2>3
<1> QED BY <1>2, <1>3

\* Every step keeps reconcileMu with somebody who reconciles.
LEMMA ReleaseStep == IInv /\ MuReleased /\ [Next]_vars => MuReleased'
BY AdminReleases, ReconcilingReleases, OthersRelease DEF Next

\* reconcileMu is held by somebody who will release it, and a reader whose end is
\* awaited has been told to end (stopDirectRuntime).
THEOREM Released == Spec => [](MuReleased /\ Told)
<1>1. Init => MuReleased /\ Told
  BY Sets DEF Init, MuReleased, Told
<1> QED BY <1>1, ReleaseStep, TellStep, Invariant, PTL DEF Spec

\* No number of administrators, readers and sources can wait for each other in a
\* circle, whatever the order in which they ask, stop and lock.
THEOREM WaitingEnds == Spec => []NoCircularWait
BY Released, Invariant, Descends, PTL


-----------------------------------------------------------------------------
\* Every step is a step of the register of configurations, or none.
LEMMA RegisterStep == IInv /\ [Next]_vars => [Register!Next]_Register!vars
<1> SUFFICES ASSUME IInv, [Next]_vars PROVE [Register!Next]_Register!vars
  OBVIOUS
<1> USE Sets
<1>1. ASSUME UNCHANGED <<row, written>> PROVE [Register!Next]_Register!vars
  BY <1>1 DEF Register!vars
<1>2. ASSUME NEW a \in Admins, Request(a) PROVE [Register!Next]_Register!vars
  <2>1. ASSUME NEW s \in Sources, NEW path \in Paths \cup {NoPath}, Create(a, s, path)
        PROVE  Register!Create(s)
    BY <2>1 DEF IInv, TypeOK, Create, Register!Create
  <2> QED BY <1>1, <1>2, <2>1 DEF Request, Ask, AskTest, Register!Next
<1>3. ASSUME NEW a \in Admins, UnderLock(a) PROVE [Register!Next]_Register!vars
  <2>1. ASSUME job[a].source \notin Sources PROVE FALSE
    BY <1>3, <2>1 DEF IInv, Roles, UnderLock, TestDone, CommitFails, Commit, Reconfigured,
       DeleteRow, DeleteFails
  <2>2. PICK s \in Sources : s = job[a].source
    BY <2>1
  <2>3. row \in [Sources -> Rows] /\ row[s] \in Rows
    BY DEF IInv, TypeOK
  <2>4. ASSUME NEW path \in Paths \cup {NoPath}, NEW keys \in BOOLEAN, Commit(a, path, keys)
        PROVE  Register!Configure(s) \/ UNCHANGED <<row, written>>
    <3>1. CASE ~Stored(s)
      BY <2>2, <2>4, <3>1 DEF Commit, Reconfigured
    <3>2. CASE Stored(s)
      <4>1. row' = [row EXCEPT ![s] = [[row[s] EXCEPT !.version = @ + 1] EXCEPT !.path = path]]
        BY <2>2, <2>3, <2>4, <3>2 DEF Commit, Rows
      <4>2. /\ row'[s].version = row[s].version + 1 /\ row'[s].state = row[s].state
            /\ \A t \in Sources \ {s} : row'[t] = row[t]
        BY <2>3, <4>1 DEF Rows
      <4>3. UNCHANGED written
        BY <2>4 DEF Commit, Reconfigured
      <4> QED BY <3>2, <4>2, <4>3 DEF Stored, Register!Configure
    <3> QED BY <3>1, <3>2
  <2>5. ASSUME DeleteRow(a) PROVE Register!Delete(s)
    <3>1. row' = [row EXCEPT ![s] = [[row[s] EXCEPT !.state = "deleted"] EXCEPT !.path = NoPath]]
      BY <2>2, <2>3, <2>5 DEF DeleteRow, Rows
    <3>2. /\ row'[s].version = row[s].version /\ row'[s].state = "deleted"
          /\ \A t \in Sources \ {s} : row'[t] = row[t]
      BY <2>3, <3>1 DEF Rows
    <3>3. written' = [written EXCEPT ![s] = 0]
      BY <2>2, <2>5 DEF DeleteRow
    <3> QED BY <3>2, <3>3 DEF Register!Delete
  <2>6. ASSUME TestDone(a) \/ CommitFails(a) \/ DeleteFails(a) PROVE UNCHANGED <<row, written>>
    BY <2>6 DEF TestDone, CommitFails, Reconfigured, DeleteFails
  <2> QED BY <1>1, <1>3, <2>4, <2>5, <2>6 DEF UnderLock, Register!Next
<1>4. ASSUME NEW p \in Procs, Enter(p) \/ Reconcile(p) \/ TakeLock(p)
      PROVE  UNCHANGED <<row, written>>
  BY <1>4 DEF Enter, Reconcile, TakeLock, List, ListFails, Stop, Stopped, GoLock, GoStart,
     Reconciled, Skip, Start
<1>5. ASSUME Schedule \/ Loop PROVE [Register!Next]_Register!vars
  <2>1. ASSUME Snapshot PROVE Register!Write(job[Scheduler].source)
    BY <2>1 DEF IInv, TypeOK, Fresh, Roles, Snapshot, SyncEnds, Stored, Register!Write
  <2>2. ASSUME Snapshot PROVE job[Scheduler].source \in Sources
    BY <2>2 DEF IInv, Roles, Snapshot
  <2> QED BY <1>1, <1>5, <2>1, <2>2 DEF Schedule, Loop, Run, TickAll, SyncsDone, Fetch,
       SyncFails, SyncEnds, SyncDue, Woken, Tick, Exit, Sync, Register!Next
<1>6. ASSUME NEW r \in Readers, Wakeup(r) \/ Read(r) \/ Round(r) \/ Quit(r)
      PROVE  [Register!Next]_Register!vars
  <2>1. ASSUME Apply(r) PROVE reader[r].source \in Sources /\ Register!Write(reader[r].source)
    <3>1. reader[r].source \in Sources /\ reader[r].version = row[reader[r].source].version
      BY <2>1 DEF IInv, Registered, Fresh, Live, Apply
    <3> QED BY <2>1, <3>1 DEF Apply, ReaderStep, Stored, Register!Write
  <2> QED BY <1>1, <1>6, <2>1
       DEF Wakeup, Read, Round, Check, RoundEnds, Quit, ReaderStep, Register!Next
<1>7. ASSUME NEW s \in Sources, Wake(s) PROVE UNCHANGED <<row, written>>
  BY <1>7 DEF Wake
<1>8. ASSUME Cancel \/ UNCHANGED vars PROVE UNCHANGED <<row, written>>
  BY <1>8 DEF Cancel, vars
<1> QED BY <1>1, <1>2, <1>3, <1>4, <1>5, <1>6, <1>7, <1>8 DEF Next

\* No snapshot or delta of an old configuration is committed after a new one, for
\* any number of sources, administrators and readers (direct.go:259-261).
THEOREM NothingOldIsWritten == Spec => OnlyCurrentWritten
<1>1. Init => Register!Init
  BY DEF Init, NoRow, Register!Init
<1> QED BY <1>1, RegisterStep, Invariant, PTL DEF Spec, OnlyCurrentWritten, Register!Spec
=============================================================================
