------------------------------ MODULE DirectSync ------------------------------
(***************************************************************************)
(* syncer.Manager: the scheduler that fetches full snapshots, one direct   *)
(* reader per source that applies incremental changes, and the requests of *)
(* administrators that create, change, delete and test sources meanwhile.  *)
(*                                                                         *)
(* reconcileMu serialises everyone who starts or stops readers.  A lock    *)
(* per source is held from reading a source's row or its data to the       *)
(* commit of what was read; DeleteSource also removes the lock itself, so  *)
(* a lock is a source together with the number of its incarnation.         *)
(*                                                                         *)
(* A configuration is a version number and the direct path of the source   *)
(* (a directory, or the key under which the DSN is stored: a new DSN has a *)
(* new version and the old path).                                          *)
(***************************************************************************)
EXTENDS Naturals, Sequences

CONSTANTS
  Sources, Admins, Scheduler, Readers,
  Paths, NoPath,
  Nobody,
  MaxConfigs,    \* bound on the versions of a source's configuration
  WakeSize       \* capacity of the wake channel

Procs == Admins \cup {Scheduler}
Workers == Procs \cup Readers

ASSUME DirectSyncAssumption ==
  /\ Scheduler \notin Admins
  /\ Readers \cap Procs = {}
  /\ Nobody \notin Workers \cup Sources
  /\ NoPath \notin Paths
  /\ MaxConfigs \in Nat \ {0} /\ WakeSize \in Nat

VARIABLES
  row,          \* row[s]: the row of source s
  secrets,      \* sources that have an API key or a DSN stored
  written,      \* written[s]: version the mapping of s was last written with
  runtimes,     \* runtimes[s]: the reader registered for s
  reader,       \* reader[r]: the configuration reader r was started with
  reconcileMu,  \* who holds it
  lockNo,       \* lockNo[s]: incarnation of the lock of s
  lock,         \* lock[w]: the lock w waits for or holds
  at,           \* at[w]: where w is
  job,          \* job[p]: what process p is doing, for which source
  plan,         \* plan[p]: readers to stop, to wait for and to start
  seen,         \* version the scheduler fetches with
  due,          \* sources the scheduler still has to fetch
  wake,         \* sources somebody wants fetched now
  running,      \* runCtx is set
  done          \* the context of the process is cancelled

vars == <<row, secrets, written, runtimes, reader, reconcileMu, lockNo, lock, at,
          job, plan, seen, due, wake, running, done>>

NoRow == [state |-> "absent", version |-> 0, path |-> NoPath]
NoReader == [source |-> Nobody, version |-> 0, path |-> NoPath, cancelled |-> FALSE]
NoLock == [source |-> Nobody, no |-> 0]
NoJob == [op |-> "none", source |-> Nobody]
NoPlan == [stop |-> {}, wait |-> Nobody, start |-> {}]

Rows == [state : {"absent", "stored", "deleted"}, version : 0..MaxConfigs,
         path : Paths \cup {NoPath}]

TypeOK ==
  /\ row \in [Sources -> Rows]
  /\ secrets \subseteq Sources
  /\ written \in [Sources -> 0..MaxConfigs]
  /\ runtimes \in [Sources -> Readers \cup {Nobody}]
  /\ reader \in [Readers -> [source : Sources \cup {Nobody}, version : 0..MaxConfigs,
                             path : Paths \cup {NoPath}, cancelled : BOOLEAN]]
  /\ reconcileMu \in Procs \cup {Nobody}
  /\ lockNo \in [Sources -> Nat]
  /\ lock \in [Workers -> [source : Sources \cup {Nobody}, no : Nat]]
  /\ at \in [Workers -> {"off", "idle", "enter", "list", "stop", "await", "start",
                         "locking", "locked", "tickAll", "syncs", "fetched", "loop",
                         "exited", "free", "reading", "checked", "done"}]
  /\ job \in [Procs -> [op : {"none", "reconcile", "update", "delete", "test", "tick",
                              "sync", "exit"},
                        source : Sources \cup {Nobody}]]
  /\ plan \in [Procs -> [stop : SUBSET Sources, wait : Readers \cup {Nobody},
                         start : SUBSET Sources]]
  /\ seen \in 0..MaxConfigs
  /\ due \subseteq Sources
  /\ wake \in Seq(Sources) /\ Len(wake) <= WakeSize
  /\ running \in BOOLEAN /\ done \in BOOLEAN

\* Sources may be there from an earlier run of the process.
Init ==
  /\ row \in [Sources ->
       {NoRow} \cup [state : {"stored"}, version : {1}, path : Paths \cup {NoPath}]]
  /\ secrets = {s \in Sources : row[s].state = "stored"}
  /\ written = [s \in Sources |-> 0]
  /\ runtimes = [s \in Sources |-> Nobody]
  /\ reader = [r \in Readers |-> NoReader]
  /\ reconcileMu = Nobody
  /\ lockNo = [s \in Sources |-> 0]
  /\ lock = [w \in Workers |-> NoLock]
  /\ at = [w \in Workers |-> IF w \in Readers THEN "free"
                             ELSE IF w = Scheduler THEN "off" ELSE "idle"]
  /\ job = [p \in Procs |-> NoJob]
  /\ plan = [p \in Procs |-> NoPlan]
  /\ seen = 0
  /\ due = {}
  /\ wake = <<>>
  /\ running = FALSE /\ done = FALSE

-----------------------------------------------------------------------------
Stored(s) == row[s].state = "stored"
Desired(s) == Stored(s) /\ row[s].path # NoPath    \* enabled, with a direct path
Lock(s) == [source |-> s, no |-> lockNo[s]]
Inside(w) == at[w] \in {"locked", "fetched", "reading", "checked"}
Free(l) == \A w \in Workers : Inside(w) => lock[w] # l
Go(w, place) == at' = [at EXCEPT ![w] = place]
Unlock(w) == lock' = [lock EXCEPT ![w] = NoLock]

-----------------------------------------------------------------------------
(* Requests of administrators.                                             *)

Create(a, s, path) ==
  /\ at[a] = "idle" /\ row[s].state = "absent"
  /\ row' = [row EXCEPT ![s] = [state |-> "stored", version |-> 1, path |-> path]]
  /\ secrets' = secrets \cup {s}
  /\ job' = [job EXCEPT ![a] = [op |-> "reconcile", source |-> s]]
  /\ Go(a, "enter")
  /\ UNCHANGED <<written, runtimes, reader, reconcileMu, lockNo, lock, plan, seen,
                 due, wake, running, done>>

\* The handler has found the source; it may be gone before the lock is taken.
Ask(a, op, s) ==
  /\ at[a] = "idle" /\ Stored(s)
  /\ job' = [job EXCEPT ![a] = [op |-> op, source |-> s]]
  /\ Go(a, "enter")
  /\ UNCHANGED <<row, secrets, written, runtimes, reader, reconcileMu, lockNo, lock,
                 plan, seen, due, wake, running, done>>

AskTest(a, s) ==
  /\ at[a] = "idle" /\ Stored(s)
  /\ job' = [job EXCEPT ![a] = [op |-> "test", source |-> s]]
  /\ lock' = [lock EXCEPT ![a] = Lock(s)]
  /\ Go(a, "locking")
  /\ UNCHANGED <<row, secrets, written, runtimes, reader, reconcileMu, lockNo, plan,
                 seen, due, wake, running, done>>

TestDone(a) ==
  /\ at[a] = "locked" /\ job[a].op = "test"
  /\ job' = [job EXCEPT ![a] = NoJob]
  /\ Unlock(a) /\ Go(a, "idle")
  /\ UNCHANGED <<row, secrets, written, runtimes, reader, reconcileMu, lockNo, plan,
                 seen, due, wake, running, done>>

\* A request for a full synchronisation; dropped when the channel is full.
Wake(s) ==
  /\ Stored(s) /\ Len(wake) < WakeSize
  /\ wake' = Append(wake, s)
  /\ UNCHANGED <<row, secrets, written, runtimes, reader, reconcileMu, lockNo, lock,
                 at, job, plan, seen, due, running, done>>

-----------------------------------------------------------------------------
(* Reconciliation, by administrators and by the scheduler.                 *)

\* The reader is left to the reconciliation after the commit.
Enter_Wrong(p) ==
  /\ at[p] = "enter" /\ reconcileMu = Nobody
  /\ reconcileMu' = p
  /\ running' = (running /\ job[p].op # "exit")
  /\ plan' = [plan EXCEPT ![p].stop = {}]
  /\ Go(p, IF job[p].op \in {"reconcile", "tick"} THEN "list" ELSE "stop")
  /\ UNCHANGED <<row, secrets, written, runtimes, reader, lockNo, lock, job, seen,
                 due, wake, done>>

Enter(p) ==
  /\ at[p] = "enter" /\ reconcileMu = Nobody
  /\ reconcileMu' = p
  /\ running' = (running /\ job[p].op # "exit")
  /\ plan' = [plan EXCEPT ![p].stop =
       CASE job[p].op \in {"update", "delete"} -> {job[p].source}
         [] job[p].op = "exit" -> Sources
         [] OTHER -> {}]
  /\ Go(p, IF job[p].op \in {"reconcile", "tick"} THEN "list" ELSE "stop")
  /\ UNCHANGED <<row, secrets, written, runtimes, reader, lockNo, lock, job, seen,
                 due, wake, done>>

Scope(p) == IF job[p].op = "tick" THEN Sources ELSE {job[p].source}

\* Readers are compared by path; a reconciliation of one source is forced.
Matches(r, s) == reader[r].path = row[s].path

Stale(p, s) ==
  /\ runtimes[s] # Nobody
  /\ ~Desired(s) \/ job[p].op = "reconcile" \/ ~Matches(runtimes[s], s)

List(p) ==
  /\ at[p] = "list"
  /\ plan' = [plan EXCEPT ![p] =
       [stop  |-> {s \in Scope(p) : Stale(p, s)},
        wait  |-> Nobody,
        start |-> {s \in Scope(p) : Desired(s)}]]
  /\ Go(p, "stop")
  /\ UNCHANGED <<row, secrets, written, runtimes, reader, reconcileMu, lockNo, lock,
                 job, seen, due, wake, running, done>>

\* A deletion returns without unlocking.
Leave_Wrong(p) ==
  /\ reconcileMu' = IF job[p].op = "delete" THEN p ELSE Nobody
  /\ job' = [job EXCEPT ![p] = NoJob]
  /\ plan' = [plan EXCEPT ![p] = NoPlan]
  /\ at' = [at EXCEPT ![p] = IF job[p].op = "exit" THEN "exited"
                             ELSE IF p = Scheduler THEN "tickAll" ELSE "idle"]

\* The reconciliation is over: the scheduler looks for sources to fetch.
Leave(p) ==
  /\ reconcileMu' = Nobody
  /\ job' = [job EXCEPT ![p] = NoJob]
  /\ plan' = [plan EXCEPT ![p] = NoPlan]
  /\ at' = [at EXCEPT ![p] = IF job[p].op = "exit" THEN "exited"
                             ELSE IF p = Scheduler THEN "tickAll" ELSE "idle"]

ListFails(p) ==
  /\ at[p] = "list"
  /\ Leave(p)
  /\ UNCHANGED <<row, secrets, written, runtimes, reader, lockNo, lock, seen, due,
                 wake, running, done>>

\* Nobody waits for the reader.
Stop_Wrong(p, s) ==
  /\ at[p] = "stop" /\ s \in plan[p].stop /\ runtimes[s] # Nobody
  /\ runtimes' = [runtimes EXCEPT ![s] = Nobody]
  /\ reader' = [reader EXCEPT ![runtimes[s]].cancelled = TRUE]
  /\ UNCHANGED <<row, secrets, written, reconcileMu, lockNo, lock, at, job, plan, seen,
                 due, wake, running, done>>

Stop(p, s) ==
  /\ at[p] = "stop" /\ s \in plan[p].stop /\ runtimes[s] # Nobody
  /\ runtimes' = [runtimes EXCEPT ![s] = Nobody]
  /\ reader' = [reader EXCEPT ![runtimes[s]].cancelled = TRUE]
  /\ plan' = [plan EXCEPT ![p].wait = runtimes[s]]
  /\ Go(p, "await")
  /\ UNCHANGED <<row, secrets, written, reconcileMu, lockNo, lock, job, seen, due,
                 wake, running, done>>

Stopped(p) ==
  /\ at[p] = "await" /\ at[plan[p].wait] = "done"
  /\ reader' = [reader EXCEPT ![plan[p].wait] = NoReader]
  /\ plan' = [plan EXCEPT ![p].wait = Nobody]
  /\ at' = [at EXCEPT ![p] = "stop", ![plan[p].wait] = "free"]
  /\ UNCHANGED <<row, secrets, written, runtimes, reconcileMu, lockNo, lock, job,
                 seen, due, wake, running, done>>

NothingToStop(p) ==
  /\ at[p] = "stop"
  /\ \A s \in plan[p].stop : runtimes[s] = Nobody

GoLock(p) ==
  /\ NothingToStop(p) /\ job[p].op \in {"update", "delete"}
  /\ lock' = [lock EXCEPT ![p] = Lock(job[p].source)]
  /\ Go(p, "locking")
  /\ UNCHANGED <<row, secrets, written, runtimes, reader, reconcileMu, lockNo, job,
                 plan, seen, due, wake, running, done>>

GoStart(p) ==
  /\ NothingToStop(p) /\ job[p].op \in {"reconcile", "tick"}
  /\ Go(p, "start")
  /\ UNCHANGED <<row, secrets, written, runtimes, reader, reconcileMu, lockNo, lock,
                 job, plan, seen, due, wake, running, done>>

\* The reader is started whether the manager runs or not.
Start_Wrong(p, s, r) ==
  /\ at[p] = "start" /\ s \in plan[p].start
  /\ runtimes[s] = Nobody
  /\ at[r] = "free"
  /\ runtimes' = [runtimes EXCEPT ![s] = r]
  /\ reader' = [reader EXCEPT ![r] = [source |-> s, version |-> row[s].version,
                                      path |-> row[s].path, cancelled |-> FALSE]]
  /\ plan' = [plan EXCEPT ![p].start = @ \ {s}]
  /\ Go(r, "idle")
  /\ UNCHANGED <<row, secrets, written, reconcileMu, lockNo, lock, job, seen, due,
                 wake, running, done>>

\* The rows of the plan are the listed ones: they change under reconcileMu only.
Start(p, s, r) ==
  /\ at[p] = "start" /\ s \in plan[p].start
  /\ running /\ runtimes[s] = Nobody
  /\ at[r] = "free"
  /\ runtimes' = [runtimes EXCEPT ![s] = r]
  /\ reader' = [reader EXCEPT ![r] = [source |-> s, version |-> row[s].version,
                                      path |-> row[s].path, cancelled |-> FALSE]]
  /\ plan' = [plan EXCEPT ![p].start = @ \ {s}]
  /\ Go(r, "idle")
  /\ UNCHANGED <<row, secrets, written, reconcileMu, lockNo, lock, job, seen, due,
                 wake, running, done>>

\* It runs already, the manager does not run, or it cannot be started.
Skip(p, s) ==
  /\ at[p] = "start" /\ s \in plan[p].start
  /\ plan' = [plan EXCEPT ![p].start = @ \ {s}]
  /\ UNCHANGED <<row, secrets, written, runtimes, reader, reconcileMu, lockNo, lock,
                 at, job, seen, due, wake, running, done>>

Reconciled(p) ==
  /\ \/ at[p] = "start" /\ plan[p].start = {}
     \/ NothingToStop(p) /\ job[p].op = "exit"
  /\ Leave(p)
  /\ UNCHANGED <<row, secrets, written, runtimes, reader, lockNo, lock, seen, due,
                 wake, running, done>>

-----------------------------------------------------------------------------
(* The lock of a source, and what administrators do under it.              *)

TakeLock(w) ==
  /\ at[w] = "locking" /\ w \in Procs
  /\ Free(lock[w])
  /\ Go(w, "locked")
  /\ UNCHANGED <<row, secrets, written, runtimes, reader, reconcileMu, lockNo, lock,
                 job, plan, seen, due, wake, running, done>>

\* The reader of the source has been stopped; success or not, it is reconciled
\* with what is stored now.
Reconfigured(a) ==
  /\ at[a] = "locked" /\ job[a].op = "update"
  /\ job' = [job EXCEPT ![a].op = "reconcile"]
  /\ Unlock(a) /\ Go(a, "list")
  /\ UNCHANGED <<written, runtimes, reader, reconcileMu, lockNo, plan, seen, due,
                 wake, running, done>>

\* The UPDATE finds no row when the source is gone, the secrets are stored anyway.
Commit(a, path, keys) ==
  LET s == job[a].source
  IN  /\ Reconfigured(a)
      /\ row[s].version < MaxConfigs
      /\ row' = IF Stored(s)
                THEN [row EXCEPT ![s].version = @ + 1, ![s].path = path]
                ELSE row
      /\ secrets' = IF keys THEN secrets \cup {s} ELSE secrets

CommitFails(a) == Reconfigured(a) /\ UNCHANGED <<row, secrets>>

\* Row, mapping and secrets go in one transaction; then the lock is removed.
DeleteRow(a) ==
  LET s == job[a].source
  IN  /\ at[a] = "locked" /\ job[a].op = "delete"
      /\ row' = [row EXCEPT ![s].state = "deleted", ![s].path = NoPath]
      /\ secrets' = secrets \ {s}
      /\ written' = [written EXCEPT ![s] = 0]
      /\ lockNo' = [lockNo EXCEPT ![s] = @ + 1]
      /\ Leave(a) /\ Unlock(a)
      /\ UNCHANGED <<runtimes, reader, seen, due, wake, running, done>>

\* The lock is removed although the source is still there.
DeleteFails_Wrong(a) ==
  /\ at[a] = "locked" /\ job[a].op = "delete"
  /\ lockNo' = [lockNo EXCEPT ![job[a].source] = @ + 1]
  /\ Leave(a) /\ Unlock(a)
  /\ UNCHANGED <<row, secrets, written, runtimes, reader, seen, due, wake, running, done>>

DeleteFails(a) ==
  /\ at[a] = "locked" /\ job[a].op = "delete"
  /\ Leave(a) /\ Unlock(a)
  /\ UNCHANGED <<row, secrets, written, runtimes, reader, lockNo, seen, due, wake,
                 running, done>>

-----------------------------------------------------------------------------
(* The scheduler.                                                          *)

Begin(op) ==
  /\ job' = [job EXCEPT ![Scheduler] = [op |-> op, source |-> Nobody]]
  /\ Go(Scheduler, "enter")

Run ==
  /\ at[Scheduler] = "off"
  /\ running' = TRUE
  /\ Begin("tick")
  /\ UNCHANGED <<row, secrets, written, runtimes, reader, reconcileMu, lockNo, lock,
                 plan, seen, due, wake, done>>

\* Which sources are due is a matter of their intervals.
TickAll ==
  /\ at[Scheduler] = "tickAll"
  /\ due' \in SUBSET {s \in Sources : Stored(s)}
  /\ Go(Scheduler, "syncs")
  /\ UNCHANGED <<row, secrets, written, runtimes, reader, reconcileMu, lockNo, lock,
                 job, plan, seen, wake, running, done>>

Sync(s) ==
  /\ job' = [job EXCEPT ![Scheduler] = [op |-> "sync", source |-> s]]
  /\ lock' = [lock EXCEPT ![Scheduler] = Lock(s)]
  /\ Go(Scheduler, "locking")
  /\ UNCHANGED <<row, secrets, written, runtimes, reader, reconcileMu, lockNo, plan,
                 seen, running, done>>

SyncDue(s) ==
  /\ at[Scheduler] = "syncs" /\ s \in due
  /\ due' = due \ {s}
  /\ Sync(s) /\ UNCHANGED wake

Woken ==
  /\ at[Scheduler] = "loop" /\ wake # <<>>
  /\ wake' = Tail(wake)
  /\ Sync(Head(wake)) /\ UNCHANGED due

SyncsDone ==
  /\ at[Scheduler] = "syncs" /\ due = {}
  /\ Go(Scheduler, "loop")
  /\ UNCHANGED <<row, secrets, written, runtimes, reader, reconcileMu, lockNo, lock,
                 job, plan, seen, due, wake, running, done>>

Tick ==
  /\ at[Scheduler] = "loop"
  /\ Begin("tick")
  /\ UNCHANGED <<row, secrets, written, runtimes, reader, reconcileMu, lockNo, lock,
                 plan, seen, due, wake, running, done>>

Exit ==
  /\ at[Scheduler] = "loop" /\ done
  /\ Begin("exit")
  /\ UNCHANGED <<row, secrets, written, runtimes, reader, reconcileMu, lockNo, lock,
                 plan, seen, due, wake, running, done>>

\* The row is read under the lock; fetching the snapshot takes up to two minutes.
Fetch ==
  /\ at[Scheduler] = "locked" /\ ~done /\ Stored(job[Scheduler].source)
  /\ seen' = row[job[Scheduler].source].version
  /\ Go(Scheduler, "fetched")
  /\ UNCHANGED <<row, secrets, written, runtimes, reader, reconcileMu, lockNo, lock,
                 job, plan, due, wake, running, done>>

SyncEnds ==
  /\ seen' = 0
  /\ job' = [job EXCEPT ![Scheduler] = NoJob]
  /\ Unlock(Scheduler) /\ Go(Scheduler, "syncs")
  /\ UNCHANGED <<row, secrets, runtimes, reader, reconcileMu, lockNo, plan, due, wake,
                 running, done>>

\* The transaction checks that the source exists.
Snapshot ==
  LET s == job[Scheduler].source
  IN  /\ at[Scheduler] = "fetched" /\ Stored(s)
      /\ written' = [written EXCEPT ![s] = seen]
      /\ SyncEnds

\* The context is cancelled, the source gone, the fetch failed, the answer empty.
SyncFails ==
  /\ at[Scheduler] \in {"locked", "fetched"}
  /\ UNCHANGED written
  /\ SyncEnds

-----------------------------------------------------------------------------
(* Direct readers.                                                         *)

ReaderStep(r) ==
  UNCHANGED <<row, secrets, runtimes, reader, reconcileMu, lockNo, job, plan, seen,
              due, wake, running, done>>

Over(r) == reader[r].cancelled \/ done

\* The ticker fires or a file has changed.
Wakeup(r) ==
  /\ at[r] = "idle"
  /\ lock' = [lock EXCEPT ![r] = Lock(reader[r].source)]
  /\ Go(r, "locking")
  /\ ReaderStep(r) /\ UNCHANGED written

\* The context is looked at once the lock is held.
Read(r) ==
  /\ at[r] = "locking" /\ Free(lock[r])
  /\ IF Over(r) THEN Unlock(r) /\ Go(r, "idle")
                ELSE UNCHANGED lock /\ Go(r, "reading")
  /\ ReaderStep(r) /\ UNCHANGED written

\* sourceStillDirect, before each account.
Check(r) ==
  /\ at[r] = "reading"
  /\ Desired(reader[r].source) /\ Matches(r, reader[r].source)
  /\ Go(r, "checked")
  /\ ReaderStep(r) /\ UNCHANGED <<written, lock>>

Apply(r) ==
  LET s == reader[r].source
  IN  /\ at[r] = "checked" /\ Stored(s)
      /\ written' = [written EXCEPT ![s] = reader[r].version]
      /\ Go(r, "reading")
      /\ ReaderStep(r) /\ UNCHANGED lock

\* No account is left, the source has changed, or something failed.
RoundEnds(r) ==
  /\ at[r] \in {"reading", "checked"}
  /\ Unlock(r) /\ Go(r, "idle")
  /\ ReaderStep(r) /\ UNCHANGED written

\* The reader listens to the process only, not to the one who stops it.
Quit_Wrong(r) ==
  /\ at[r] = "idle" /\ done
  /\ Go(r, "done")
  /\ ReaderStep(r) /\ UNCHANGED <<written, lock>>

Quit(r) ==
  /\ at[r] = "idle" /\ Over(r)
  /\ Go(r, "done")
  /\ ReaderStep(r) /\ UNCHANGED <<written, lock>>

-----------------------------------------------------------------------------
\* The process is told to stop.
Cancel ==
  /\ ~done /\ done' = TRUE
  /\ UNCHANGED <<row, secrets, written, runtimes, reader, reconcileMu, lockNo, lock,
                 at, job, plan, seen, due, wake, running>>

Request(a) ==
  \E s \in Sources :
    \/ \E path \in Paths \cup {NoPath} : Create(a, s, path)
    \/ \E op \in {"update", "delete"} : Ask(a, op, s)
    \/ AskTest(a, s)

Reconcile(p) ==
  \/ List(p) \/ ListFails(p) \/ Stopped(p) \/ GoLock(p) \/ GoStart(p) \/ Reconciled(p)
  \/ \E s \in Sources :
       Stop(p, s) \/ Skip(p, s) \/ \E r \in Readers : Start(p, s, r)

UnderLock(a) ==
  \/ TestDone(a) \/ CommitFails(a) \/ DeleteRow(a) \/ DeleteFails(a)
  \/ \E path \in Paths \cup {NoPath}, keys \in BOOLEAN : Commit(a, path, keys)

Schedule ==
  \/ Run \/ TickAll \/ SyncsDone \/ Fetch \/ Snapshot \/ SyncFails
  \/ \E s \in Sources : SyncDue(s)

Loop == Woken \/ Tick \/ Exit

Round(r) == Check(r) \/ Apply(r) \/ RoundEnds(r)

Next ==
  \/ \E a \in Admins : Request(a) \/ UnderLock(a)
  \/ \E p \in Procs : Enter(p) \/ Reconcile(p) \/ TakeLock(p)
  \/ Schedule \/ Loop
  \/ \E r \in Readers : Wakeup(r) \/ Read(r) \/ Round(r) \/ Quit(r)
  \/ \E s \in Sources : Wake(s)
  \/ Cancel

\* A goroutine that can run does; fetching and reading end (they have timeouts,
\* and a round has finitely many accounts); sync.Mutex starves none of its
\* waiters; select chooses among the cases that are ready.
Fairness ==
  /\ \A a \in Admins : SF_vars(Enter(a) \/ Reconcile(a) \/ TakeLock(a) \/ UnderLock(a))
  /\ SF_vars(Enter(Scheduler) \/ Reconcile(Scheduler) \/ TakeLock(Scheduler) \/ Schedule)
  /\ SF_vars(Exit)
  /\ \A r \in Readers : SF_vars(Read(r) \/ RoundEnds(r)) /\ SF_vars(Quit(r))

Spec == Init /\ [][Next]_vars /\ Fairness

-----------------------------------------------------------------------------
(* Properties.                                                             *)

\* Nobody else reads or writes for a source while one does, as long as the source
\* exists, although the lock of a deleted source is thrown away while others may
\* wait for it (docs/012, "全量和增量不会并发覆盖同一 source").
OneInside ==
  \A v, w \in Workers :
    Inside(v) /\ Inside(w) /\ lock[v].source = lock[w].source
      /\ Stored(lock[v].source) => v = w

\* A source has at most one reader, counting those that are told to stop and have
\* not finished yet.
OneReader ==
  \A q, r \in Readers :
    at[q] # "free" /\ at[r] # "free" /\ reader[q].source = reader[r].source => q = r

\* When nobody reconciles, a reader that is registered runs with exactly the
\* configuration that is stored, also when only the DSN behind its key changed,
\* and no reader runs unregistered.
ReadersMatchRows ==
  reconcileMu = Nobody =>
    /\ \A s \in Sources : runtimes[s] # Nobody =>
         Desired(s) /\ reader[runtimes[s]].version = row[s].version
    /\ \A r \in Readers : at[r] # "free" => \E s \in Sources : runtimes[s] = r

\* After Run has returned no reader runs, whatever administrators still do.
NoReaderAfterRun ==
  at[Scheduler] = "exited" => \A r \in Readers : at[r] = "free"

\* An old snapshot or delta is never committed after a new configuration, nor
\* after the deletion of the source (direct.go:259-261).
Register == INSTANCE SourceRegister WITH
  state <- [s \in Sources |-> row[s].state],
  version <- [s \in Sources |-> row[s].version]
OnlyCurrentWritten == Register!Spec

\* Every request of an administrator ends, although it waits for readers, the
\* scheduler and other administrators.
RequestsEnd == \A a \in Admins : at[a] # "idle" ~> at[a] = "idle"

\* A cancelled process gets out of Run.
RunEnds == done ~> at[Scheduler] = "exited"
=============================================================================
