------------------------------ MODULE DirWatch ------------------------------
(***************************************************************************)
(* The reader of an authentication directory                               *)
(* (internal/syncer/cpa_direct.go): a goroutine that collects the events   *)
(* of a file watcher, another that reads the files it names and applies    *)
(* them to the source, and full synchronisations of the same source. No    *)
(* failed read is ever repeated, a full channel drops nothing and a full   *)
(* table of pending files drops one.                                       *)
(*                                                                         *)
(* A file is one account of the source.                                    *)
(***************************************************************************)
EXTENDS Naturals, FiniteSets, Sequences, SequencesExt

CONSTANTS
  Files,        \* auth files, regular and named *.json
  Nested,       \* those in a subdirectory
  MaxPending,   \* cpaDirectMaxPending
  ChanCap,      \* capacity of the channel changes
  MaxStamp      \* MaxStamp[f]: bound on the modifications of f

\* An event names a file or the subdirectory.
Dir == "dir"

ASSUME WatchAssumption ==
  /\ IsFiniteSet(Files) /\ Nested \subseteq Files /\ Dir \notin Files
  /\ MaxPending \in Nat \ {0} /\ ChanCap \in Nat \ {0}
  /\ MaxStamp \in [Files -> Nat \ {0}]

VARIABLES
  there,      \* the files that exist
  stamp,      \* stamp[f]: number of its last modification (size and time of change)
  whole,      \* whole[f]: stamp of its last complete contents, 0 after a removal
  subdir,     \* the subdirectory: does not exist, is new, or is watched
  events,     \* fsnotify.Watcher.Events, not yet received
  loop,       \* CPADirectReader.run
  pending,    \* its table of files that wait for things to calm down
  changes,    \* CPADirectReader.changes
  reader,     \* directRuntime.run
  sync,       \* Manager.syncOne
  cancelled,  \* the context of the runtime is over
  applied,    \* applied[f]: stamp of the contents in the account store, 0 for none
  missed      \* history: files with a change that nobody will hear of

files == <<there, stamp, whole, subdir>>
queues == <<events, loop, pending, changes>>
vars == <<there, stamp, whole, subdir, events, loop, pending, changes, reader, sync,
          cancelled, applied, missed>>

Event == Files \cup {Dir}

\* Where the reader is, the file it is about, and the stamp of its first Lstat.
ReaderAt == {"idle", "waiting", "reading", "applying", "closing", "ended"}
SyncAt == {"idle", "fetched"}

TypeOK ==
  /\ there \subseteq Files
  /\ stamp \in [Files -> Nat] /\ whole \in [Files -> Nat]
  /\ subdir \in {"none", "new", "watched"}
  /\ events \subseteq Event
  /\ loop \in {"running", "restarting", "ended"}
  /\ pending \subseteq Files /\ Cardinality(pending) <= MaxPending
  /\ changes \in Seq(Files) /\ Len(changes) <= ChanCap
  /\ reader \in [at : ReaderAt, file : SUBSET Files, seen : Nat]
  /\ sync \in [at : SyncAt, snap : [Files -> Nat]]
  /\ cancelled \in BOOLEAN
  /\ applied \in [Files -> Nat]
  /\ missed \subseteq Files

Idle == [at |-> "idle", file |-> {}, seen |-> 0]
NoSync == [at |-> "idle", snap |-> [f \in Files |-> 0]]

\* The reader starts beside files of any age and scans none of them: a full
\* synchronisation does.
Init ==
  /\ subdir \in {"none", "watched"}
  /\ there \in SUBSET (IF subdir = "none" THEN Files \ Nested ELSE Files)
  /\ stamp = [f \in Files |-> IF f \in there THEN 1 ELSE 0] /\ whole = stamp
  /\ events = {} /\ loop = "running" /\ pending = {} /\ changes = <<>>
  /\ reader = Idle /\ sync = NoSync /\ cancelled = FALSE
  /\ applied = [f \in Files |-> 0]
  /\ missed = there

-----------------------------------------------------------------------------
(* The directory, and what the watcher hears of it *)

Watched(f) == loop = "running" /\ (f \in Nested => subdir = "watched")

\* A change of f is announced, if anybody listens.
Announce(f) ==
  IF Watched(f) THEN events' = events \cup {f} /\ missed' = missed
                ELSE events' = events /\ missed' = missed \cup {f}

Modify(f) ==
  /\ f \in Nested => subdir # "none"
  /\ stamp[f] < MaxStamp[f]
  /\ stamp' = [stamp EXCEPT ![f] = @ + 1]
  /\ Announce(f)
  /\ UNCHANGED <<subdir, loop, pending, changes, reader, sync, cancelled, applied>>

\* A file is written in place: what is in it meanwhile is not its contents.
BeginWrite(f) ==
  /\ Modify(f)
  /\ there' = there \cup {f} /\ whole' = whole

EndWrite(f) ==
  /\ f \in there /\ whole[f] # stamp[f]
  /\ Modify(f)
  /\ whole' = [whole EXCEPT ![f] = stamp'[f]] /\ there' = there

\* Another file takes its name.
Replace(f) ==
  /\ Modify(f)
  /\ whole' = [whole EXCEPT ![f] = stamp'[f]] /\ there' = there \cup {f}

\* Nobody is interested in the event.
Unlink(f) ==
  /\ f \in there
  /\ there' = there \ {f}
  /\ whole' = [whole EXCEPT ![f] = 0]
  /\ UNCHANGED <<stamp, subdir, queues, reader, sync, cancelled, applied, missed>>

MakeDir ==
  /\ subdir = "none" /\ subdir' = "new"
  /\ events' = IF loop = "running" THEN events \cup {Dir} ELSE events
  /\ UNCHANGED <<there, stamp, whole, loop, pending, changes, reader, sync, cancelled,
                 applied, missed>>

-----------------------------------------------------------------------------
(* CPADirectReader.run *)

\* queuePending: a full table gives one up. The code takes the oldest.
QueuePending(f) ==
  IF f \in pending \/ Cardinality(pending) < MaxPending
    THEN pending' = pending \cup {f} /\ missed' = missed
    ELSE \E g \in pending :
           pending' = (pending \ {g}) \cup {f} /\ missed' = missed \cup {g}

\* The watcher reports a file that has been written, created, or put in place of
\* another. Of these the last may be a rename, which is ignored if the file has gone.
HandleFile(f) ==
  /\ loop = "running" /\ f \in events
  /\ events' = events \ {f}
  /\ QueuePending(f) \/ (f \notin there /\ UNCHANGED <<pending, missed>>)
  /\ UNCHANGED <<files, loop, changes, reader, sync, cancelled, applied>>

\* The new directory is watched from now on; what it contains is not read.
HandleDir ==
  /\ loop = "running" /\ Dir \in events
  /\ events' = events \ {Dir} /\ subdir' = "watched"
  /\ UNCHANGED <<there, stamp, whole, loop, pending, changes, reader, sync, cancelled,
                 applied, missed>>

\* The queue of the kernel overflows, the directory disappears, a directory cannot
\* be watched: the watcher is closed with all that it has not delivered.
WatcherFails ==
  /\ loop = "running" /\ loop' = "restarting"
  /\ events' = {}
  /\ missed' = missed \cup (events \cap Files)
  /\ subdir' = IF subdir = "watched" THEN "new" ELSE subdir
  /\ UNCHANGED <<there, stamp, whole, pending, changes, reader, sync, cancelled, applied>>

\* restartWatcher walks the tree; it does not look at the files.
Rewatch ==
  /\ loop = "restarting" /\ loop' = "running"
  /\ subdir' = IF subdir = "none" THEN "none" ELSE "watched"
  /\ UNCHANGED <<there, stamp, whole, events, pending, changes, reader, sync, cancelled,
                 applied, missed>>

\* (mutant: a file is forgotten when there is no room for it)
Emit_Wrong(f) ==
  /\ loop = "running" /\ f \in pending
  /\ changes' = IF Len(changes) < ChanCap THEN Append(changes, f) ELSE changes
  /\ pending' = pending \ {f}
  /\ UNCHANGED <<files, events, loop, reader, sync, cancelled, applied, missed>>

\* The ticker finds a file that has been quiet, and room in the channel. How long is
\* not modelled. A file for which there is no room stays.
Emit(f) ==
  /\ loop = "running" /\ f \in pending /\ Len(changes) < ChanCap
  /\ changes' = Append(changes, f)
  /\ pending' = pending \ {f}
  /\ UNCHANGED <<files, events, loop, reader, sync, cancelled, applied, missed>>

\* (mutant: the loop waits for room in the channel)
EndLoop_Wrong ==
  /\ loop # "ended" /\ cancelled
  /\ pending # {} => Len(changes) < ChanCap
  /\ loop' = "ended" /\ events' = {}
  /\ UNCHANGED <<files, pending, changes, reader, sync, cancelled, applied, missed>>

\* Cancellation, or Close.
EndLoop ==
  /\ loop # "ended" /\ cancelled
  /\ loop' = "ended" /\ events' = {}
  /\ UNCHANGED <<files, pending, changes, reader, sync, cancelled, applied, missed>>

-----------------------------------------------------------------------------
(* directRuntime.run and runDirectCPAFile *)

Unlocked == reader.at \notin {"reading", "applying"} /\ sync.at = "idle"
About(f) == reader.file = {f}

Take ==
  /\ reader.at = "idle" /\ changes # <<>>
  /\ reader' = [Idle EXCEPT !.at = "waiting", !.file = {Head(changes)}]
  /\ changes' = Tail(changes)
  /\ UNCHANGED <<files, events, loop, pending, sync, cancelled, applied, missed>>

\* (mutant: the file is read before the source is locked)
Stat_Wrong(f) ==
  /\ reader.at = "waiting" /\ About(f)
  /\ reader' = IF f \in there /\ ~cancelled
                 THEN [reader EXCEPT !.at = "reading", !.seen = stamp[f]] ELSE Idle
  /\ UNCHANGED <<files, queues, sync, cancelled, applied, missed>>

\* Under the lock of the source: contextErr, then Lstat.
Stat(f) ==
  /\ reader.at = "waiting" /\ About(f) /\ Unlocked
  /\ reader' = IF f \in there /\ ~cancelled
                 THEN [reader EXCEPT !.at = "reading", !.seen = stamp[f]] ELSE Idle
  /\ UNCHANGED <<files, queues, sync, cancelled, applied, missed>>

\* (mutant: a file that is being written is not read, but the lock is kept)
Parse_Wrong(f) ==
  /\ reader.at = "reading" /\ About(f)
  /\ f \in there /\ stamp[f] = reader.seen /\ whole[f] = reader.seen
  /\ reader' = [reader EXCEPT !.at = "applying"]
  /\ UNCHANGED <<files, queues, sync, cancelled, applied, missed>>

\* The file is read, must still have its size and time, and must be JSON. If not it
\* is given up.
Parse(f) ==
  /\ reader.at = "reading" /\ About(f)
  /\ reader' = IF f \in there /\ stamp[f] = reader.seen /\ whole[f] = reader.seen
                 THEN [reader EXCEPT !.at = "applying"] ELSE Idle
  /\ UNCHANGED <<files, queues, sync, cancelled, applied, missed>>

\* applyDirectEntryLocked.
Apply(f) ==
  /\ reader.at = "applying" /\ About(f)
  /\ applied' = [applied EXCEPT ![f] = reader.seen]
  /\ missed' = IF stamp[f] = reader.seen THEN missed \ {f} ELSE missed
  /\ reader' = Idle
  /\ UNCHANGED <<files, queues, sync, cancelled>>

GivesUp(f) ==
  /\ About(f)
  /\ missed' = missed \cup {f}
  /\ reader' = Idle
  /\ UNCHANGED <<files, queues, sync, cancelled, applied>>

\* An error of the file system, or a file without usable credentials.
ReadFails(f) ==
  /\ (reader.at = "waiting" /\ Unlocked) \/ reader.at = "reading"
  /\ GivesUp(f)

\* An error of the database, or the source is not direct any more.
ApplyFails(f) ==
  /\ reader.at = "applying"
  /\ GivesUp(f)

\* directRuntime.stop.
Cancel ==
  /\ ~cancelled /\ cancelled' = TRUE
  /\ UNCHANGED <<files, queues, reader, sync, applied, missed>>

\* CPADirectReader.Close, and its wait for the loop.
Close ==
  /\ reader.at = "idle" /\ cancelled
  /\ reader' = [reader EXCEPT !.at = "closing"]
  /\ UNCHANGED <<files, queues, sync, cancelled, applied, missed>>

Closed ==
  /\ reader.at = "closing" /\ loop = "ended"
  /\ reader' = [reader EXCEPT !.at = "ended"]
  /\ UNCHANGED <<files, queues, sync, cancelled, applied, missed>>

-----------------------------------------------------------------------------
(* Manager.syncOne: under the lock it asks the service, which answers with the last *)
(* complete contents of the files that it has                                      *)

SyncFetch ==
  /\ Unlocked
  /\ sync' = [at |-> "fetched", snap |-> whole]
  /\ UNCHANGED <<files, queues, reader, cancelled, applied, missed>>

SyncStores ==
  /\ sync.at = "fetched" /\ sync' = NoSync
  /\ applied' = sync.snap
  /\ missed' = {f \in missed : sync.snap[f] # whole[f]}
  /\ UNCHANGED <<files, queues, reader, cancelled>>

SyncFails ==
  /\ sync.at = "fetched" /\ sync' = NoSync
  /\ UNCHANGED <<files, queues, reader, cancelled, applied, missed>>

Next ==
  \/ \E f \in Files :
       \/ BeginWrite(f) \/ EndWrite(f) \/ Replace(f) \/ Unlink(f)
       \/ HandleFile(f) \/ Emit(f)
       \/ Stat(f) \/ Parse(f) \/ ReadFails(f) \/ Apply(f) \/ ApplyFails(f)
  \/ MakeDir \/ HandleDir \/ WatcherFails \/ Rewatch \/ EndLoop
  \/ Take \/ Cancel \/ Close \/ Closed
  \/ SyncFetch \/ SyncStores \/ SyncFails

\* A goroutine that can run does; a mutex hands itself to waiters that starve, and
\* select chooses at random. A directory that has gone comes back, and a
\* synchronisation has a timeout.
Fairness ==
  /\ WF_vars(\E f \in Files : HandleFile(f)) /\ SF_vars(\E f \in Files : Emit(f))
  /\ WF_vars(Rewatch) /\ WF_vars(EndLoop)
  /\ WF_vars(Take) /\ SF_vars(\E f \in Files : Stat(f))
  /\ WF_vars(\E f \in Files : Parse(f)) /\ WF_vars(\E f \in Files : Apply(f) \/ ApplyFails(f))
  /\ SF_vars(Close) /\ WF_vars(Closed) /\ WF_vars(SyncStores \/ SyncFails)

Spec == Init /\ [][Next]_vars /\ Fairness

-----------------------------------------------------------------------------
Behind(f) == f \in there /\ whole[f] = stamp[f] /\ applied[f] # stamp[f]

(* A complete file that differs from the accounts is on its way, though no *)
(* failed read is repeated: its event or its path is still to come, or the *)
(* reader has it, or has not looked at it yet. The only exceptions are     *)
(* those the code knows of: a directory not watched, a watcher restarted,  *)
(* a pending table that is full, an error, and the end of the reader.      *)
NothingForgotten ==
  \A f \in Files : Behind(f) /\ ~cancelled =>
    \/ f \in missed
    \/ f \in events \/ f \in pending \/ f \in ToSet(changes)
    \/ About(f) /\ (reader.at = "waiting" \/ reader.seen = stamp[f])

(* Older contents never replace newer ones in the accounts, whichever of   *)
(* the reader and a full synchronisation read them: both read under the    *)
(* lock that they write under. Only a file that was removed is forgotten.  *)
NeverBackwards ==
  [][\A f \in Files : applied'[f] >= applied[f] \/ applied'[f] = 0]_vars

(* In the end the accounts have the contents of a file that is left alone. *)
CatchesUp ==
  \A f \in Files :
    Behind(f) /\ f \notin missed ~> ~Behind(f) \/ f \in missed \/ cancelled

(* A reader that is told to stop stops, full channel or not: its loop      *)
(* never waits for the goroutine that waits for the loop.                  *)
StopEnds == cancelled ~> reader.at = "ended"
=============================================================================
