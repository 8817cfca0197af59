-------------------------- MODULE DirWatch_proofs --------------------------
(***************************************************************************)
(* For any set of files, any capacities and any number of modifications:   *)
(* no changed file is forgotten but for the reasons listed, and older      *)
(* contents never replace newer ones.                                      *)
(***************************************************************************)
EXTENDS DirWatch, FiniteSetTheorems, TLAPS

\* x is a version of f that is not newer than the contents of f.
Past(x, f) == x <= stamp[f] /\ (x <= whole[f] \/ whole[f] = 0)

Resting == reader.at = "idle" => reader = Idle

\* Whoever has read holds the lock of the source.
Locked == sync.at = "idle" \/ reader.at \notin {"reading", "applying"}

AppliedPast == \A f \in Files : whole[f] <= stamp[f] /\ Past(applied[f], f)

\* What the reader is about to apply is not older than what is applied,
ReaderAhead ==
  reader.at \in {"reading", "applying"} =>
    \A f \in Files : About(f) =>
      /\ applied[f] <= reader.seen /\ reader.seen <= stamp[f]
      /\ reader.at = "applying" => Past(reader.seen, f)

\* and neither is what a synchronisation is about to store.
SyncAhead ==
  sync.at = "fetched" =>
    \A f \in Files :
      /\ Past(sync.snap[f], f)
      /\ sync.snap[f] = 0 \/ applied[f] <= sync.snap[f]

\* A complete file that differs from the accounts, or from what a synchronisation
\* is about to make of them, is on its way.
Complete(f) == f \in there /\ whole[f] = stamp[f]
Differs(f) ==
  applied[f] # stamp[f] \/ (sync.at = "fetched" /\ sync.snap[f] # stamp[f])
OnItsWay(f) ==
  \/ f \in missed
  \/ f \in events \/ f \in pending \/ f \in ToSet(changes)
  \/ About(f) /\ (reader.at = "waiting" \/ reader.seen = stamp[f])
Tracked == \A f \in Files : Complete(f) /\ Differs(f) /\ ~cancelled => OnItsWay(f)

IInv == TypeOK /\ Resting /\ Locked /\ AppliedPast /\ ReaderAhead /\ SyncAhead /\ Tracked
-----------------------------------------------------------------------------
LEMMA AppendSet ==
  ASSUME NEW s \in Seq(Files), NEW f \in Files
  PROVE  ToSet(Append(s, f)) = ToSet(s) \cup {f}
<1>1. \A i \in DOMAIN s : Append(s, f)[i] = s[i] /\ i \in DOMAIN Append(s, f)
  OBVIOUS
<1>2. Append(s, f)[Len(s) + 1] = f /\ Len(s) + 1 \in DOMAIN Append(s, f)
  OBVIOUS
<1>3. \A i \in DOMAIN Append(s, f) : i \in DOMAIN s \/ i = Len(s) + 1
  OBVIOUS
<1> QED BY <1>1, <1>2, <1>3, Zenon DEF ToSet

LEMMA TailSet ==
  ASSUME NEW s \in Seq(Files), s # <<>>
  PROVE  ToSet(s) = {Head(s)} \cup ToSet(Tail(s))
<1>1. \A i \in DOMAIN Tail(s) : Tail(s)[i] = s[i + 1] /\ i + 1 \in DOMAIN s
  OBVIOUS
<1>2. \A i \in DOMAIN s : i = 1 \/ (i - 1 \in DOMAIN Tail(s) /\ Tail(s)[i - 1] = s[i])
  OBVIOUS
<1>3. Head(s) = s[1] /\ 1 \in DOMAIN s
  OBVIOUS
<1>4. \A x : x \in ToSet(s) <=> x = Head(s) \/ x \in ToSet(Tail(s))
  <2>1. ASSUME NEW i \in DOMAIN s PROVE s[i] = Head(s) \/ s[i] \in ToSet(Tail(s))
    BY <1>2, <1>3, <2>1, Zenon DEF ToSet
  <2>2. ASSUME NEW i \in DOMAIN Tail(s) PROVE Tail(s)[i] \in ToSet(s)
    BY <1>1, Zenon DEF ToSet
  <2> QED BY <2>1, <2>2, <1>3, Zenon DEF ToSet
<1> QED BY <1>4, Zenon

\* The table of pending files never grows beyond its bound (queuePending).
LEMMA QueueBound ==
  ASSUME TypeOK, NEW f \in Files, QueuePending(f)
  PROVE  /\ pending' \subseteq Files /\ Cardinality(pending') <= MaxPending
         /\ missed' \subseteq Files
         /\ f \in pending' /\ pending \ pending' \subseteq missed' /\ missed \subseteq missed'
<1>1. IsFiniteSet(pending)
  BY WatchAssumption, FS_Subset DEF TypeOK
<1>0. pending \subseteq Files /\ missed \subseteq Files
      /\ Cardinality(pending) <= MaxPending /\ Cardinality(pending) \in Nat
      /\ MaxPending \in Nat
  BY WatchAssumption, <1>1, FS_CardinalityType DEF TypeOK
<1>2. CASE f \in pending
  <2>1. pending' = pending \cup {f} /\ missed' = missed
    BY <1>2 DEF QueuePending
  <2>2. pending' = pending
    BY <2>1, <1>2
  <2> QED BY <2>1, <2>2, <1>2, <1>0
<1>3. CASE f \notin pending /\ Cardinality(pending) < MaxPending
  <2>1. pending' = pending \cup {f} /\ missed' = missed
    BY <1>3 DEF QueuePending
  <2>2. Cardinality(pending') = Cardinality(pending) + 1
    BY <1>1, <1>3, <2>1, FS_AddElement
  <2> QED BY <2>1, <2>2, <1>3, <1>0
<1>4. CASE f \notin pending /\ ~(Cardinality(pending) < MaxPending)
  <2>1. PICK g \in pending : pending' = (pending \ {g}) \cup {f} /\ missed' = missed \cup {g}
    BY <1>4 DEF QueuePending
  <2>2. IsFiniteSet(pending \ {g}) /\ Cardinality(pending \ {g}) = Cardinality(pending) - 1
    BY <1>1, <2>1, FS_RemoveElement
  <2>3. Cardinality(pending') = Cardinality(pending \ {g}) + 1
    BY <2>1, <2>2, <1>4, FS_AddElement
  <2> QED BY <2>1, <2>2, <2>3, <1>0
<1> QED BY <1>2, <1>3, <1>4

-----------------------------------------------------------------------------
FileStep(f) == BeginWrite(f) \/ EndWrite(f) \/ Replace(f) \/ Unlink(f)
LoopStep(f) == HandleFile(f) \/ Emit(f)
ReadStep(f) == Stat(f) \/ Parse(f) \/ ReadFails(f) \/ Apply(f) \/ ApplyFails(f)

LEMMA Steps ==
  ASSUME [Next]_vars
  PROVE  \/ \E f \in Files : FileStep(f) \/ LoopStep(f) \/ ReadStep(f)
         \/ MakeDir \/ HandleDir \/ WatcherFails \/ Rewatch \/ EndLoop
         \/ Take \/ Cancel \/ Close \/ Closed
         \/ SyncFetch \/ SyncStores \/ SyncFails
         \/ UNCHANGED vars
BY DEF Next, FileStep, LoopStep, ReadStep

LEMMA TypeStep == TypeOK /\ [Next]_vars => TypeOK'
<1> SUFFICES ASSUME TypeOK, [Next]_vars PROVE TypeOK'
  OBVIOUS
<1> USE WatchAssumption
<1>1. ASSUME NEW f \in Files, FileStep(f) PROVE TypeOK'
  <2>1. ASSUME Announce(f) PROVE events' \subseteq Event /\ missed' \subseteq Files
    BY <2>1 DEF TypeOK, Announce, Event
  <2>2. ASSUME Modify(f)
        PROVE  /\ events' \subseteq Event /\ missed' \subseteq Files
               /\ stamp' \in [Files -> Nat]
               /\ UNCHANGED <<subdir, loop, pending, changes, reader, sync, cancelled, applied>>
    BY <2>1, <2>2 DEF TypeOK, Modify
  <2>3. CASE BeginWrite(f)
    BY <2>2, <2>3 DEF TypeOK, BeginWrite
  <2>4. CASE EndWrite(f) \/ Replace(f)
    <3>1. Modify(f) /\ whole' \in [Files -> Nat] /\ there' \subseteq Files
      BY <2>2, <2>4 DEF TypeOK, EndWrite, Replace
    <3> QED BY <2>2, <3>1 DEF TypeOK
  <2>5. CASE Unlink(f)
    BY <2>5 DEF TypeOK, Unlink, queues
  <2> QED BY <1>1, <2>3, <2>4, <2>5 DEF FileStep
<1>2. ASSUME NEW f \in Files, HandleFile(f) PROVE TypeOK'
  <2>1. /\ pending' \subseteq Files /\ Cardinality(pending') <= MaxPending
        /\ missed' \subseteq Files
    BY <1>2, QueueBound DEF HandleFile, TypeOK
  <2> QED BY <2>1, <1>2 DEF TypeOK, HandleFile, files
<1>3. ASSUME NEW f \in Files, Emit(f) PROVE TypeOK'
  <2>1. IsFiniteSet(pending)
    BY FS_Subset DEF TypeOK
  <2>2. Cardinality(pending') = Cardinality(pending) - 1 /\ Cardinality(pending) \in Nat
    BY <1>3, <2>1, FS_RemoveElement, FS_CardinalityType DEF Emit
  <2>3. Cardinality(pending') <= MaxPending /\ pending' \subseteq Files
    BY <2>2, <1>3 DEF TypeOK, Emit
  <2>4. changes' \in Seq(Files) /\ Len(changes') <= ChanCap
    BY <1>3 DEF TypeOK, Emit
  <2> QED BY <2>3, <2>4, <1>3 DEF TypeOK, Emit, files
<1>4. ASSUME NEW f \in Files, ReadStep(f) PROVE TypeOK'
  <2>1. UNCHANGED <<files, queues, sync, cancelled>>
    BY <1>4 DEF ReadStep, Stat, Parse, ReadFails, Apply, ApplyFails, GivesUp
  <2>2. reader' \in [at : ReaderAt, file : SUBSET Files, seen : Nat]
    <3>1. stamp[f] \in Nat /\ Idle \in [at : ReaderAt, file : SUBSET Files, seen : Nat]
      BY DEF TypeOK, Idle, ReaderAt
    <3>2. CASE Stat(f)
      BY <3>1, <3>2 DEF TypeOK, Stat, ReaderAt
    <3>3. CASE Parse(f)
      BY <3>1, <3>3 DEF TypeOK, Parse, ReaderAt
    <3>4. CASE ReadFails(f) \/ Apply(f) \/ ApplyFails(f)
      BY <3>1, <3>4 DEF ReadFails, Apply, ApplyFails, GivesUp
    <3> QED BY <1>4, <3>2, <3>3, <3>4 DEF ReadStep
  <2>3. applied' \in [Files -> Nat] /\ missed' \subseteq Files
    <3>1. CASE Apply(f)
      BY <3>1 DEF TypeOK, Apply
    <3>2. CASE ~Apply(f)
      BY <3>2, <1>4 DEF TypeOK, ReadStep, Stat, Parse, ReadFails, ApplyFails, GivesUp
    <3> QED BY <3>1, <3>2
  <2> QED BY <2>1, <2>2, <2>3 DEF TypeOK, files, queues
<1>5. CASE MakeDir \/ HandleDir \/ WatcherFails \/ Rewatch \/ EndLoop
  BY <1>5 DEF TypeOK, MakeDir, HandleDir, WatcherFails, Rewatch, EndLoop, Event, Dir, files
<1>6. CASE Take
  <2>1. changes' \in Seq(Files) /\ Len(changes') <= ChanCap /\ Head(changes) \in Files
    BY <1>6 DEF TypeOK, Take
  <2>2. reader' \in [at : ReaderAt, file : SUBSET Files, seen : Nat]
    BY <2>1, <1>6 DEF Take, Idle, ReaderAt
  <2> QED BY <2>1, <2>2, <1>6 DEF TypeOK, Take, files
<1>7. CASE Cancel \/ Close \/ Closed
  BY <1>7 DEF TypeOK, Cancel, Close, Closed, ReaderAt, files, queues
<1>8. CASE SyncFetch \/ SyncStores \/ SyncFails
  <2>1. sync' \in [at : SyncAt, snap : [Files -> Nat]]
    <3>1. NoSync \in [at : SyncAt, snap : [Files -> Nat]]
      BY DEF NoSync, SyncAt
    <3> QED BY <1>8, <3>1 DEF TypeOK, SyncFetch, SyncStores, SyncFails, SyncAt
  <2>2. applied' \in [Files -> Nat] /\ missed' \subseteq Files
    BY <1>8 DEF TypeOK, SyncFetch, SyncStores, SyncFails
  <2>3. UNCHANGED <<files, queues, reader, cancelled>>
    BY <1>8 DEF SyncFetch, SyncStores, SyncFails
  <2> QED BY <2>1, <2>2, <2>3 DEF TypeOK, files, queues
<1>9. CASE UNCHANGED vars
  BY <1>9 DEF TypeOK, vars, files, queues
<1> QED BY <1>1, <1>2, <1>3, <1>4, <1>5, <1>6, <1>7, <1>8, <1>9, Steps DEF LoopStep

-----------------------------------------------------------------------------
\* A step that leaves the files, the synchronisation and the accounts alone, after
\* which the reader holds no lock if it moved, has to keep what is on its way.
LEMMA Carried ==
  ASSUME IInv, TypeOK', UNCHANGED <<there, stamp, whole, sync, applied>>,
         cancelled => cancelled',
         reader' = reader \/ reader' = Idle \/ reader'.at \in {"waiting", "closing", "ended"},
         \A f \in Files : Complete(f) /\ OnItsWay(f) /\ ~cancelled' => OnItsWay(f)'
  PROVE  IInv'
<1>1. Locked' /\ AppliedPast' /\ ReaderAhead' /\ SyncAhead'
  BY DEF IInv, Locked, AppliedPast, ReaderAhead, SyncAhead, Past, About, Idle
<1>3. Resting'
  BY DEF IInv, Resting
<1>2. ASSUME NEW f \in Files, Complete(f)', Differs(f)', ~cancelled' PROVE OnItsWay(f)'
  <2>1. Complete(f) /\ Differs(f) /\ ~cancelled
    BY <1>2 DEF Complete, Differs
  <2> QED BY <2>1, <1>2 DEF IInv, Tracked
<1> QED BY <1>1, <1>2, <1>3 DEF IInv, Tracked

LEMMA LoopKeeps ==
  ASSUME IInv, TypeOK',
         \/ \E f \in Files : LoopStep(f)
         \/ MakeDir \/ HandleDir \/ WatcherFails \/ Rewatch \/ EndLoop
         \/ Cancel \/ UNCHANGED vars
  PROVE  IInv'
<1> USE DEF OnItsWay, Complete, About
<1>0. TypeOK
  BY DEF IInv
<1>1. ASSUME NEW f \in Files, HandleFile(f) PROVE IInv'
  <2>1. \/ f \in pending' /\ pending \ pending' \subseteq missed' /\ missed \subseteq missed'
        \/ f \notin there /\ UNCHANGED <<pending, missed>>
    BY <1>0, <1>1, QueueBound DEF HandleFile
  <2> QED BY <1>1, <2>1, Carried DEF HandleFile, files
<1>2. ASSUME NEW f \in Files, Emit(f) PROVE IInv'
  <2>1. ToSet(changes') = ToSet(changes) \cup {f}
    BY <1>0, <1>2, AppendSet DEF Emit, TypeOK
  <2> QED BY <1>2, <2>1, Carried DEF Emit, files
<1>3. CASE MakeDir \/ HandleDir \/ Rewatch
  <2>1. \A f \in Files : f \in events => f \in events'
    BY <1>3, WatchAssumption DEF MakeDir, HandleDir, Rewatch
  <2>2. UNCHANGED <<there, stamp, whole, sync, applied, reader, cancelled, pending, changes,
                    missed>>
    BY <1>3 DEF MakeDir, HandleDir, Rewatch
  <2> QED BY <2>1, <2>2, Carried
<1>4. CASE WatcherFails
  BY <1>4, Carried DEF WatcherFails
<1>5. CASE EndLoop
  BY <1>5, Carried DEF EndLoop, files
<1>6. CASE Cancel
  BY <1>6, Carried DEF Cancel, files, queues
<1>7. CASE UNCHANGED vars
  BY <1>7, Carried DEF vars
<1> QED BY <1>1, <1>2, <1>3, <1>4, <1>5, <1>6, <1>7 DEF LoopStep

\* A change of a file is announced or missed; other files are as they were.
LEMMA FileKeeps ==
  ASSUME IInv, TypeOK', NEW h \in Files, FileStep(h) PROVE IInv'
<1>0. TypeOK /\ TypeOK'
  BY DEF IInv
<1>1. /\ UNCHANGED <<pending, changes, reader, sync, cancelled, applied>>
      /\ events \subseteq events' /\ missed \subseteq missed'
      /\ \A f \in Files \ {h} : /\ stamp'[f] = stamp[f] /\ whole'[f] = whole[f]
                                /\ f \in there' <=> f \in there
  BY <1>0 DEF FileStep, BeginWrite, EndWrite, Replace, Unlink, Modify, Announce, queues, TypeOK
<1>2. /\ stamp'[h] \in {stamp[h], stamp[h] + 1}
      /\ whole'[h] \in {whole[h], stamp'[h], 0}
  BY <1>0 DEF FileStep, BeginWrite, EndWrite, Replace, Unlink, Modify, TypeOK
<1>3. Complete(h)' => h \in events' \/ h \in missed'
  <2>1. CASE BeginWrite(h)
    <3>1. whole[h] <= stamp[h] /\ stamp[h] \in Nat /\ whole[h] \in Nat
      BY <1>0 DEF IInv, AppliedPast, TypeOK
    <3>2. stamp'[h] = stamp[h] + 1 /\ whole'[h] = whole[h]
      BY <1>0, <2>1 DEF BeginWrite, Modify, TypeOK
    <3> QED BY <3>1, <3>2 DEF Complete
  <2>2. CASE EndWrite(h) \/ Replace(h)
    BY <2>2 DEF EndWrite, Replace, Modify, Announce
  <2>3. CASE Unlink(h)
    BY <2>3 DEF Unlink, Complete
  <2> QED BY <2>1, <2>2, <2>3 DEF FileStep
<1>4. ASSUME NEW f \in Files, NEW x \in Nat, Past(x, f)
      PROVE  x <= stamp'[f] /\ (x <= whole'[f] \/ whole'[f] = 0)
  <2>1. /\ stamp[f] \in Nat /\ stamp'[f] \in Nat /\ whole[f] \in Nat /\ whole'[f] \in Nat
        /\ x <= stamp[f] /\ (x <= whole[f] \/ whole[f] = 0)
    BY <1>0, <1>4 DEF Past, TypeOK
  <2>2. CASE f = h
    BY <1>2, <2>1, <2>2
  <2>3. CASE f # h
    BY <1>1, <2>1, <2>3
  <2> QED BY <2>2, <2>3
<1>5. Resting' /\ Locked' /\ AppliedPast'
  <2>1. ASSUME NEW f \in Files PROVE whole'[f] <= stamp'[f] /\ Past(applied[f], f)
    <3>1. Past(applied[f], f) /\ whole[f] <= stamp[f]
      BY DEF IInv, AppliedPast
    <3>2. whole[f] \in Nat /\ stamp[f] \in Nat /\ stamp'[f] \in Nat
      BY <1>0 DEF TypeOK
    <3> QED BY <3>1, <3>2, <1>1, <1>2
  <2> QED BY <2>1, <1>0, <1>1, <1>4 DEF IInv, Resting, Locked, AppliedPast, TypeOK, Past
<1>6. ReaderAhead' /\ SyncAhead'
  <2>1. ASSUME NEW f \in Files, About(f), reader.at \in {"reading", "applying"}
        PROVE  /\ applied[f] <= reader.seen /\ reader.seen <= stamp'[f]
               /\ reader.at = "applying" => reader.seen <= whole'[f] \/ whole'[f] = 0
    <3>1. /\ applied[f] <= reader.seen /\ reader.seen <= stamp[f]
          /\ reader.at = "applying" => Past(reader.seen, f)
      BY <2>1 DEF IInv, ReaderAhead
    <3>2. reader.seen \in Nat /\ stamp[f] \in Nat /\ stamp'[f] \in Nat
      BY <1>0 DEF TypeOK
    <3>3. reader.seen <= stamp'[f]
      BY <3>1, <3>2, <1>1, <1>2
    <3> QED BY <3>1, <3>2, <3>3, <1>4
  <2>2. ASSUME NEW f \in Files, sync.at = "fetched"
        PROVE  sync.snap[f] <= stamp'[f] /\ (sync.snap[f] <= whole'[f] \/ whole'[f] = 0)
    <3>1. Past(sync.snap[f], f) /\ sync.snap[f] \in Nat
      BY <2>2, <1>0 DEF IInv, SyncAhead, TypeOK
    <3> QED BY <3>1, <1>4
  <2>3. ReaderAhead'
    BY <2>1, <1>1 DEF ReaderAhead, Past, About
  <2>4. SyncAhead'
    BY <2>2, <1>1 DEF IInv, SyncAhead, Past
  <2> QED BY <2>3, <2>4
<1>7. Tracked'
  <2>1. ASSUME NEW f \in Files \ {h}, Complete(f)', Differs(f)', ~cancelled' PROVE OnItsWay(f)'
    BY <2>1, <1>1 DEF IInv, Tracked, Complete, Differs, OnItsWay, About
  <2> QED BY <2>1, <1>3 DEF Tracked, OnItsWay
<1> QED BY <1>5, <1>6, <1>7 DEF IInv

\* The reader reads and applies under the lock.
LEMMA ReaderKeeps ==
  ASSUME IInv, TypeOK',
         (\E f \in Files : ReadStep(f)) \/ Take \/ Close \/ Closed
  PROVE  IInv'
<1>0. TypeOK /\ TypeOK'
  BY DEF IInv
<1>1. CASE Take
  <2>1. ToSet(changes) = {Head(changes)} \cup ToSet(changes')
    BY <1>0, <1>1, TailSet DEF Take, TypeOK
  <2>2. reader'.at = "waiting" /\ reader'.file = {Head(changes)}
    BY <1>1 DEF Take, Idle
  <2>3. UNCHANGED <<there, stamp, whole, sync, applied, cancelled, events, pending, missed>>
    BY <1>1 DEF Take, files
  <2>4. ASSUME NEW f \in Files, OnItsWay(f) PROVE OnItsWay(f)'
    <3>1. reader.file = {}
      BY <1>1 DEF Take, IInv, Resting, Idle
    <3>2. ~About(f)
      BY <3>1 DEF About
    <3> QED BY <2>1, <2>2, <2>3, <2>4, <3>2 DEF OnItsWay, About
  <2> QED BY <2>2, <2>3, <2>4, Carried
<1>2. CASE Close \/ Closed
  <2>1. /\ reader'.at \in {"closing", "ended"}
        /\ reader.at # "waiting" /\ reader'.file = reader.file /\ reader'.seen = reader.seen
    BY <1>0, <1>2 DEF Close, Closed, TypeOK
  <2>2. UNCHANGED <<there, stamp, whole, sync, applied, cancelled, events, pending, changes,
                    missed>>
    BY <1>2 DEF Close, Closed, files, queues
  <2> QED BY <2>1, <2>2, Carried DEF OnItsWay, About
<1>3. ASSUME NEW f \in Files, Stat(f) PROVE IInv'
  <2>1. /\ reader.at = "waiting" /\ reader.file = {f} /\ sync.at = "idle"
        /\ UNCHANGED <<there, stamp, whole, sync, applied, cancelled, events, pending, changes,
                       missed>>
    BY <1>3, <1>0 DEF Stat, Unlocked, About, files, queues, TypeOK, SyncAt
  <2>2. CASE f \in there /\ ~cancelled
    <3>1. reader'.at = "reading" /\ reader'.file = {f} /\ reader'.seen = stamp[f]
      BY <1>0, <1>3, <2>1, <2>2 DEF Stat, TypeOK
    <3>2. applied[f] <= stamp[f] /\ stamp[f] <= stamp[f]
      BY <1>0 DEF IInv, AppliedPast, Past, TypeOK
    <3>3. ReaderAhead'
      BY <3>1, <3>2, <2>1 DEF ReaderAhead, About
    <3>4. Tracked'
      BY <3>1, <2>1 DEF IInv, Tracked, Complete, Differs, OnItsWay, About
    <3> QED BY <2>1, <3>1, <3>3, <3>4 DEF IInv, Resting, Locked, AppliedPast, SyncAhead, Past
  <2>3. CASE ~(f \in there /\ ~cancelled)
    <3>1. reader' = Idle
      BY <1>3, <2>3 DEF Stat
    <3> QED BY <2>1, <2>3, <3>1, Carried DEF Idle, OnItsWay, Complete, About
  <2> QED BY <2>2, <2>3
<1>4. ASSUME NEW f \in Files, Parse(f) PROVE IInv'
  <2>1. /\ reader.at = "reading" /\ reader.file = {f}
        /\ UNCHANGED <<there, stamp, whole, sync, applied, cancelled, events, pending, changes,
                       missed>>
    BY <1>4 DEF Parse, About, files, queues
  <2>2. CASE f \in there /\ stamp[f] = reader.seen /\ whole[f] = reader.seen
    <3>1. reader'.at = "applying" /\ reader'.file = {f} /\ reader'.seen = reader.seen
      BY <1>0, <1>4, <2>1, <2>2 DEF Parse, TypeOK
    <3>2. applied[f] <= reader.seen /\ Past(reader.seen, f)
      BY <1>0, <2>1, <2>2 DEF IInv, AppliedPast, Past, TypeOK
    <3>3. ReaderAhead'
      BY <3>1, <3>2, <2>1 DEF ReaderAhead, About, Past
    <3>4. Tracked'
      BY <3>1, <2>1 DEF IInv, Tracked, Complete, Differs, OnItsWay, About
    <3>5. Locked'
      BY <2>1 DEF IInv, Locked
    <3> QED BY <2>1, <3>1, <3>3, <3>4, <3>5 DEF IInv, Resting, AppliedPast, SyncAhead, Past
  <2>3. CASE ~(f \in there /\ stamp[f] = reader.seen /\ whole[f] = reader.seen)
    <3>1. reader' = Idle
      BY <1>4, <2>3 DEF Parse
    <3> QED BY <2>1, <2>3, <3>1, Carried DEF Idle, OnItsWay, Complete, About
  <2> QED BY <2>2, <2>3
<1>5. ASSUME NEW f \in Files, ReadFails(f) \/ ApplyFails(f) PROVE IInv'
  <2>1. GivesUp(f)
    BY <1>5 DEF ReadFails, ApplyFails
  <2> QED BY <2>1, Carried DEF GivesUp, Idle, OnItsWay, About, files, queues
<1>6. ASSUME NEW f \in Files, Apply(f) PROVE IInv'
  <2>1. /\ reader.at = "applying" /\ reader.file = {f} /\ sync.at = "idle" /\ reader' = Idle
        /\ UNCHANGED <<there, stamp, whole, sync, cancelled, events, pending, changes>>
    BY <1>0, <1>6 DEF IInv, Locked, Apply, About, files, queues, TypeOK, SyncAt
  <2>2. /\ applied'[f] = reader.seen
        /\ \A g \in Files \ {f} : applied'[g] = applied[g]
        /\ missed' = IF stamp[f] = reader.seen THEN missed \ {f} ELSE missed
    BY <1>0, <1>6 DEF Apply, TypeOK
  <2>3. applied[f] <= reader.seen /\ reader.seen <= stamp[f] /\ Past(reader.seen, f)
    BY <2>1 DEF IInv, ReaderAhead, About
  <2>4. AppliedPast'
    BY <2>1, <2>2, <2>3 DEF IInv, AppliedPast, Past
  <2>5. Resting' /\ Locked' /\ ReaderAhead' /\ SyncAhead'
    BY <2>1 DEF Resting, Locked, ReaderAhead, SyncAhead, Idle
  <2>6. ASSUME Complete(f)', Differs(f)', ~cancelled' PROVE OnItsWay(f)'
    <3>1. reader.seen # stamp[f]
      BY <2>1, <2>2, <2>6 DEF Differs
    <3>2. applied[f] # stamp[f]
      BY <1>0, <2>3, <3>1 DEF TypeOK
    <3>3. OnItsWay(f)
      BY <2>1, <2>6, <3>2 DEF IInv, Tracked, Complete, Differs
    <3> QED BY <2>1, <2>2, <3>1, <3>3 DEF OnItsWay
  <2>7. ASSUME NEW g \in Files \ {f}, Complete(g)', Differs(g)', ~cancelled' PROVE OnItsWay(g)'
    <3>1. OnItsWay(g) /\ ~About(g)
      BY <2>1, <2>2, <2>7 DEF IInv, Tracked, Complete, Differs, About
    <3> QED BY <2>1, <2>2, <3>1 DEF OnItsWay
  <2> QED BY <2>4, <2>5, <2>6, <2>7 DEF IInv, Tracked
<1> QED BY <1>1, <1>2, <1>3, <1>4, <1>5, <1>6 DEF ReadStep

\* So does a synchronisation.
LEMMA SyncKeeps ==
  ASSUME IInv, TypeOK', SyncFetch \/ SyncStores \/ SyncFails PROVE IInv'
<1>0. TypeOK /\ TypeOK'
  BY DEF IInv
<1>1. UNCHANGED <<there, stamp, whole, reader, cancelled, events, pending, changes>>
  BY DEF SyncFetch, SyncStores, SyncFails, files, queues
<1>2. CASE SyncFetch
  <2>1. /\ reader.at \notin {"reading", "applying"} /\ sync.at = "idle"
        /\ sync'.at = "fetched" /\ sync'.snap = whole
        /\ UNCHANGED <<applied, missed>>
    BY <1>2 DEF SyncFetch, Unlocked
  <2>2. Resting' /\ Locked' /\ AppliedPast' /\ ReaderAhead'
    BY <1>1, <2>1 DEF IInv, Resting, Locked, AppliedPast, ReaderAhead, Past
  <2>3. ASSUME NEW f \in Files PROVE Past(whole[f], f) /\ (whole[f] = 0 \/ applied[f] <= whole[f])
    BY <1>0 DEF IInv, AppliedPast, Past, TypeOK
  <2>4. SyncAhead'
    BY <1>1, <2>1, <2>3 DEF SyncAhead, Past
  <2>5. Tracked'
    BY <1>1, <2>1 DEF IInv, Tracked, Complete, Differs, OnItsWay, About
  <2> QED BY <2>2, <2>4, <2>5 DEF IInv
<1>3. CASE SyncStores
  <2>1. /\ sync.at = "fetched" /\ sync'.at = "idle" /\ applied' = sync.snap
        /\ missed' = {f \in missed : sync.snap[f] # whole[f]}
        /\ reader.at \notin {"reading", "applying"}
    BY <1>3 DEF IInv, Locked, SyncStores, NoSync
  <2>2. Resting' /\ Locked' /\ AppliedPast' /\ ReaderAhead' /\ SyncAhead'
    BY <1>1, <2>1 DEF IInv, Resting, Locked, AppliedPast, ReaderAhead, SyncAhead, Past
  <2>3. ASSUME NEW f \in Files, Complete(f)', Differs(f)', ~cancelled' PROVE OnItsWay(f)'
    <3>1. sync.snap[f] # stamp[f] /\ whole[f] = stamp[f] /\ OnItsWay(f)
      BY <1>1, <2>1, <2>3 DEF IInv, Tracked, Complete, Differs
    <3> QED BY <1>1, <2>1, <3>1 DEF OnItsWay, About
  <2> QED BY <2>2, <2>3 DEF IInv, Tracked
<1>4. CASE SyncFails
  <2>1. sync'.at = "idle" /\ UNCHANGED <<applied, missed>>
    BY <1>4 DEF SyncFails, NoSync
  <2> QED BY <1>1, <2>1 DEF IInv, Resting, Locked, AppliedPast, ReaderAhead, SyncAhead, Past,
          Tracked, Complete, Differs, OnItsWay, About
<1> QED BY <1>2, <1>3, <1>4

-----------------------------------------------------------------------------
LEMMA Begins == Init => IInv
<1> SUFFICES ASSUME Init PROVE IInv
  OBVIOUS
<1>1. TypeOK
  <2>1. Cardinality(pending) <= MaxPending
    BY WatchAssumption, FS_EmptySet DEF Init
  <2>2. changes = <<>> /\ ChanCap \in Nat
    BY WatchAssumption DEF Init
  <2>3. /\ reader \in [at : ReaderAt, file : SUBSET Files, seen : Nat]
        /\ sync \in [at : SyncAt, snap : [Files -> Nat]]
    BY DEF Init, Idle, NoSync, ReaderAt, SyncAt
  <2>4. there \subseteq Files /\ stamp \in [Files -> Nat] /\ whole \in [Files -> Nat]
    BY DEF Init
  <2>5. changes \in Seq(Files) /\ Len(changes) <= ChanCap
    BY <2>2
  <2>6. /\ subdir \in {"none", "new", "watched"} /\ events \subseteq Event
        /\ loop \in {"running", "restarting", "ended"} /\ pending \subseteq Files
        /\ cancelled \in BOOLEAN /\ applied \in [Files -> Nat] /\ missed \subseteq Files
    BY <2>4 DEF Init
  <2> QED BY <2>1, <2>3, <2>4, <2>5, <2>6 DEF TypeOK
<1> QED BY <1>1 DEF Init, IInv, Resting, Locked, AppliedPast, ReaderAhead, SyncAhead, Tracked,
        Past, Idle, NoSync, Complete, Differs, OnItsWay, TypeOK

LEMMA Continues == IInv /\ [Next]_vars => IInv'
<1> SUFFICES ASSUME IInv, [Next]_vars PROVE IInv'
  OBVIOUS
<1>1. TypeOK'
  BY TypeStep DEF IInv
<1> QED BY <1>1, Steps, FileKeeps, LoopKeeps, ReaderKeeps, SyncKeeps

LEMMA Invariant == Spec => []IInv
BY Begins, Continues, PTL DEF Spec

\* Types, and the bounds of the table and of the channel (cpaDirectMaxPending).
THEOREM TypeCorrect == Spec => []TypeOK
<1>1. IInv => TypeOK
  BY DEF IInv
<1> QED BY <1>1, Invariant, PTL

\* A complete file that differs from the accounts is on its way, or its change was
\* lost for one of the reasons the code knows of (CPADirectReader.run).
THEOREM NothingIsForgotten == Spec => []NothingForgotten
<1>1. IInv => NothingForgotten
  BY DEF IInv, Tracked, Complete, Differs, OnItsWay, NothingForgotten, Behind
<1> QED BY <1>1, Invariant, PTL

\* Older contents of a file never replace newer ones (runDirectCPAFile and syncOne
\* hold the lock of the source).
THEOREM OlderNeverWins == Spec => NeverBackwards
<1>1. ASSUME IInv, [Next]_vars, NEW f \in Files PROVE applied'[f] >= applied[f] \/ applied'[f] = 0
  <2>0. TypeOK
    BY <1>1 DEF IInv
  <2>1. ASSUME NEW h \in Files, Apply(h) PROVE applied'[f] >= applied[f]
    BY <1>1, <2>0, <2>1 DEF IInv, ReaderAhead, Apply, TypeOK
  <2>2. CASE SyncStores
    BY <1>1, <2>0, <2>2 DEF IInv, SyncAhead, SyncStores, TypeOK
  <2>3. CASE ~SyncStores /\ ~ \E h \in Files : Apply(h)
    <3>1. applied' = applied
      BY <1>1, <2>3, Steps DEF FileStep, BeginWrite, EndWrite, Replace, Unlink, Modify,
         LoopStep, HandleFile, Emit, ReadStep, Stat, Parse, ReadFails, ApplyFails, GivesUp,
         MakeDir, HandleDir, WatcherFails, Rewatch, EndLoop, Take, Cancel, Close, Closed,
         SyncFetch, SyncFails, vars
    <3> QED BY <2>0, <3>1 DEF TypeOK
  <2> QED BY <2>1, <2>2, <2>3
<1>2. IInv /\ [Next]_vars => [\A f \in Files : applied'[f] >= applied[f] \/ applied'[f] = 0]_vars
  BY <1>1
<1> QED BY <1>2, Invariant, PTL DEF Spec, NeverBackwards
=============================================================================
