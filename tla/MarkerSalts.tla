---------------------------- MODULE MarkerSalts ----------------------------
(***************************************************************************)
(* The dynamic salt of a sticky identity: the number that enters the       *)
(* derivation of its session, so that a new salt gives it a new exit.      *)
(* Salts and counts of consecutive failures live in an LRU cache           *)
(* (internal/marker); a rotation is also sent to a bounded queue that one  *)
(* writer empties into the table marker_salts, from which the next process *)
(* restores them.                                                          *)
(*                                                                         *)
(* A request is one that goes through an exit and has an identity: the     *)
(* others neither read nor change a salt (saltKey == "" || !viaUpstream).  *)
(***************************************************************************)
EXTENDS Naturals, Sequences

CONSTANTS
  Keys,
  Requests,
  Capacity,        \* entries of the cache
  QueueCapacity,   \* events that wait for the writer
  Threshold,       \* salt_rotate_failure_threshold
  MaxFailures,     \* MaxFailures[k]: bound on the failures of identity k
  MaxStarts        \* bound on the starts of the process

ASSUME SaltAssumption ==
  /\ Capacity \in Nat \ {0}
  /\ QueueCapacity \in Nat
  /\ Threshold \in Nat \ {0}
  /\ MaxFailures \in [Keys -> Nat]
  /\ MaxStarts \in Nat \ {0}

VARIABLES
  recent,     \* the cached identities, most recently used first
  salt,       \* salt[k]: what Get returns for k, 0 if k is not cached
  failures,   \* failures[k]: the consecutive failures counted for k
  saltCh,     \* the queue of rotations to store
  stored,     \* table marker_salts: stored[k], 0 if k has no row
  order,      \* its identities by updated_at, newest first
  request,    \* request[r]: the identity a request routes and what it does
  process,    \* "up", "stopping" once a signal has cancelled ctx, "down"
  writer,     \* RunMarkerSaltWriter: "running", "done", "none"
  starts,     \* starts of the process
  failed,     \* history: failed[k], failures recorded for k since the first start
  streak,     \* history: streak[k], how many of them since a success of k
  excused     \* history: identities whose last rotation may not be stored

cache == <<recent, salt, failures>>
history == <<failed, streak, excused>>
table == <<stored, order>>
vars == <<recent, salt, failures, saltCh, stored, order, request, process, writer,
          starts, failed, streak, excused>>

Idle == [at |-> "idle"]
Event == [key : Keys, salt : Nat \ {0}]
Elements(seq) == {seq[i] : i \in DOMAIN seq}
Cached == Elements(recent)
Sending(k) == {r \in Requests : request[r].at = "send" /\ request[r].event.key = k}

TypeOK ==
  /\ recent \in Seq(Keys) /\ Len(recent) <= Capacity
  /\ \A i, j \in DOMAIN recent : recent[i] = recent[j] => i = j
  /\ salt \in [Keys -> Nat]
  /\ failures \in [Keys -> 0..Threshold - 1]
  /\ \A k \in Keys \ Cached : salt[k] = 0 /\ failures[k] = 0
  /\ saltCh \in Seq(Event) /\ Len(saltCh) <= QueueCapacity
  /\ stored \in [Keys -> Nat]
  /\ order \in Seq(Keys) /\ Elements(order) = {k \in Keys : stored[k] > 0}
  /\ \A i, j \in DOMAIN order : order[i] = order[j] => i = j
  /\ request \in [Requests -> {Idle} \cup [at : {"out"}, key : Keys]
                                     \cup [at : {"send"}, event : Event]]
  /\ process \in {"up", "stopping", "down"}
  /\ writer \in {"running", "done", "none"}
  /\ starts \in 1..MaxStarts
  /\ failed \in [Keys -> Nat] /\ streak \in [Keys -> Nat]
  /\ \A k \in Keys : streak[k] <= failed[k] /\ failed[k] <= MaxFailures[k]
  /\ excused \subseteq Keys

Init ==
  /\ recent = <<>>
  /\ salt = [k \in Keys |-> 0]
  /\ failures = [k \in Keys |-> 0]
  /\ saltCh = <<>>
  /\ stored = [k \in Keys |-> 0] /\ order = <<>>
  /\ request = [r \in Requests |-> Idle]
  /\ process = "up" /\ writer = "running" /\ starts = 1
  /\ failed = [k \in Keys |-> 0] /\ streak = [k \in Keys |-> 0]
  /\ excused = {}

-----------------------------------------------------------------------------
(* internal/marker: the cache. *)

Place(k, seq) ==
  IF k \in Elements(seq) THEN CHOOSE i \in DOMAIN seq : seq[i] = k ELSE Len(seq) + 1

\* Whatever was before k moves one place back.
MoveToFront(k, seq) ==
  [i \in DOMAIN seq \cup {Place(k, seq)} |->
     IF i = 1 THEN k ELSE IF i <= Place(k, seq) THEN seq[i - 1] ELSE seq[i]]
Newest(seq) == SubSeq(seq, 1, IF Len(seq) > Capacity THEN Capacity ELSE Len(seq))
Kept(k) == Newest(MoveToFront(k, recent))

\* Use of a cached identity.
Touch(k) == recent' = IF k \in Cached THEN MoveToFront(k, recent) ELSE recent

\* Add: k becomes the most recently used with this salt and this count, and a
\* full cache forgets the least recently used.
Add(k, s, n) ==
  /\ recent' = Kept(k)
  /\ salt' = [j \in Keys |->
       IF j = k THEN s ELSE IF j \in Elements(Kept(k)) THEN salt[j] ELSE 0]
  /\ failures' = [j \in Keys |->
       IF j = k THEN n ELSE IF j \in Elements(Kept(k)) THEN failures[j] ELSE 0]

Evicted(k) == Cached \ Elements(Kept(k))

Rotates(k) == failures[k] + 1 >= Threshold

\* (mutant: a rotation does not start a new count)
RecordFailure_Wrong(k) ==
  IF Rotates(k) THEN Add(k, salt[k] + 1, failures[k]) ELSE Add(k, salt[k], failures[k] + 1)

RecordFailure(k) ==
  IF Rotates(k) THEN Add(k, salt[k] + 1, 0) ELSE Add(k, salt[k], failures[k] + 1)

\* (mutant: a success only counts as a use)
ClearFailures_Wrong(k) == Touch(k) /\ UNCHANGED <<salt, failures>>

ClearFailures(k) ==
  /\ Touch(k)
  /\ failures' = [failures EXCEPT ![k] = 0]
  /\ UNCHANGED salt

-----------------------------------------------------------------------------
(* internal/server: requests. *)

\* resolveOutbound reads the salt of the identity; the request goes out.
Route(r, k) ==
  /\ process # "down" /\ request[r] = Idle
  /\ request' = [request EXCEPT ![r] = [at |-> "out", key |-> k]]
  /\ Touch(k)
  /\ UNCHANGED <<salt, failures, saltCh, table, process, writer, starts, history>>

\* An answer, or an error that does not speak against the exit.
Succeed(r) ==
  /\ request[r].at = "out"
  /\ ClearFailures(request[r].key)
  /\ request' = [request EXCEPT ![r] = Idle]
  /\ streak' = [streak EXCEPT ![request[r].key] = 0]
  /\ UNCHANGED <<saltCh, table, process, writer, starts, failed, excused>>

\* recordUnusableIdentity, up to the send.
Fail(r) ==
  /\ request[r].at = "out"
  /\ LET k == request[r].key IN
     /\ failed[k] < MaxFailures[k]
     /\ RecordFailure(k)
     /\ request' = [request EXCEPT ![r] =
          IF Rotates(k) /\ writer # "none"
          THEN [at |-> "send", event |-> [key |-> k, salt |-> salt[k] + 1]]
          ELSE Idle]
     /\ failed' = [failed EXCEPT ![k] = @ + 1]
     /\ streak' = [streak EXCEPT ![k] = @ + 1]
     /\ excused' = excused \cup Evicted(k)
                     \cup IF Rotates(k) /\ Sending(k) # {} THEN {k} ELSE {}
  /\ UNCHANGED <<saltCh, table, process, writer, starts>>

\* The send never waits: the event is dropped if the queue is full.
Send(r) ==
  /\ request[r].at = "send"
  /\ request' = [request EXCEPT ![r] = Idle]
  /\ IF Len(saltCh) < QueueCapacity
     THEN saltCh' = Append(saltCh, request[r].event) /\ UNCHANGED excused
     ELSE excused' = excused \cup {request[r].event.key} /\ UNCHANGED saltCh
  /\ UNCHANGED <<cache, table, process, writer, starts, failed, streak>>

-----------------------------------------------------------------------------
(* RunMarkerSaltWriter. *)

\* (mutant: INSERT OR IGNORE)
Upsert_Wrong(e) ==
  IF stored[e.key] = 0
  THEN stored' = [stored EXCEPT ![e.key] = e.salt] /\ order' = <<e.key>> \o order
  ELSE UNCHANGED table

\* UpsertMarkerSalt
Upsert(e) ==
  /\ stored' = [stored EXCEPT ![e.key] = e.salt]
  /\ order' = MoveToFront(e.key, order)

Persist ==
  /\ writer = "running" /\ saltCh # <<>>
  /\ saltCh' = Tail(saltCh)
  /\ Upsert(Head(saltCh))
  /\ UNCHANGED <<cache, request, process, writer, starts, history>>

\* The database refuses, or takes longer than five seconds.
PersistFails ==
  /\ writer = "running" /\ saltCh # <<>>
  /\ saltCh' = Tail(saltCh)
  /\ excused' = excused \cup {Head(saltCh).key}
  /\ UNCHANGED <<cache, table, request, process, writer, starts, failed, streak>>

\* Once ctx is cancelled the writer leaves as soon as it finds the queue empty.
Drained ==
  /\ writer = "running" /\ process = "stopping" /\ saltCh = <<>>
  /\ writer' = "done"
  /\ UNCHANGED <<cache, saltCh, table, request, process, starts, history>>

\* Or after three seconds.
GiveUp ==
  /\ writer = "running" /\ process = "stopping" /\ saltCh # <<>>
  /\ writer' = "done"
  /\ excused' = excused \cup {saltCh[i].key : i \in DOMAIN saltCh}
  /\ UNCHANGED <<cache, saltCh, table, request, process, starts, failed, streak>>

-----------------------------------------------------------------------------
(* cmd/mitmrouter: the process. *)

\* A signal cancels ctx at once.
Signal ==
  /\ process = "up" /\ process' = "stopping"
  /\ UNCHANGED <<cache, saltCh, table, request, writer, starts, history>>

Gone ==
  /\ process' = "down"
  /\ recent' = <<>>
  /\ salt' = [k \in Keys |-> 0] /\ failures' = [k \in Keys |-> 0]
  /\ saltCh' = <<>>
  /\ request' = [r \in Requests |-> Idle]
  /\ UNCHANGED <<table, writer, starts, failed, streak, excused>>

\* main waits for the writer, but for tunnels and requests only so long.
Exit == process = "stopping" /\ writer # "running" /\ Gone

\* Killed, a second signal, or a listener that failed (fatal).
Crash == process # "down" /\ Gone

\* LoadMarkerSalts gives the newest rows, newest first, and each is added to
\* the front of the cache.
Start ==
  /\ process = "down" /\ starts < MaxStarts
  /\ process' = "up" /\ writer' = "running" /\ starts' = starts + 1
  /\ LET rows == Newest(order) IN
     /\ recent' = [i \in DOMAIN rows |-> rows[Len(rows) + 1 - i]]
     /\ salt' = [k \in Keys |-> IF k \in Elements(rows) THEN stored[k] ELSE 0]
     /\ excused' = Elements(order) \ Elements(rows)
  /\ UNCHANGED <<failures, saltCh, table, request, failed, streak>>

\* The rows cannot be read: the process runs without them and without a writer.
StartClean ==
  /\ process = "down" /\ starts < MaxStarts
  /\ process' = "up" /\ writer' = "none" /\ starts' = starts + 1
  /\ excused' = Keys
  /\ UNCHANGED <<cache, saltCh, table, request, failed, streak>>

-----------------------------------------------------------------------------
WriterStep == Persist \/ PersistFails \/ Drained \/ GiveUp

Next ==
  \/ \E r \in Requests, k \in Keys : Route(r, k)
  \/ \E r \in Requests : Succeed(r) \/ Fail(r) \/ Send(r)
  \/ WriterStep
  \/ Signal \/ Exit \/ Crash \/ Start \/ StartClean

Spec == Init /\ [][Next]_vars

-----------------------------------------------------------------------------
(* Properties *)

\* A salt is paid for: in the cache, in the queue and in the table, through
\* evictions, restarts and requests that fail at the same time, an identity has
\* rotated at most once per Threshold of its failures.  An identity that never
\* failed is never moved to another exit.
PaidFor ==
  \A k \in Keys :
    /\ salt[k] * Threshold + failures[k] <= failed[k]
    /\ \A i \in DOMAIN saltCh : saltCh[i].key = k => saltCh[i].salt * Threshold <= failed[k]
    /\ stored[k] * Threshold <= failed[k]

\* A rotation ends a run of at least Threshold failures with no success of the
\* identity between them, whichever requests they came from.
RotationEarned ==
  [][process = "down" \/ \A k \in Keys : salt'[k] > salt[k] => streak'[k] >= Threshold]_vars

\* When no rotation is on its way to the table, a cached identity has the salt
\* that the table would give it back after a restart, unless its event was
\* dropped or refused, it rotated again before the event was sent, or it was
\* evicted in between.
RestartKeepsSalt ==
  writer = "running" /\ process # "down" /\ saltCh = <<>> =>
    \A k \in Keys \ excused : Sending(k) = {} => stored[k] = salt[k]
=============================================================================
