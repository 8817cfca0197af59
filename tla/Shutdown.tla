------------------------------ MODULE Shutdown ------------------------------
(***************************************************************************)
(* The events that requests and the synchroniser leave behind, and the end *)
(* of the process.  Every kind of event has a bounded queue and a writer   *)
(* that inserts it into the database in batches: the audit log             *)
(* (RunLogWriter), the update log (RunUpdateEventWriter) and the rotated   *)
(* salts (RunMarkerSaltWriter, whose batches have one event).  A signal    *)
(* cancels the context of the writers and starts the shutdown sequence of  *)
(* main, which waits for requests and tunnels with a deadline each, then   *)
(* for the synchroniser and the writers.                                   *)
(*                                                                         *)
(* An event is the number of its send on its queue.  A channel of Go is    *)
(* first in, first out, so a queue is the set of the numbers in it.        *)
(*                                                                         *)
(* An operator whose name ends in _Wrong is a plausible mistake in the     *)
(* operator that follows it; only the tests of the properties use it.      *)
(***************************************************************************)
EXTENDS Naturals, FiniteSets

CONSTANTS
  Queues,
  Capacity,     \* Capacity[q]: length of the channel
  BatchLimit,   \* BatchLimit[q]: events that are inserted at once
  Sources,      \* Sources[q]: the kinds of work that send to q
  Conns,        \* connections to one of the two listeners
  Manager,      \* the goroutine of the synchroniser
  MaxSent       \* MaxSent[q]: bound on the events sent to q

\* A connection has no request, one under http.Server (of the ingress or the
\* admin listener), or it is taken over by handleConnect and not counted yet,
\* or it is a counted tunnel.
Requests == {"plain", "admin"}
Work == Requests \cup {"hijacked", "tunnel", "manager"}
Phases == {"serving", "ingress", "admin", "tunnels", "writers", "gone", "killed"}

ASSUME ShutdownAssumption ==
  /\ Manager \notin Conns
  /\ Sources \in [Queues -> SUBSET Work]
  /\ Capacity \in [Queues -> Nat] /\ BatchLimit \in [Queues -> Nat \ {0}]
  /\ MaxSent \in [Queues -> Nat]

VARIABLES
  at,          \* at[c]: what a connection or the manager is doing
  phase,       \* where main is
  signalled,   \* ctx is cancelled
  late,        \* a deadline passed while main waited for requests or tunnels
  uncounted,   \* history: connections main could not see when it stopped waiting
  sent,        \* sent[q]: number of the last event sent
  queue,       \* the channel
  batch,       \* the buffer of the writer
  writer,      \* "running", "draining", "done"
  inserted,    \* events whose transaction was committed
  dropped,     \* events that found the queue full
  refused,     \* events of a transaction that failed
  abandoned,   \* events that were waiting when the deadline of a drain passed
  last         \* history: last[q], sent[q] when ctx was cancelled

work == <<at, phase, signalled, late, uncounted>>
log == <<sent, queue, batch, writer, inserted, dropped, refused, abandoned>>
vars == <<at, phase, signalled, late, uncounted, sent, queue, batch, writer,
          inserted, dropped, refused, abandoned, last>>

Events == [Queues -> SUBSET (Nat \ {0})]

TypeOK ==
  /\ at \in [Conns \cup {Manager} -> Work \cup {"idle", "ended"}]
  /\ phase \in Phases
  /\ signalled \in BOOLEAN /\ late \in BOOLEAN
  /\ uncounted \subseteq Conns
  /\ sent \in [Queues -> Nat] /\ last \in [Queues -> Nat]
  /\ queue \in Events /\ batch \in Events
  /\ writer \in [Queues -> {"running", "draining", "done"}]
  /\ inserted \in Events /\ dropped \in Events
  /\ refused \in Events /\ abandoned \in Events

Init ==
  /\ at = [c \in Conns \cup {Manager} |-> IF c = Manager THEN "manager" ELSE "idle"]
  /\ phase = "serving" /\ signalled = FALSE /\ late = FALSE /\ uncounted = {}
  /\ sent = [q \in Queues |-> 0] /\ last = [q \in Queues |-> 0]
  /\ queue = [q \in Queues |-> {}] /\ batch = [q \in Queues |-> {}]
  /\ writer = [q \in Queues |-> "running"]
  /\ inserted = [q \in Queues |-> {}] /\ dropped = [q \in Queues |-> {}]
  /\ refused = [q \in Queues |-> {}] /\ abandoned = [q \in Queues |-> {}]

Alive == phase \notin {"gone", "killed"}

-----------------------------------------------------------------------------
(* Requests, tunnels and the synchroniser.                                 *)

Becomes(c, new) ==
  /\ at' = [at EXCEPT ![c] = new]
  /\ UNCHANGED <<phase, signalled, late, uncounted, log, last>>

\* A listener accepts until main shuts it down.
Begin(c) ==
  /\ at[c] = "idle"
  /\ \/ phase = "serving" /\ Becomes(c, "plain")
     \/ phase \in {"serving", "ingress"} /\ Becomes(c, "admin")

\* handleConnect takes the connection away from http.Server and waits for the
\* first byte of the client; only then is it counted among the tunnels.
Hijack(c) == Alive /\ at[c] = "plain" /\ Becomes(c, "hijacked")
Count(c) == Alive /\ at[c] = "hijacked" /\ Becomes(c, "tunnel")

Finish(c) ==
  /\ Alive /\ at[c] \in Requests \cup {"hijacked", "tunnel"}
  /\ Becomes(c, "idle")

\* Manager.Run returns once ctx is cancelled (DirectSync has the details).
ManagerEnds ==
  /\ Alive /\ signalled /\ at[Manager] = "manager"
  /\ Becomes(Manager, "ended")

\* The sends of audit entries, of update events and of rotations never wait: an
\* event that finds the queue full is dropped.
Send(c, q) ==
  /\ Alive /\ at[c] \in Sources[q] /\ sent[q] < MaxSent[q]
  /\ sent' = [sent EXCEPT ![q] = @ + 1]
  /\ \/ /\ Cardinality(queue[q]) < Capacity[q]
        /\ queue' = [queue EXCEPT ![q] = @ \cup {sent[q] + 1}]
        /\ UNCHANGED dropped
     \/ /\ Cardinality(queue[q]) >= Capacity[q]
        /\ dropped' = [dropped EXCEPT ![q] = @ \cup {sent[q] + 1}]
        /\ UNCHANGED queue
  /\ UNCHANGED <<work, batch, writer, inserted, refused, abandoned, last>>

-----------------------------------------------------------------------------
(* The writers.                                                            *)

\* One transaction inserts the whole batch, or none of it.
Flush(q, events) ==
  /\ batch' = [batch EXCEPT ![q] = {}]
  /\ \/ /\ inserted' = [inserted EXCEPT ![q] = @ \cup events]
        /\ UNCHANGED refused
     \/ /\ events # {}
        /\ refused' = [refused EXCEPT ![q] = @ \cup events]
        /\ UNCHANGED inserted

First(S) == {n \in S : \A m \in S : n <= m}

\* A full batch waits for the ticker; the event that found it full goes first.
Receive_Wrong(q) ==
  /\ Alive /\ writer[q] \in {"running", "draining"}
  /\ \E n \in First(queue[q]) :
       /\ queue' = [queue EXCEPT ![q] = @ \ {n}]
       /\ IF Cardinality(batch[q]) + 1 >= BatchLimit[q]
          THEN /\ inserted' = [inserted EXCEPT ![q] = @ \cup {n}]
               /\ UNCHANGED batch
          ELSE /\ batch' = [batch EXCEPT ![q] = @ \cup {n}]
               /\ UNCHANGED inserted
  /\ UNCHANGED <<work, sent, writer, dropped, refused, abandoned, last>>

\* The next event joins the batch, and a full batch is inserted.
Receive(q) ==
  /\ Alive /\ writer[q] \in {"running", "draining"}
  /\ \E n \in First(queue[q]) :
       /\ queue' = [queue EXCEPT ![q] = @ \ {n}]
       /\ IF Cardinality(batch[q]) + 1 >= BatchLimit[q] THEN Flush(q, batch[q] \cup {n})
          ELSE /\ batch' = [batch EXCEPT ![q] = @ \cup {n}]
               /\ UNCHANGED <<inserted, refused>>
  /\ UNCHANGED <<work, sent, writer, dropped, abandoned, last>>

\* The ticker leaves a batch alone that is not full.
Tick_Wrong(q) ==
  /\ Alive /\ writer[q] = "running" /\ Cardinality(batch[q]) >= BatchLimit[q]
  /\ Flush(q, batch[q])
  /\ UNCHANGED <<work, sent, queue, writer, dropped, abandoned, last>>

\* The ticker inserts what is there.
Tick(q) ==
  /\ Alive /\ writer[q] = "running" /\ batch[q] # {}
  /\ Flush(q, batch[q])
  /\ UNCHANGED <<work, sent, queue, writer, dropped, abandoned, last>>

Notice(q) ==
  /\ Alive /\ writer[q] = "running" /\ signalled
  /\ writer' = [writer EXCEPT ![q] = "draining"]
  /\ UNCHANGED <<work, sent, queue, batch, inserted, dropped, refused, abandoned, last>>

\* The writer inserts its last batch and returns.
Leave(q, left) ==
  /\ Alive /\ writer[q] = "draining"
  /\ Flush(q, batch[q])
  /\ abandoned' = [abandoned EXCEPT ![q] = left]
  /\ writer' = [writer EXCEPT ![q] = "done"]
  /\ UNCHANGED <<work, sent, queue, dropped, last>>

\* It does not look at the channel: there is no drain.
Emptied_Wrong(q) == Leave(q, {})

\* It has found the channel empty.
Emptied(q) == queue[q] = {} /\ Leave(q, {})

\* The deadline of the drain, which may pass at any moment, comes first.
CutOff(q) == queue[q] # {} /\ Leave(q, queue[q])

-----------------------------------------------------------------------------
(* main.                                                                   *)

Enter(next) ==
  /\ phase' = next
  /\ UNCHANGED <<at, signalled, log, last>>

\* The first signal cancels ctx.
Signal ==
  /\ phase = "serving" /\ ~signalled
  /\ signalled' = TRUE
  /\ last' = sent
  /\ UNCHANGED <<at, phase, late, uncounted, log>>

\* hsIngress.Shutdown closes its listener ...
StopServing ==
  /\ phase = "serving" /\ signalled
  /\ Enter("ingress") /\ UNCHANGED <<late, uncounted>>

\* ... and does not wait for its requests.
IngressClosed_Wrong ==
  /\ phase = "ingress"
  /\ Enter("admin") /\ UNCHANGED <<late, uncounted>>

\* ... and waits for its requests, up to the deadline.
IngressClosed ==
  /\ phase = "ingress"
  /\ Enter("admin")
  /\ late' = (late \/ \E c \in Conns : at[c] = "plain")
  /\ UNCHANGED uncounted

\* hsAdmin.Shutdown does the same under the same deadline.
AdminClosed ==
  /\ phase = "admin"
  /\ Enter("tunnels")
  /\ late' = (late \/ \E c \in Conns : at[c] = "admin")
  /\ UNCHANGED uncounted

\* WaitTunnels waits for the tunnels that are counted, up to its own deadline.
TunnelsWaited ==
  /\ phase = "tunnels"
  /\ Enter("writers")
  /\ late' = (late \/ \E c \in Conns : at[c] = "tunnel")
  /\ uncounted' = {c \in Conns : at[c] = "hijacked"}

\* main waits for the requests that are left.
Exit_Wrong ==
  /\ phase = "writers" /\ at[Manager] = "ended"
  /\ \A q \in Queues : writer[q] = "done"
  /\ \A c \in Conns : at[c] = "idle"
  /\ Enter("gone") /\ UNCHANGED <<late, uncounted>>

\* The manager and the writers have no deadline here.
Exit ==
  /\ phase = "writers" /\ at[Manager] = "ended"
  /\ \A q \in Queues : writer[q] = "done"
  /\ Enter("gone") /\ UNCHANGED <<late, uncounted>>

\* A listener fails while main serves, or a second signal comes: os.Exit.
Kill ==
  /\ Alive /\ (phase = "serving" \/ signalled)
  /\ Enter("killed") /\ UNCHANGED <<late, uncounted>>

-----------------------------------------------------------------------------
ConnStep ==
  \/ \E c \in Conns : Begin(c) \/ Hijack(c) \/ Count(c) \/ Finish(c)
  \/ ManagerEnds
  \/ \E c \in Conns \cup {Manager}, q \in Queues : Send(c, q)

WriterStep(q) == Receive(q) \/ Tick(q) \/ Notice(q) \/ Emptied(q) \/ CutOff(q)
MainStep == StopServing \/ IngressClosed \/ AdminClosed \/ TunnelsWaited \/ Exit

Next ==
  \/ ConnStep
  \/ \E q \in Queues : WriterStep(q)
  \/ MainStep \/ Signal \/ Kill

\* Main's waits and the drain have deadlines, inserts have a timeout, a ticker
\* ticks, and select takes a ready case in the end.  The manager returns once ctx
\* is cancelled.  No request is obliged to end and no signal to come.
Fairness ==
  /\ WF_vars(MainStep) /\ WF_vars(ManagerEnds)
  /\ \A q \in Queues :
       /\ WF_vars(Receive(q)) /\ WF_vars(Tick(q))
       /\ WF_vars(Notice(q)) /\ WF_vars(Emptied(q) \/ CutOff(q))

Spec == Init /\ [][Next]_vars /\ Fairness

-----------------------------------------------------------------------------
(* Properties.                                                             *)

\* The rows of a log are in the order in which the events were sent, which is
\* the order their readers list them in (ORDER BY id): an event whose
\* predecessor is still in the channel or in the buffer is not in the database.
EventsInOrder ==
  \A q \in Queues : \A n \in inserted[q], m \in queue[q] \cup batch[q] : n < m

\* "After SIGTERM the buffered events are stored" (docs/013): once its writer has
\* returned, every event that was sent before the signal is in the database, but
\* for those that found the queue full, those of a failed transaction and those
\* that the deadline of the drain cut off; a writer that returned before its
\* deadline has left none of them in the channel or in its buffer.
BufferedAreWritten ==
  \A q \in Queues : writer[q] = "done" =>
    1..last[q] \subseteq inserted[q] \cup dropped[q] \cup refused[q] \cup abandoned[q]

\* When no deadline passed, main waits for the last goroutines and leaves only
\* with every request answered and every tunnel closed, except for connections
\* that WaitTunnels cannot see: taken over from http.Server, first byte not read.
ExitWaits ==
  phase \in {"writers", "gone"} /\ ~late =>
    \A c \in Conns : \/ at[c] = "idle"
                     \/ c \in uncounted /\ at[c] \in {"hijacked", "tunnel"}

\* "Stop accepting, wait for the tunnels, drain the audit log, close the
\* database" (main.go): when no deadline passed and main saw every tunnel, no
\* event is still in the channel of a log when the process ends.
NothingLeftInQueue ==
  phase = "gone" /\ ~late /\ uncounted = {} =>
    \A q \in Queues : queue[q] \subseteq abandoned[q]

\* An event that is in the channel or in the buffer reaches the database, or the
\* transaction that should insert it fails, unless the process stops.
EveryEventWritten ==
  \A q \in Queues : \A n \in 1..MaxSent[q] :
    (n \in queue[q] \cup batch[q])
      ~> (n \in inserted[q] \cup refused[q] \/ signalled \/ phase = "killed")

\* A shutdown ends: no request, tunnel, writer or insert keeps main waiting
\* for ever.
StopEnds == signalled ~> ~Alive

=============================================================================
