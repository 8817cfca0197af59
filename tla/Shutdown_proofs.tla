-------------------------- MODULE Shutdown_proofs --------------------------
(* Theorems about Shutdown: what the writers have stored and what main has *)
(* waited for, for any number of logs, of events and of connections and    *)
(* for every length of a channel and of a batch.                           *)
EXTENDS Shutdown, TLAPS

(***************************************************************************)
(* For one log the invariant says where every event is: the older an event *)
(* is, the further it has come, from the channel over the buffer to the    *)
(* database.  For main it says whom it has seen off in each phase.         *)
(***************************************************************************)
Numbered(q) ==
  queue[q] \subseteq 1..sent[q] /\ batch[q] \subseteq 1..sent[q] /\ inserted[q] \subseteq 1..sent[q]

InOrder(q) ==
  /\ \A n \in inserted[q], m \in queue[q] \cup batch[q] : n < m
  /\ \A n \in batch[q], m \in queue[q] : n < m

Accounted(q) ==
  1..sent[q] \subseteq queue[q] \cup batch[q] \cup inserted[q] \cup dropped[q] \cup refused[q]

Drained(q) ==
  /\ last[q] <= sent[q]
  /\ writer[q] # "running" => signalled
  /\ writer[q] = "done" => batch[q] = {} /\ queue[q] \cap (1..last[q]) \subseteq abandoned[q]

LogInv(q) == Numbered(q) /\ InOrder(q) /\ Accounted(q) /\ Drained(q)

SeenOff ==
  /\ \A c \in Conns : at[c] \notin {"manager", "ended"}
  /\ ~late =>
       \A c \in Conns :
         /\ phase \in {"admin", "tunnels", "writers", "gone"} => at[c] # "plain"
         /\ phase \in {"tunnels", "writers", "gone"} => at[c] # "admin"
         /\ phase \in {"writers", "gone"} /\ at[c] \in {"hijacked", "tunnel"} => c \in uncounted

IInv == TypeOK /\ SeenOff /\ \A q \in Queues : LogInv(q)

-----------------------------------------------------------------------------
(* The writers *)

\* Where the events of a log are after a step is said once for all the steps.
LogState(q) ==
  <<sent[q], queue[q], batch[q], writer[q], inserted[q], dropped[q], refused[q], abandoned[q]>>

\* Whichever way a writer returns, it has abandoned just what is in its channel.
LEMMA LeavesQueue ==
  ASSUME NEW q \in Queues, Emptied(q) \/ CutOff(q)
  PROVE  Leave(q, queue[q])
BY DEF Emptied, CutOff

\* A step on one log does not touch another.
LEMMA OtherLogs ==
  ASSUME TypeOK, NEW q \in Queues, NEW p \in Queues, p # q,
         WriterStep(q) \/ (\E c \in Conns \cup {Manager} : Send(c, q))
  PROVE  LogState(p)' = LogState(p) /\ last'[p] = last[p] /\ UNCHANGED work
<1>1. /\ sent \in [Queues -> Nat] /\ queue \in Events /\ batch \in Events
      /\ writer \in [Queues -> {"running", "draining", "done"}]
      /\ inserted \in Events /\ dropped \in Events /\ refused \in Events /\ abandoned \in Events
  BY DEF TypeOK
<1>2. CASE \E c \in Conns \cup {Manager} : Send(c, q)
  BY <1>1, <1>2 DEF Send, LogState, Events
<1>3. CASE Receive(q)  BY <1>1, <1>3 DEF Receive, Flush, LogState, Events
<1>4. CASE Tick(q)  BY <1>1, <1>4 DEF Tick, Flush, LogState, Events
<1>5. CASE Notice(q)  BY <1>1, <1>5 DEF Notice, LogState, Events
<1>6. CASE Emptied(q) \/ CutOff(q)
  BY <1>1, <1>6, LeavesQueue DEF Leave, Flush, LogState, Events
<1>7. QED  BY <1>2, <1>3, <1>4, <1>5, <1>6 DEF WriterStep

LEMMA SendLog ==
  ASSUME TypeOK, NEW q \in Queues, LogInv(q), NEW c \in Conns \cup {Manager}, Send(c, q)
  PROVE  TypeOK' /\ LogInv(q)'
<1>1. /\ sent \in [Queues -> Nat] /\ last \in [Queues -> Nat]
      /\ queue \in Events /\ dropped \in Events
  BY DEF TypeOK
<1> DEFINE new == sent[q] + 1
<1>2. new \in Nat \ {0} /\ sent'[q] = new /\ sent' \in [Queues -> Nat]
  BY <1>1 DEF Send
<1>3. \/ queue'[q] = queue[q] \cup {new} /\ dropped'[q] = dropped[q]
      \/ queue'[q] = queue[q] /\ dropped'[q] = dropped[q] \cup {new}
  BY <1>1 DEF Send, Events
<1>4. queue' \in Events /\ dropped' \in Events
  BY <1>1, <1>2 DEF Send, Events
<1>5. TypeOK'  BY <1>2, <1>4 DEF TypeOK, Send, work
<1>6. 1..new = (1..sent[q]) \cup {new} /\ new \notin 1..last[q] /\ sent[q] < new /\ last[q] <= new
  BY <1>1 DEF LogInv, Drained
<1>7. UNCHANGED <<batch, writer, inserted, refused, abandoned, last, signalled>>
  BY DEF Send, work
<1> HIDE DEF new
<1>8. \A n \in 1..sent[q] : n < new  BY <1>1, <1>2, <1>6
<1>9. Numbered(q)'  BY <1>2, <1>3, <1>6, <1>7 DEF LogInv, Numbered
<1>10. InOrder(q)'  BY <1>3, <1>7, <1>8 DEF LogInv, InOrder, Numbered
<1>11. Accounted(q)'  BY <1>2, <1>3, <1>6, <1>7 DEF LogInv, Accounted
<1>12. Drained(q)'
  BY <1>2, <1>3, <1>6, <1>7 DEF LogInv, Drained
<1>13. QED  BY <1>5, <1>9, <1>10, <1>11, <1>12 DEF LogInv

\* What Flush leaves of the batch and of the events.
LEMMA FlushLog ==
  ASSUME TypeOK, NEW q \in Queues, NEW events \in SUBSET (Nat \ {0}), Flush(q, events)
  PROVE  /\ batch' \in Events /\ inserted' \in Events /\ refused' \in Events
         /\ batch'[q] = {}
         /\ inserted'[q] \cup refused'[q] = inserted[q] \cup refused[q] \cup events
         /\ inserted'[q] \subseteq inserted[q] \cup events
<1>1. batch \in Events /\ inserted \in Events /\ refused \in Events  BY DEF TypeOK
<1>2. batch' \in Events /\ batch'[q] = {}  BY <1>1 DEF Flush, Events
<1>3. CASE inserted' = [inserted EXCEPT ![q] = @ \cup events] /\ UNCHANGED refused
  BY <1>1, <1>2, <1>3 DEF Events
<1>4. CASE refused' = [refused EXCEPT ![q] = @ \cup events] /\ UNCHANGED inserted
  BY <1>1, <1>2, <1>4 DEF Events
<1>5. QED  BY <1>3, <1>4 DEF Flush

LEMMA ReceiveLog ==
  ASSUME TypeOK, NEW q \in Queues, LogInv(q), Receive(q)
  PROVE  TypeOK' /\ LogInv(q)'
<1>1. PICK n \in First(queue[q]) :
        /\ queue' = [queue EXCEPT ![q] = @ \ {n}]
        /\ IF Cardinality(batch[q]) + 1 >= BatchLimit[q] THEN Flush(q, batch[q] \cup {n})
           ELSE /\ batch' = [batch EXCEPT ![q] = @ \cup {n}]
                /\ UNCHANGED <<inserted, refused>>
  BY DEF Receive
<1>2. /\ n \in queue[q] /\ n \in Nat \ {0} /\ n \in 1..sent[q]
      /\ \A m \in queue[q] : m \in Nat /\ n <= m
  BY DEF First, TypeOK, Events, LogInv, Numbered
<1>3. queue' \in Events /\ queue'[q] = queue[q] \ {n}
  BY <1>1 DEF TypeOK, Events
<1>4. \/ /\ batch' \in Events /\ inserted' = inserted /\ refused' = refused
         /\ batch'[q] = batch[q] \cup {n}
      \/ Flush(q, batch[q] \cup {n})
  BY <1>1, <1>2 DEF TypeOK, Events
<1>5. /\ batch' \in Events /\ inserted' \in Events /\ refused' \in Events
      /\ \/ /\ batch'[q] = batch[q] \cup {n}
            /\ inserted'[q] = inserted[q] /\ refused'[q] = refused[q]
         \/ /\ batch'[q] = {} /\ inserted'[q] \subseteq inserted[q] \cup batch[q] \cup {n}
            /\ inserted'[q] \cup refused'[q] = inserted[q] \cup refused[q] \cup batch[q] \cup {n}
  <2>1. batch[q] \cup {n} \in SUBSET (Nat \ {0})  BY <1>2 DEF TypeOK, Events
  <2>2. CASE Flush(q, batch[q] \cup {n})  BY <2>1, <2>2, FlushLog
  <2>3. QED  BY <1>4, <2>2 DEF TypeOK
<1>6. UNCHANGED <<work, sent, writer, dropped, abandoned, last>>  BY DEF Receive
<1>7. TypeOK'  BY <1>3, <1>5, <1>6 DEF TypeOK, work
<1>8. \A m \in batch[q] \cup inserted[q] : m < n
  BY <1>2 DEF LogInv, InOrder
<1>9. \A m \in queue'[q] : n < m  BY <1>2, <1>3
<1>10. Numbered(q)'  BY <1>2, <1>3, <1>5, <1>6 DEF LogInv, Numbered
<1>11. InOrder(q)'  BY <1>3, <1>5, <1>8, <1>9 DEF LogInv, InOrder
<1>12. Accounted(q)'  BY <1>3, <1>5, <1>6 DEF LogInv, Accounted
<1>13. Drained(q)'
  BY <1>6 DEF LogInv, Drained, work, Receive
<1>14. QED  BY <1>7, <1>10, <1>11, <1>12, <1>13 DEF LogInv

\* A flush of the whole batch keeps the order and loses no event.
LEMMA FlushAll ==
  ASSUME TypeOK, NEW q \in Queues, LogInv(q), Flush(q, batch[q]),
         UNCHANGED <<sent, queue, dropped>>
  PROVE  Numbered(q)' /\ InOrder(q)' /\ Accounted(q)'
<1>1. batch[q] \in SUBSET (Nat \ {0})  BY DEF TypeOK, Events
<1>2. /\ batch'[q] = {}
      /\ inserted'[q] \cup refused'[q] = inserted[q] \cup refused[q] \cup batch[q]
      /\ inserted'[q] \subseteq inserted[q] \cup batch[q]
  BY <1>1, FlushLog
<1>3. Numbered(q)'  BY <1>2 DEF LogInv, Numbered
<1>4. InOrder(q)'  BY <1>2 DEF LogInv, InOrder
<1>5. Accounted(q)'  BY <1>2 DEF LogInv, Accounted
<1>6. QED  BY <1>3, <1>4, <1>5

LEMMA TickLog ==
  ASSUME TypeOK, NEW q \in Queues, LogInv(q), Tick(q)
  PROVE  TypeOK' /\ LogInv(q)'
<1>1. batch[q] \in SUBSET (Nat \ {0})  BY DEF TypeOK, Events
<1>2. TypeOK'  BY <1>1, FlushLog DEF TypeOK, Tick, work
<1>3. Numbered(q)' /\ InOrder(q)' /\ Accounted(q)'  BY FlushAll DEF Tick
<1>4. Drained(q)'  BY DEF LogInv, Drained, Tick, work
<1>5. QED  BY <1>2, <1>3, <1>4 DEF LogInv

LEMMA NoticeLog ==
  ASSUME TypeOK, NEW q \in Queues, LogInv(q), Notice(q)
  PROVE  TypeOK' /\ LogInv(q)'
<1>1. UNCHANGED <<work, sent, queue, batch, inserted, dropped, refused, abandoned, last>>
  BY DEF Notice
<1>2. /\ writer' \in [Queues -> {"running", "draining", "done"}]
      /\ writer'[q] = "draining" /\ signalled
  BY DEF Notice, TypeOK
<1>3. TypeOK'  BY <1>1, <1>2 DEF TypeOK, work
<1>4. LogInv(q)'
  BY <1>1, <1>2 DEF LogInv, Numbered, InOrder, Accounted, Drained, work
<1>5. QED  BY <1>3, <1>4

LEMMA LeaveLog ==
  ASSUME TypeOK, NEW q \in Queues, LogInv(q), Leave(q, queue[q])
  PROVE  TypeOK' /\ LogInv(q)'
<1>1. batch[q] \in SUBSET (Nat \ {0})  BY DEF TypeOK, Events
<1>2. /\ abandoned' \in Events /\ abandoned'[q] = queue[q]
      /\ writer' \in [Queues -> {"running", "draining", "done"}]
  BY DEF Leave, TypeOK, Events
<1>3. batch'[q] = {}  BY <1>1, FlushLog DEF Leave
<1>4. TypeOK'  BY <1>1, <1>2, FlushLog DEF TypeOK, Leave, work
<1>5. Numbered(q)' /\ InOrder(q)' /\ Accounted(q)'  BY FlushAll DEF Leave
<1>6. Drained(q)'  BY <1>2, <1>3 DEF LogInv, Drained, Leave, work
<1>7. QED  BY <1>4, <1>5, <1>6 DEF LogInv

\* A step on a log keeps the invariant of every log.
LEMMA LogStep ==
  ASSUME IInv, NEW q \in Queues,
         WriterStep(q) \/ (\E c \in Conns \cup {Manager} : Send(c, q))
  PROVE  IInv'
<1>1. TypeOK /\ LogInv(q) /\ SeenOff  BY DEF IInv
<1>2. TypeOK' /\ LogInv(q)'
  BY <1>1, SendLog, ReceiveLog, TickLog, NoticeLog, LeavesQueue, LeaveLog
     DEF WriterStep
<1>3. UNCHANGED work
  <2>1. CASE \E c \in Conns \cup {Manager} : Send(c, q)  BY <2>1 DEF Send
  <2>2. CASE WriterStep(q)  BY <2>2 DEF WriterStep, Receive, Tick, Notice, Emptied, CutOff, Leave
  <2>3. QED  BY <2>1, <2>2
<1>4. ASSUME NEW p \in Queues, p # q  PROVE LogInv(p)'
  <2>1. LogState(p)' = LogState(p) /\ last'[p] = last[p] /\ UNCHANGED signalled
    BY <1>1, <1>3, <1>4, OtherLogs DEF work
  <2>2. LogInv(p)  BY DEF IInv
  <2>3. QED
    BY <2>1, <2>2 DEF LogState, LogInv, Numbered, InOrder, Accounted, Drained
<1>5. SeenOff'  BY <1>1, <1>3 DEF SeenOff, work
<1>6. QED  BY <1>2, <1>4, <1>5 DEF IInv
-----------------------------------------------------------------------------
(* main and the connections *)

\* A step that leaves the logs alone keeps what is known of them.
LEMMA LogsStay ==
  ASSUME IInv, UNCHANGED <<log, last>>, signalled => signalled'
  PROVE  \A q \in Queues : LogInv(q)'
BY DEF IInv, LogInv, Numbered, InOrder, Accounted, Drained, log

LEMMA BecomesStep ==
  ASSUME IInv, NEW c \in Conns \cup {Manager}, NEW new \in Work \cup {"idle", "ended"},
         Becomes(c, new)
  PROVE  /\ TypeOK' /\ (\A q \in Queues : LogInv(q)')
         /\ at'[c] = new /\ \A d \in Conns : d # c => at'[d] = at[d]
         /\ UNCHANGED <<phase, signalled, late, uncounted>>
<1>1. TypeOK  BY DEF IInv
<1>2. at' \in [Conns \cup {Manager} -> Work \cup {"idle", "ended"}] /\ at'[c] = new
      /\ \A d \in Conns : d # c => at'[d] = at[d]
  BY <1>1 DEF Becomes, TypeOK
<1>3. UNCHANGED <<phase, signalled, late, uncounted, log, last>>  BY DEF Becomes
<1>4. TypeOK'  BY <1>1, <1>2, <1>3 DEF TypeOK, log
<1>5. QED  BY <1>2, <1>3, <1>4, LogsStay

LEMMA ConnMove ==
  ASSUME IInv, NEW c \in Conns, Begin(c) \/ Hijack(c) \/ Count(c) \/ Finish(c)
  PROVE  IInv'
<1>1. TypeOK /\ SeenOff  BY DEF IInv
<1>2. PICK new \in {"plain", "admin", "hijacked", "tunnel", "idle"} :
        /\ Becomes(c, new)
        /\ new = "plain" => phase = "serving"
        /\ new = "admin" => phase \in {"serving", "ingress"}
        /\ new = "hijacked" => at[c] = "plain"
        /\ new = "tunnel" => at[c] = "hijacked"
  BY DEF Begin, Hijack, Count, Finish
<1>3. /\ TypeOK' /\ (\A q \in Queues : LogInv(q)')
      /\ at'[c] = new /\ \A d \in Conns : d # c => at'[d] = at[d]
      /\ UNCHANGED <<phase, signalled, late, uncounted>>
  BY <1>2, BecomesStep DEF Work, Requests
<1>4. SeenOff'  BY <1>1, <1>2, <1>3 DEF SeenOff
<1>5. QED  BY <1>3, <1>4 DEF IInv

LEMMA ManagerMove ==
  ASSUME IInv, ManagerEnds
  PROVE  IInv'
<1>1. SeenOff  BY DEF IInv
<1>2. Manager \notin Conns  BY ShutdownAssumption
<1>3. /\ TypeOK' /\ (\A q \in Queues : LogInv(q)')
      /\ \A d \in Conns : d # Manager => at'[d] = at[d]
      /\ UNCHANGED <<phase, signalled, late, uncounted>>
  <2>1. Becomes(Manager, "ended") /\ Manager \in Conns \cup {Manager}  BY DEF ManagerEnds
  <2>2. QED  BY <2>1, BecomesStep
<1>4. SeenOff'  BY <1>1, <1>2, <1>3 DEF SeenOff
<1>5. QED  BY <1>3, <1>4 DEF IInv

LEMMA MainMove ==
  ASSUME IInv, MainStep \/ Kill
  PROVE  IInv'
<1>1. TypeOK /\ SeenOff  BY DEF IInv
<1>2. UNCHANGED <<at, signalled, log, last>> /\ phase' \in Phases
  BY DEF MainStep, StopServing, IngressClosed, AdminClosed, TunnelsWaited, Exit, Kill, Enter,
         Phases
<1>3. late' \in BOOLEAN /\ uncounted' \subseteq Conns
  BY <1>1 DEF MainStep, StopServing, IngressClosed, AdminClosed, TunnelsWaited, Exit, Kill,
              TypeOK
<1>4. TypeOK'  BY <1>1, <1>2, <1>3 DEF TypeOK, log
<1>5. SeenOff'
  <2>1. CASE StopServing  BY <1>1, <2>1 DEF StopServing, Enter, SeenOff
  <2>2. CASE IngressClosed
    <3>1. phase = "ingress" /\ phase' = "admin" /\ UNCHANGED <<at, uncounted>>
          /\ late' = (late \/ \E c \in Conns : at[c] = "plain")
      BY <2>2 DEF IngressClosed, Enter
    <3>2. QED  BY <1>1, <3>1 DEF SeenOff
  <2>3. CASE AdminClosed
    <3>1. phase = "admin" /\ phase' = "tunnels" /\ UNCHANGED <<at, uncounted>>
          /\ late' = (late \/ \E c \in Conns : at[c] = "admin")
      BY <2>3 DEF AdminClosed, Enter
    <3>2. QED  BY <1>1, <3>1 DEF SeenOff
  <2>4. CASE TunnelsWaited
    <3>1. phase = "tunnels" /\ phase' = "writers" /\ UNCHANGED at
          /\ late' = (late \/ \E c \in Conns : at[c] = "tunnel")
          /\ uncounted' = {c \in Conns : at[c] = "hijacked"}
      BY <2>4 DEF TunnelsWaited, Enter
    <3>2. QED  BY <1>1, <3>1 DEF SeenOff
  <2>5. CASE Exit  BY <1>1, <2>5 DEF Exit, Enter, SeenOff
  <2>6. CASE Kill  BY <1>1, <2>6 DEF Kill, Enter, SeenOff
  <2>7. QED  BY <2>1, <2>2, <2>3, <2>4, <2>5, <2>6 DEF MainStep
<1>6. \A q \in Queues : LogInv(q)'  BY <1>2, LogsStay
<1>7. QED  BY <1>4, <1>5, <1>6 DEF IInv

\* Every writer runs when the signal comes.
LEMMA SignalMove ==
  ASSUME IInv, Signal
  PROVE  IInv'
<1>1. TypeOK /\ SeenOff /\ (\A q \in Queues : LogInv(q))  BY DEF IInv
<1>2. /\ ~signalled /\ signalled' = TRUE /\ last' = sent
      /\ UNCHANGED <<at, phase, late, uncounted, log>>
  BY DEF Signal
<1>3. TypeOK'  BY <1>1, <1>2 DEF TypeOK, log
<1>4. SeenOff'  BY <1>1, <1>2 DEF SeenOff
<1>5. ASSUME NEW q \in Queues  PROVE LogInv(q)'
  <2>1. writer[q] = "running" /\ sent[q] \in Nat
    BY <1>1, <1>2 DEF LogInv, Drained, TypeOK
  <2>2. last'[q] = sent'[q] /\ writer'[q] = "running" /\ sent'[q] \in Nat
    BY <1>2, <2>1 DEF log
  <2>3. Drained(q)'  BY <1>2, <2>2 DEF Drained
  <2>4. Numbered(q)' /\ InOrder(q)' /\ Accounted(q)'
    BY <1>1, <1>2 DEF LogInv, Numbered, InOrder, Accounted, log
  <2>5. QED  BY <2>3, <2>4 DEF LogInv
<1>6. QED  BY <1>3, <1>4, <1>5 DEF IInv

-----------------------------------------------------------------------------
LEMMA InitInv == Init => IInv
<1>1. SUFFICES ASSUME Init  PROVE IInv
  OBVIOUS
<1>2. TypeOK  BY <1>1 DEF Init, TypeOK, Events, Phases, Work
<1>3. SeenOff  BY <1>1, ShutdownAssumption DEF Init, SeenOff
<1>4. ASSUME NEW q \in Queues  PROVE LogInv(q)
  BY <1>1 DEF Init, LogInv, Numbered, InOrder, Accounted, Drained
<1>5. QED  BY <1>2, <1>3, <1>4 DEF IInv

LEMMA NextInv == IInv /\ [Next]_vars => IInv'
<1>1. SUFFICES ASSUME IInv, [Next]_vars  PROVE IInv'
  OBVIOUS
<1>2. ASSUME NEW c \in Conns, Begin(c) \/ Hijack(c) \/ Count(c) \/ Finish(c)  PROVE IInv'
  BY <1>1, <1>2, ConnMove
<1>3. CASE ManagerEnds  BY <1>1, <1>3, ManagerMove
<1>4. ASSUME NEW c \in Conns \cup {Manager}, NEW q \in Queues, Send(c, q)  PROVE IInv'
  BY <1>1, <1>4, LogStep
<1>5. ASSUME NEW q \in Queues, WriterStep(q)  PROVE IInv'
  BY <1>1, <1>5, LogStep
<1>6. CASE MainStep \/ Kill  BY <1>1, <1>6, MainMove
<1>7. CASE Signal  BY <1>1, <1>7, SignalMove
<1>8. CASE UNCHANGED vars
  <2>1. TypeOK'  BY <1>1, <1>8 DEF vars, IInv, TypeOK
  <2>2. SeenOff'  BY <1>1, <1>8 DEF vars, IInv, SeenOff
  <2>3. \A q \in Queues : LogInv(q)'  BY <1>1, <1>8, LogsStay DEF vars, log
  <2>4. QED  BY <2>1, <2>2, <2>3 DEF IInv
<1>9. QED  BY <1>1, <1>2, <1>3, <1>4, <1>5, <1>6, <1>7, <1>8 DEF Next, ConnStep

\* The inductive invariant of the queues and of the shutdown.
THEOREM Invariant == Spec => []IInv
BY InitInv, NextInv, PTL DEF Spec

\* Every variable of the model has its type in every state.
THEOREM TypeCorrect == Spec => []TypeOK
<1>1. IInv => TypeOK  BY DEF IInv
<1>2. QED  BY <1>1, Invariant, PTL

\* Whatever the lengths of the channel and of a batch, and whichever transactions
\* fail, the rows of a log are in the order of the events.
THEOREM RowsInOrder == Spec => []EventsInOrder
<1>1. IInv => EventsInOrder  BY DEF IInv, LogInv, InOrder, EventsInOrder
<1>2. QED  BY <1>1, Invariant, PTL

\* However many events wait at the signal, the drain of RunLogWriter and
\* RunUpdateEventWriter leaves none of them behind before its deadline.
THEOREM DrainIsComplete == Spec => []BufferedAreWritten
<1>1. IInv => BufferedAreWritten
  <2>1. SUFFICES ASSUME IInv, NEW q \in Queues, writer[q] = "done", NEW n \in 1..last[q]
                 PROVE  n \in inserted[q] \cup dropped[q] \cup refused[q] \cup abandoned[q]
    BY DEF BufferedAreWritten
  <2>2. Drained(q) /\ Accounted(q)  BY <2>1 DEF IInv, LogInv
  <2>3. last[q] \in Nat /\ sent[q] \in Nat  BY <2>1 DEF IInv, TypeOK
  <2>4. n \in 1..sent[q]  BY <2>1, <2>2, <2>3 DEF Drained
  <2>5. QED  BY <2>1, <2>2, <2>4 DEF Drained, Accounted
<1>2. QED  BY <1>1, Invariant, PTL

\* Whatever the number of requests and tunnels, main leaves behind only those
\* that its deadlines cut off and the connections that are not counted yet.
THEOREM LeavesLast == Spec => []ExitWaits
<1>1. IInv => ExitWaits
  BY DEF IInv, TypeOK, SeenOff, ExitWaits, Work, Requests
<1>2. QED  BY <1>1, Invariant, PTL
=============================================================================
