------------------------- MODULE MarkerSalts_proofs -------------------------
(***************************************************************************)
(* For any number of identities and requests, any capacities and any       *)
(* threshold: the cache and the table keep their types, a salt is paid for *)
(* by failures, a rotation by a run of failures without a success between  *)
(* them, and the table has the salts that nothing excuses.                 *)
(***************************************************************************)
EXTENDS MarkerSalts, TLAPS

RequestType == {Idle} \cup [at : {"out"}, key : Keys] \cup [at : {"send"}, event : Event]

Typed ==
  /\ salt \in [Keys -> Nat]
  /\ failures \in [Keys -> Nat]
  /\ saltCh \in Seq(Event)
  /\ stored \in [Keys -> Nat]
  /\ request \in [Requests -> RequestType]
  /\ failed \in [Keys -> Nat]
  /\ streak \in [Keys -> Nat]

\* The payments of PaidFor, and of the events that still have to be sent.
CachePaid == \A k \in Keys : salt[k] * Threshold + failures[k] <= failed[k]
QueuePaid == \A i \in DOMAIN saltCh : saltCh[i].salt * Threshold <= failed[saltCh[i].key]
TablePaid == \A k \in Keys : stored[k] * Threshold <= failed[k]
SendsPaid ==
  \A r \in Requests : request[r].at = "send" =>
    request[r].event.salt * Threshold <= failed[request[r].event.key]

\* The cache never counts more failures than there were since a success; there
\* are no counts and no requests while no process runs.
Counted == \A k \in Keys : failures[k] <= streak[k]
DownIsEmpty ==
  process = "down" => /\ \A k \in Keys : failures[k] = 0
                      /\ \A r \in Requests : request[r] = Idle

IInv == Typed /\ CachePaid /\ QueuePaid /\ TablePaid /\ SendsPaid /\ Counted /\ DownIsEmpty

-----------------------------------------------------------------------------
\* One more rotation costs what a full count of failures pays.
LEMMA RotationCosts ==
  ASSUME NEW s \in Nat, NEW t \in Nat, NEW n \in Nat, NEW f \in Nat,
         s * t + n <= f, n + 1 >= t
  PROVE  (s + 1) * t <= f + 1
<1>1. (s + 1) * t = s * t + t
  BY SMT
<1>2. s * t \in Nat
  BY SMT
<1> QED BY <1>1, <1>2

\* What an event costs is a number.
LEMMA EventCost ==
  ASSUME NEW e \in Event PROVE e.key \in Keys /\ e.salt * Threshold \in Nat
<1>1. e.key \in Keys /\ e.salt \in Nat
  BY DEF Event
<1>2. \A s, t \in Nat : s * t \in Nat
  BY SMT
<1> QED BY <1>1, <1>2, SaltAssumption

\* Only a request that rotated has an event.
LEMMA SendShape ==
  ASSUME NEW q \in RequestType, q.at = "send" PROVE q.event \in Event
<1>1. q # Idle
  BY DEF Idle
<1>2. q \notin [at : {"out"}, key : Keys]
  OBVIOUS
<1>3. q \in [at : {"send"}, event : Event]
  BY <1>1, <1>2 DEF RequestType
<1> QED BY <1>3

\* Add sets one identity and leaves or forgets the others.
LEMMA AddEffect ==
  ASSUME Typed, NEW k \in Keys, NEW s \in Nat, NEW n \in Nat, Add(k, s, n)
  PROVE  /\ salt' \in [Keys -> Nat]
         /\ failures' \in [Keys -> Nat]
         /\ salt'[k] = s /\ failures'[k] = n
         /\ \A j \in Keys \ {k} : \/ salt'[j] = salt[j] /\ failures'[j] = failures[j]
                                  \/ salt'[j] = 0 /\ failures'[j] = 0
<1> DEFINE in == Elements(Kept(k))
<1>1. /\ salt' = [j \in Keys |-> IF j = k THEN s ELSE IF j \in in THEN salt[j] ELSE 0]
      /\ failures' = [j \in Keys |-> IF j = k THEN n ELSE IF j \in in THEN failures[j] ELSE 0]
  BY DEF Add
<1> HIDE DEF in
<1> QED BY <1>1 DEF Typed

\* A failure advances the salt by one if it completes the count, else the count.
LEMMA RecordFailureEffect ==
  ASSUME Typed, NEW k \in Keys, RecordFailure(k)
  PROVE  /\ salt' \in [Keys -> Nat] /\ failures' \in [Keys -> Nat]
         /\ Rotates(k) => salt'[k] = salt[k] + 1 /\ failures'[k] = 0
         /\ ~Rotates(k) => salt'[k] = salt[k] /\ failures'[k] = failures[k] + 1
         /\ \A j \in Keys \ {k} : \/ salt'[j] = salt[j] /\ failures'[j] = failures[j]
                                  \/ salt'[j] = 0 /\ failures'[j] = 0
<1>1. salt[k] \in Nat /\ failures[k] \in Nat /\ salt[k] + 1 \in Nat /\ failures[k] + 1 \in Nat
  BY DEF Typed
<1>2. CASE Rotates(k)
  <2>1. Add(k, salt[k] + 1, 0)
    BY <1>2 DEF RecordFailure
  <2> QED BY <1>1, <1>2, <2>1, AddEffect
<1>3. CASE ~Rotates(k)
  <2>1. Add(k, salt[k], failures[k] + 1)
    BY <1>3 DEF RecordFailure
  <2> QED BY <1>1, <1>3, <2>1, AddEffect
<1> QED BY <1>2, <1>3

LEMMA InitHolds == Init => IInv
<1> SUFFICES ASSUME Init PROVE IInv
  OBVIOUS
<1>1. Typed
  BY DEF Init, Typed, RequestType
<1>2. Threshold \in Nat /\ 0 * Threshold = 0
  BY SaltAssumption, SMT
<1>3. CachePaid /\ QueuePaid /\ TablePaid /\ SendsPaid /\ Counted /\ DownIsEmpty
  BY <1>2, SMT DEF Init, CachePaid, QueuePaid, TablePaid, SendsPaid, Counted, DownIsEmpty, Idle
<1> QED BY <1>1, <1>3 DEF IInv

-----------------------------------------------------------------------------
\* A failure: what it adds to the history pays for what it adds to the salt.
LEMMA FailKeeps ==
  ASSUME IInv, NEW r \in Requests, Fail(r) PROVE IInv'
<1> DEFINE k == request[r].key
           e == [key |-> k, salt |-> salt[k] + 1]
<1> USE SaltAssumption DEF IInv
<1>1. request[r] \in RequestType /\ request[r].at = "out" /\ k \in Keys
  BY DEF Fail, Typed, RequestType, Idle
<1>2. /\ RecordFailure(k)
      /\ failed' = [failed EXCEPT ![k] = @ + 1]
      /\ streak' = [streak EXCEPT ![k] = @ + 1]
      /\ saltCh' = saltCh /\ stored' = stored /\ process' = process
      /\ request' = [request EXCEPT ![r] = IF Rotates(k) /\ writer # "none"
                                           THEN [at |-> "send", event |-> e] ELSE Idle]
  BY DEF Fail, table
<1>3. e \in Event /\ e.key = k /\ e.salt = salt[k] + 1
  BY <1>1 DEF Event, Typed
<1> HIDE DEF k, e
<1>4. /\ salt' \in [Keys -> Nat] /\ failures' \in [Keys -> Nat]
      /\ Rotates(k) => salt'[k] = salt[k] + 1 /\ failures'[k] = 0
      /\ ~Rotates(k) => salt'[k] = salt[k] /\ failures'[k] = failures[k] + 1
      /\ \A j \in Keys \ {k} : \/ salt'[j] = salt[j] /\ failures'[j] = failures[j]
                               \/ salt'[j] = 0 /\ failures'[j] = 0
  BY <1>1, <1>2, RecordFailureEffect
<1>5. Typed'
  <2>1. request' \in [Requests -> RequestType]
    BY <1>2, <1>3 DEF Typed, RequestType
  <2>2. failed' \in [Keys -> Nat] /\ streak' \in [Keys -> Nat]
    BY <1>1, <1>2 DEF Typed
  <2>3. saltCh' \in Seq(Event) /\ stored' \in [Keys -> Nat]
    BY <1>2 DEF Typed
  <2> QED BY <1>4, <2>1, <2>2, <2>3 DEF Typed
<1>6. /\ failed'[k] = failed[k] + 1 /\ streak'[k] = streak[k] + 1
      /\ \A j \in Keys \ {k} : failed'[j] = failed[j] /\ streak'[j] = streak[j]
      /\ \A j \in Keys : failed'[j] \in Nat /\ failed[j] \in Nat /\ failed[j] <= failed'[j]
  BY <1>1, <1>2 DEF Typed
<1>7. Rotates(k) => (salt[k] + 1) * Threshold <= failed'[k]
  <2>1. Rotates(k) => failures[k] + 1 >= Threshold
    BY DEF Rotates
  <2>2. /\ salt[k] * Threshold + failures[k] <= failed[k]
        /\ salt[k] \in Nat /\ failures[k] \in Nat /\ failed[k] \in Nat /\ Threshold \in Nat
    BY <1>1 DEF CachePaid, Typed
  <2> QED BY <1>6, <2>1, <2>2, RotationCosts
<1>8. CachePaid'
  <2> SUFFICES ASSUME NEW j \in Keys PROVE (salt[j] * Threshold + failures[j] <= failed[j])'
    BY DEF CachePaid
  <2>1. CASE j = k /\ Rotates(k)
    BY <1>4, <1>7, <2>1, <1>6, SMT
  <2>2. CASE j = k /\ ~Rotates(k)
    <3>1. salt[k] * Threshold + failures[k] <= failed[k] /\ salt[k] * Threshold \in Nat
          /\ failures[k] \in Nat
      BY <1>1, SMT DEF CachePaid, Typed
    <3> DEFINE c == salt[k] * Threshold
    <3>2. c + failures[k] <= failed[k] /\ c \in Nat /\ (salt[j] * Threshold)' = c
      BY <3>1, <1>4, <2>2
    <3> HIDE DEF c
    <3> QED BY <3>1, <3>2, <1>4, <2>2, <1>6
  <2>3. CASE j # k
    <3>1. CASE salt'[j] = salt[j] /\ failures'[j] = failures[j]
      <4> DEFINE c == salt[j] * Threshold
      <4>1. c \in Nat /\ failures[j] \in Nat /\ c + failures[j] <= failed[j]
        BY SMT DEF CachePaid, Typed
      <4> HIDE DEF c
      <4>2. c + failures[j] <= failed'[j]
        BY <4>1, <1>6
      <4> QED BY <3>1, <4>2 DEF c
    <3>2. CASE salt'[j] = 0 /\ failures'[j] = 0
      <4>1. 0 * Threshold + 0 = 0
        BY SMT
      <4> QED BY <3>2, <4>1, <1>6
    <3> QED BY <3>1, <3>2, <1>4, <2>3
  <2> QED BY <2>1, <2>2, <2>3
<1>9. QueuePaid'
  <2> SUFFICES ASSUME NEW i \in DOMAIN saltCh
               PROVE  (saltCh[i].salt * Threshold)  <= failed'[saltCh[i].key]
    BY <1>2 DEF QueuePaid
  <2> DEFINE c == saltCh[i].salt * Threshold
             x == saltCh[i].key
  <2>1. c \in Nat /\ x \in Keys /\ c <= failed[x]
    <3>1. saltCh[i] \in Event
      BY DEF Typed
    <3> QED BY <3>1, EventCost DEF QueuePaid
  <2> HIDE DEF c, x
  <2>2. c <= failed'[x]
    BY <2>1, <1>6
  <2> QED BY <2>2 DEF c, x
<1>10. TablePaid'
  <2> SUFFICES ASSUME NEW j \in Keys PROVE stored[j] * Threshold <= failed'[j]
    BY <1>2 DEF TablePaid
  <2> DEFINE c == stored[j] * Threshold
  <2>1. c \in Nat /\ c <= failed[j]
    BY SMT DEF TablePaid, Typed
  <2> HIDE DEF c
  <2>2. c <= failed'[j]
    BY <2>1, <1>6
  <2> QED BY <2>2 DEF c
<1>11. SendsPaid'
  <2> SUFFICES ASSUME NEW q \in Requests, request'[q].at = "send"
               PROVE  request'[q].event.salt * Threshold <= failed'[request'[q].event.key]
    BY DEF SendsPaid
  <2>1. CASE q = r
    <3>1. Rotates(k) /\ request'[q].event = e
      BY <1>2, <2>1 DEF Idle, Typed
    <3> QED BY <3>1, <1>3, <1>7
  <2>2. CASE q # r
    <3> DEFINE c == request[q].event.salt * Threshold
               x == request[q].event.key
    <3>1. request'[q] = request[q] /\ request[q].at = "send"
      BY <1>2, <2>2 DEF Typed
    <3>2. request[q].event \in Event
      BY <3>1, SendShape DEF Typed
    <3>3. c \in Nat /\ x \in Keys /\ c <= failed[x]
      BY <3>1, <3>2, EventCost DEF SendsPaid
    <3> HIDE DEF c, x
    <3>4. c <= failed'[x]
      BY <3>3, <1>6
    <3> QED BY <3>1, <3>4 DEF c, x
  <2> QED BY <2>1, <2>2
<1>12. Counted'
  <2> SUFFICES ASSUME NEW j \in Keys PROVE failures'[j] <= streak'[j]
    BY DEF Counted
  <2>1. failures[j] <= streak[j] /\ failures[j] \in Nat /\ streak[j] \in Nat
    BY DEF Counted, Typed
  <2>2. CASE j = k
    BY <1>4, <1>6, <2>1, <2>2
  <2>3. CASE j # k
    BY <1>4, <1>6, <2>1, <2>3
  <2> QED BY <2>2, <2>3
<1>13. DownIsEmpty'
  BY <1>1, <1>2 DEF DownIsEmpty, Idle
<1> QED BY <1>5, <1>8, <1>9, <1>10, <1>11, <1>12, <1>13

-----------------------------------------------------------------------------
\* The other steps pay nothing and earn nothing: cache, queue and table receive
\* only what one of them already held.
LEMMA RouteKeeps ==
  ASSUME IInv, NEW r \in Requests, NEW k \in Keys, Route(r, k) PROVE IInv'
<1>1. /\ request[r] = Idle /\ process # "down" /\ process' = process
      /\ request' = [request EXCEPT ![r] = [at |-> "out", key |-> k]]
      /\ UNCHANGED <<salt, failures, saltCh, stored, failed, streak>>
  BY DEF Route, table, history
<1>2. Typed'
  BY <1>1 DEF IInv, Typed, RequestType
<1>3. SendsPaid'
  BY <1>1 DEF IInv, Typed, SendsPaid
<1> QED BY <1>1, <1>2, <1>3
        DEF IInv, CachePaid, QueuePaid, TablePaid, Counted, DownIsEmpty

LEMMA SucceedKeeps ==
  ASSUME IInv, NEW r \in Requests, Succeed(r) PROVE IInv'
<1> DEFINE k == request[r].key
<1>1. k \in Keys /\ request[r] # Idle
  BY DEF IInv, Typed, RequestType, Idle, Succeed
<1>2. /\ request' = [request EXCEPT ![r] = Idle] /\ process' = process
      /\ failures' = [failures EXCEPT ![k] = 0] /\ streak' = [streak EXCEPT ![k] = 0]
      /\ UNCHANGED <<salt, saltCh, stored, failed>>
  BY DEF Succeed, ClearFailures, table
<1> HIDE DEF k
<1>3. Typed'
  BY <1>1, <1>2 DEF IInv, Typed, RequestType
<1>4. SendsPaid'
  BY <1>2 DEF IInv, Typed, SendsPaid, Idle
<1>5. CachePaid'
  <2> SUFFICES ASSUME NEW j \in Keys PROVE salt[j] * Threshold + failures'[j] <= failed[j]
    BY <1>2 DEF CachePaid
  <2> DEFINE c == salt[j] * Threshold
  <2>1. salt[j] \in Nat /\ Threshold \in Nat /\ \A s, t \in Nat : s * t \in Nat
    BY SaltAssumption, SMT DEF IInv, Typed
  <2>2. /\ c \in Nat /\ c + failures[j] <= failed[j]
        /\ failures[j] \in Nat /\ failed[j] \in Nat
    BY <2>1 DEF IInv, Typed, CachePaid
  <2>3. failures'[j] \in Nat /\ failures'[j] <= failures[j]
    BY <1>2, <2>2 DEF IInv, Typed
  <2> HIDE DEF c
  <2>4. c + failures'[j] <= failed[j]
    BY <2>2, <2>3
  <2> QED BY <2>4 DEF c
<1>6. Counted'
  BY <1>1, <1>2 DEF IInv, Typed, Counted
<1>7. QueuePaid' /\ TablePaid' /\ DownIsEmpty'
  BY <1>1, <1>2 DEF IInv, QueuePaid, TablePaid, DownIsEmpty
<1> QED BY <1>3, <1>4, <1>5, <1>6, <1>7 DEF IInv

LEMMA SendKeeps ==
  ASSUME IInv, NEW r \in Requests, Send(r) PROVE IInv'
<1> DEFINE e == request[r].event
<1>1. /\ request[r].at = "send" /\ request' = [request EXCEPT ![r] = Idle]
      /\ saltCh' = Append(saltCh, e) \/ saltCh' = saltCh
      /\ UNCHANGED <<salt, failures, stored, process, failed, streak>>
  BY DEF Send, cache, table
<1>2. e \in Event /\ e.salt * Threshold <= failed[e.key]
  BY <1>1, SendShape DEF IInv, Typed, SendsPaid
<1> HIDE DEF e
<1>3. Typed'
  <2>1. request' \in [Requests -> RequestType]
    BY <1>1 DEF IInv, Typed, RequestType
  <2>2. saltCh \in Seq(Event)
    BY DEF IInv, Typed
  <2>3. Append(saltCh, e) \in Seq(Event)
    BY <1>2, <2>2
  <2> QED BY <1>1, <2>1, <2>2, <2>3 DEF IInv, Typed
<1>4. QueuePaid'
  <2>1. CASE saltCh' = Append(saltCh, e)
    <3> SUFFICES ASSUME NEW i \in DOMAIN Append(saltCh, e)
                 PROVE  LET x == Append(saltCh, e)[i] IN x.salt * Threshold <= failed[x.key]
      BY <1>1, <2>1 DEF QueuePaid
    <3>1. Append(saltCh, e)[i] = e \/ \E j \in DOMAIN saltCh : Append(saltCh, e)[i] = saltCh[j]
      BY <1>2 DEF IInv, Typed
    <3> QED BY <1>2, <3>1 DEF IInv, QueuePaid
  <2>2. CASE saltCh' = saltCh
    BY <1>1, <2>2 DEF IInv, QueuePaid
  <2> QED BY <1>1, <2>1, <2>2
<1>5. SendsPaid'
  BY <1>1 DEF IInv, Typed, SendsPaid, Idle
<1>6. DownIsEmpty'
  BY <1>1 DEF IInv, DownIsEmpty, Idle
<1>7. CachePaid' /\ TablePaid' /\ Counted'
  BY <1>1 DEF IInv, CachePaid, TablePaid, Counted
<1> QED BY <1>3, <1>4, <1>5, <1>6, <1>7 DEF IInv

\* The writer takes the head of the queue and may write it to the table.
LEMMA TakeKeeps ==
  ASSUME IInv, saltCh # <<>>, saltCh' = Tail(saltCh),
         \/ stored' = stored
         \/ stored' = [stored EXCEPT ![Head(saltCh).key] = Head(saltCh).salt],
         UNCHANGED <<salt, failures, request, process, failed, streak>>
  PROVE  IInv'
<1> DEFINE e == Head(saltCh)
<1>1. /\ e \in Event /\ e.key \in Keys /\ e.salt \in Nat
      /\ e.salt * Threshold <= failed[e.key]
  <2>1. saltCh \in Seq(Event) /\ 1 \in DOMAIN saltCh /\ e = saltCh[1]
    BY DEF IInv, Typed
  <2>2. e \in Event
    BY <2>1
  <2> QED BY <2>1, <2>2 DEF IInv, QueuePaid, Event
<1>2. Typed'
  <2>1. stored' \in [Keys -> Nat]
    BY <1>1 DEF IInv, Typed
  <2>2. saltCh' \in Seq(Event)
    BY DEF IInv, Typed
  <2> QED BY <2>1, <2>2 DEF IInv, Typed
<1>3. QueuePaid'
  <2> SUFFICES ASSUME NEW i \in DOMAIN Tail(saltCh)
               PROVE  LET x == Tail(saltCh)[i] IN x.salt * Threshold <= failed[x.key]
    BY DEF QueuePaid
  <2>1. i + 1 \in DOMAIN saltCh /\ Tail(saltCh)[i] = saltCh[i + 1]
    BY DEF IInv, Typed
  <2> QED BY <2>1 DEF IInv, QueuePaid
<1> HIDE DEF e
<1>4. TablePaid'
  BY <1>1 DEF IInv, Typed, TablePaid, e
<1> QED BY <1>2, <1>3, <1>4 DEF IInv, CachePaid, SendsPaid, Counted, DownIsEmpty

\* Steps of main and of the writer that end something.
LEMMA LifeKeeps ==
  ASSUME IInv, Drained \/ GiveUp \/ Signal PROVE IInv'
<1>1. /\ UNCHANGED <<salt, failures, saltCh, stored, request, failed, streak>>
      /\ process' = "down" => process = "down"
  BY DEF Drained, GiveUp, Signal, cache, table, history
<1> QED BY <1>1 DEF IInv, Typed, CachePaid, QueuePaid, TablePaid, SendsPaid, Counted, DownIsEmpty

\* A process that ends forgets the cache, the queue and the requests.
LEMMA GoneKeeps ==
  ASSUME IInv, Gone PROVE IInv'
<1>1. /\ salt' = [k \in Keys |-> 0] /\ failures' = [k \in Keys |-> 0]
      /\ saltCh' = <<>> /\ request' = [r \in Requests |-> Idle]
      /\ UNCHANGED <<stored, failed, streak>>
  BY DEF Gone, table
<1>2. 0 * Threshold + 0 = 0
  BY SaltAssumption, SMT
<1>3. Typed'
  BY <1>1 DEF IInv, Typed, RequestType
<1>4. CachePaid' /\ QueuePaid' /\ SendsPaid' /\ Counted' /\ DownIsEmpty'
  BY <1>1, <1>2 DEF IInv, Typed, CachePaid, QueuePaid, SendsPaid, Counted, DownIsEmpty, Idle
<1> QED BY <1>1, <1>3, <1>4 DEF IInv, TablePaid

\* The next process starts with salts of the table.
LEMMA StartKeeps ==
  ASSUME IInv, Start PROVE IInv'
<1> DEFINE in == Elements(Newest(order))
<1>1. /\ process = "down" /\ process' = "up"
      /\ salt' = [k \in Keys |-> IF k \in in THEN stored[k] ELSE 0]
      /\ UNCHANGED <<failures, saltCh, stored, request, failed, streak>>
  BY DEF Start, table
<1> HIDE DEF in
<1>2. Typed'
  BY <1>1 DEF IInv, Typed
<1>3. CachePaid'
  <2> SUFFICES ASSUME NEW j \in Keys PROVE salt'[j] * Threshold + failures[j] <= failed[j]
    BY <1>1 DEF CachePaid
  <2>1. failures[j] = 0
    BY <1>1 DEF IInv, DownIsEmpty
  <2>2. salt'[j] * Threshold <= failed[j] /\ salt'[j] * Threshold \in Nat
    <3>1. \A s, t \in Nat : s * t \in Nat
      BY SMT
    <3>2. 0 * Threshold = 0 /\ Threshold \in Nat
      BY SaltAssumption, SMT
    <3>3. stored[j] * Threshold <= failed[j] /\ stored[j] \in Nat /\ failed[j] \in Nat
      BY DEF IInv, TablePaid, Typed
    <3>4. salt'[j] = stored[j] \/ salt'[j] = 0
      BY <1>1
    <3> QED BY <3>1, <3>2, <3>3, <3>4
  <2> DEFINE c == salt'[j] * Threshold
  <2> HIDE DEF c
  <2>3. c \in Nat /\ c <= failed[j]
    BY <2>2 DEF c
  <2>4. c + failures[j] <= failed[j]
    BY <2>1, <2>3
  <2> QED BY <2>4 DEF c
<1> QED BY <1>1, <1>2, <1>3 DEF IInv, QueuePaid, TablePaid, SendsPaid, Counted, DownIsEmpty

LEMMA StartCleanKeeps ==
  ASSUME IInv, StartClean PROVE IInv'
<1>1. /\ process' = "up"
      /\ UNCHANGED <<salt, failures, saltCh, stored, request, failed, streak>>
  BY DEF StartClean, cache, table
<1> QED BY <1>1 DEF IInv, Typed, CachePaid, QueuePaid, TablePaid, SendsPaid, Counted, DownIsEmpty

LEMMA StepKeeps == IInv /\ [Next]_vars => IInv'
<1> SUFFICES ASSUME IInv, [Next]_vars PROVE IInv'
  OBVIOUS
<1>1. ASSUME NEW r \in Requests, NEW k \in Keys, Route(r, k) PROVE IInv'
  BY <1>1, RouteKeeps
<1>2. ASSUME NEW r \in Requests, Succeed(r) PROVE IInv'
  BY <1>2, SucceedKeeps
<1>3. ASSUME NEW r \in Requests, Fail(r) PROVE IInv'
  BY <1>3, FailKeeps
<1>4. ASSUME NEW r \in Requests, Send(r) PROVE IInv'
  BY <1>4, SendKeeps
<1>5. CASE Persist \/ PersistFails
  BY <1>5, TakeKeeps DEF Persist, PersistFails, Upsert, cache, table, history
<1>6. CASE Drained \/ GiveUp \/ Signal
  BY <1>6, LifeKeeps
<1>7. CASE Exit \/ Crash
  BY <1>7, GoneKeeps DEF Exit, Crash
<1>8. CASE Start
  BY <1>8, StartKeeps
<1>9. CASE StartClean
  BY <1>9, StartCleanKeeps
<1>10. CASE UNCHANGED vars
  BY <1>10 DEF vars, IInv, Typed, CachePaid, QueuePaid, TablePaid, SendsPaid, Counted, DownIsEmpty
<1> QED BY <1>1, <1>2, <1>3, <1>4, <1>5, <1>6, <1>7, <1>8, <1>9, <1>10 DEF Next, WriterStep

-----------------------------------------------------------------------------
\* The inductive invariant: what cache, queue, table and unsent events hold is
\* paid for, and the cache counts no failure from before the last success.
THEOREM Invariant == Spec => []IInv
<1> QED BY InitHolds, StepKeeps, PTL DEF Spec

\* In every reachable state a salt has cost Threshold failures for each of its
\* rotations (recordUnusableIdentity, RunMarkerSaltWriter, AttachMarkerSaltStore).
THEOREM SaltsArePaidFor == Spec => []PaidFor
<1>1. IInv => PaidFor
  BY DEF IInv, PaidFor, CachePaid, QueuePaid, TablePaid
<1> QED BY <1>1, Invariant, PTL

\* Only a run of at least Threshold failures without a success of the identity
\* rotates its salt (RecordFailure, ClearFailures).
THEOREM RotationsAreEarned == Spec => RotationEarned
<1> DEFINE A == process = "down" \/ \A k \in Keys : salt'[k] > salt[k] => streak'[k] >= Threshold
<1>1. IInv /\ [Next]_vars => [A]_vars
  <2> SUFFICES ASSUME IInv, Next, process # "down" PROVE A
    OBVIOUS
  <2>1. \A k \in Keys : salt[k] \in Nat /\ ~(salt[k] > salt[k]) /\ ~(0 > salt[k])
    BY DEF IInv, Typed
  <2>2. ASSUME NEW r \in Requests, Fail(r) PROVE A
    <3> DEFINE k == request[r].key
    <3>1. k \in Keys /\ RecordFailure(k) /\ streak' = [streak EXCEPT ![k] = @ + 1]
      <4>1. request[r] \in RequestType /\ request[r].at = "out"
        BY <2>2 DEF Fail, IInv, Typed
      <4>2. k \in Keys
        BY <4>1 DEF RequestType, Idle
      <4> QED BY <2>2, <4>2 DEF Fail
    <3> HIDE DEF k
    <3>2. /\ ~Rotates(k) => salt'[k] = salt[k]
          /\ \A j \in Keys \ {k} : salt'[j] = salt[j] \/ salt'[j] = 0
      BY <3>1, RecordFailureEffect DEF IInv
    <3>3. Rotates(k) => streak'[k] >= Threshold
      BY <3>1, SaltAssumption DEF Rotates, IInv, Typed, Counted
    <3> QED BY <2>1, <3>1, <3>2, <3>3
  <2>3. CASE \E r \in Requests : Fail(r)
    BY <2>2, <2>3
  <2>4. CASE UNCHANGED salt
    BY <2>1, <2>4
  <2>5. CASE Gone
    BY <2>1, <2>5 DEF Gone
  <2>6. (\E r \in Requests : Fail(r)) \/ UNCHANGED salt \/ Gone
    BY DEF Next, WriterStep, Route, Succeed, ClearFailures, Send, Persist, PersistFails, Drained,
           GiveUp, Signal, Exit, Crash, Start, StartClean, cache
  <2> QED BY <2>3, <2>4, <2>5, <2>6
<1> QED BY <1>1, Invariant, PTL DEF Spec, RotationEarned
(***************************************************************************)
(* Types: the recency list of the cache and the order of the table have no *)
(* identity twice.                                                         *)
(***************************************************************************)
Distinct(seq) == \A i, j \in DOMAIN seq : seq[i] = seq[j] => i = j

CacheType ==
  /\ recent \in Seq(Keys) /\ Len(recent) <= Capacity /\ Distinct(recent)
  /\ salt \in [Keys -> Nat] /\ failures \in [Keys -> 0..Threshold - 1]
  /\ \A k \in Keys \ Cached : salt[k] = 0 /\ failures[k] = 0

TableType ==
  /\ stored \in [Keys -> Nat] /\ order \in Seq(Keys) /\ Distinct(order)
  /\ Elements(order) = {k \in Keys : stored[k] > 0}

OtherType ==
  /\ saltCh \in Seq(Event) /\ Len(saltCh) <= QueueCapacity
  /\ request \in [Requests -> RequestType]
  /\ process \in {"up", "stopping", "down"} /\ writer \in {"running", "done", "none"}
  /\ starts \in 1..MaxStarts
  /\ failed \in [Keys -> Nat] /\ streak \in [Keys -> Nat]
  /\ \A k \in Keys : streak[k] <= failed[k] /\ failed[k] <= MaxFailures[k]
  /\ excused \subseteq Keys

LEMMA TypeParts ==
  /\ TypeOK <=> CacheType /\ TableType /\ OtherType
  /\ TypeOK' <=> CacheType' /\ TableType' /\ OtherType'
BY DEF TypeOK, CacheType, TableType, OtherType, Distinct, RequestType, Cached, Elements

\* Where k is, or the place behind all others.
LEMMA PlaceFacts ==
  ASSUME NEW k \in Keys, NEW seq \in Seq(Keys), Distinct(seq)
  PROVE  /\ Place(k, seq) \in 1..Len(seq) + 1
         /\ k \in Elements(seq) => Place(k, seq) \in DOMAIN seq /\ seq[Place(k, seq)] = k
         /\ k \notin Elements(seq) => Place(k, seq) = Len(seq) + 1
         /\ DOMAIN seq \cup {Place(k, seq)} =
              1..(IF k \in Elements(seq) THEN Len(seq) ELSE Len(seq) + 1)
<1>1. CASE k \in Elements(seq)
  <2>1. \E i \in DOMAIN seq : seq[i] = k  BY <1>1 DEF Elements
  <2>2. Place(k, seq) \in DOMAIN seq /\ seq[Place(k, seq)] = k  BY <1>1, <2>1 DEF Place
  <2>3. QED  BY <1>1, <2>2
<1>2. CASE k \notin Elements(seq)  BY <1>2 DEF Place
<1>3. QED  BY <1>1, <1>2

LEMMA FrontFacts ==
  ASSUME NEW k \in Keys, NEW seq \in Seq(Keys), Distinct(seq)
  PROVE  LET new == MoveToFront(k, seq)
         IN  /\ new \in Seq(Keys) /\ Distinct(new) /\ Len(new) >= 1 /\ new[1] = k
             /\ Elements(new) = Elements(seq) \cup {k}
             /\ k \in Elements(seq) => Len(new) = Len(seq)
<1> DEFINE new == MoveToFront(k, seq)
           at == Place(k, seq)
           n == IF k \in Elements(seq) THEN Len(seq) ELSE Len(seq) + 1
<1>1. /\ at \in 1..n /\ at \in Nat
      /\ k \in Elements(seq) => at \in DOMAIN seq /\ seq[at] = k
      /\ k \notin Elements(seq) => at = Len(seq) + 1
      /\ n \in Nat /\ n >= 1
      /\ Len(seq) \in Nat /\ DOMAIN seq = 1..Len(seq)
  BY PlaceFacts
<1>2. new = [i \in 1..n |-> IF i = 1 THEN k ELSE IF i <= at THEN seq[i - 1] ELSE seq[i]]
  BY PlaceFacts DEF MoveToFront
<1>3. ASSUME NEW i \in 1..n, i # 1, i <= at
      PROVE  i - 1 \in DOMAIN seq /\ new[i] = seq[i - 1] /\ i - 1 # at
  BY <1>1, <1>2, <1>3
<1>4. ASSUME NEW i \in 1..n, i > at, i # 1
      PROVE  i \in DOMAIN seq /\ new[i] = seq[i] /\ k \in Elements(seq)
  BY <1>1, <1>2, <1>4
<1>5. new[1] = k  BY <1>1, <1>2
<1> HIDE DEF at, n
<1>6. DOMAIN new = 1..n  BY <1>2
<1>7. ASSUME NEW i \in 1..n  PROVE new[i] \in Keys
  <2>1. CASE i = 1  BY <2>1, <1>5
  <2>2. CASE i # 1 /\ i <= at  BY <2>2, <1>3
  <2>3. CASE i # 1 /\ i > at  BY <2>3, <1>4
  <2>4. QED  BY <1>1, <2>1, <2>2, <2>3
<1>8. new \in Seq(Keys) /\ Len(new) = n
  <2>1. new \in [1..n -> Keys]  BY <1>2, <1>7
  <2>2. QED  BY <1>1, <2>1
<1> HIDE DEF new
\* Where an element of seq has gone.
<1>9. \A i \in DOMAIN seq : i # at => seq[i] # k
  BY <1>1 DEF Distinct, Elements
<1>10. Distinct(new)
  <2>1. SUFFICES ASSUME NEW i \in 1..n, NEW j \in 1..n, i < j  PROVE new[i] # new[j]
    BY <1>1, <1>6 DEF Distinct
  <2>2. j # 1  BY <2>1
  <2>3. CASE i = 1
    <3>1. CASE j <= at  BY <1>3, <1>5, <1>9, <2>2, <2>3, <3>1
    <3>2. CASE j > at  BY <1>1, <1>4, <1>5, <1>9, <2>2, <2>3, <3>2
    <3>3. QED  BY <1>1, <3>1, <3>2
  <2>4. CASE i # 1
    <3>1. CASE j <= at
      <4>1. i <= at  BY <1>1, <2>1, <3>1
      <4>2. QED  BY <1>3, <2>1, <2>2, <2>4, <3>1, <4>1 DEF Distinct
    <3>2. CASE i <= at /\ j > at
      <4>1. new[i] = seq[i - 1] /\ i - 1 \in DOMAIN seq  BY <1>3, <2>4, <3>2
      <4>2. new[j] = seq[j] /\ j \in DOMAIN seq  BY <1>4, <2>2, <3>2
      <4>3. QED  BY <2>1, <4>1, <4>2 DEF Distinct
    <3>3. CASE i > at  BY <1>1, <1>4, <2>1, <2>2, <2>4, <3>3 DEF Distinct
    <3>4. QED  BY <1>1, <3>1, <3>2, <3>3
  <2>5. QED  BY <2>3, <2>4
<1>11. Elements(new) \subseteq Elements(seq) \cup {k}
  <2>1. SUFFICES ASSUME NEW i \in 1..n  PROVE new[i] \in Elements(seq) \cup {k}
    BY <1>6 DEF Elements
  <2>2. CASE i = 1  BY <1>5, <2>2
  <2>3. CASE i # 1 /\ i <= at  BY <1>3, <2>3 DEF Elements
  <2>4. CASE i # 1 /\ i > at  BY <1>4, <2>4 DEF Elements
  <2>5. QED  BY <1>1, <2>2, <2>3, <2>4
<1>12. ASSUME NEW i \in DOMAIN seq  PROVE seq[i] \in Elements(new)
  <2>1. CASE i = at
    <3>1. seq[i] = k  BY <1>1, <2>1 DEF n
    <3>2. QED  BY <1>1, <1>5, <1>6, <3>1 DEF Elements
  <2>2. CASE i < at
    <3>1. i + 1 \in 1..n /\ i + 1 # 1 /\ i + 1 <= at /\ (i + 1) - 1 = i  BY <1>1, <2>2
    <3>2. new[i + 1] = seq[i]  BY <1>3, <3>1
    <3>3. QED  BY <1>6, <3>1, <3>2 DEF Elements
  <2>3. CASE i > at
    <3>1. i \in 1..n /\ i # 1  BY <1>1, <2>3 DEF n
    <3>2. QED  BY <1>4, <1>6, <2>3, <3>1 DEF Elements
  <2>4. QED  BY <1>1, <2>1, <2>2, <2>3
<1>13. Elements(new) = Elements(seq) \cup {k}
  <2>1. k \in Elements(new)  BY <1>1, <1>5, <1>6 DEF Elements
  <2>2. Elements(seq) \subseteq Elements(new)  BY <1>12 DEF Elements
  <2>3. QED  BY <1>11, <2>1, <2>2
<1>14. k \in Elements(seq) => Len(new) = Len(seq)  BY <1>8 DEF n
<1>15. QED  BY <1>1, <1>5, <1>8, <1>10, <1>13, <1>14 DEF new

\* The cut keeps a prefix.
LEMMA NewestFacts ==
  ASSUME NEW seq \in Seq(Keys), Distinct(seq)
  PROVE  LET new == Newest(seq)
         IN  /\ new \in Seq(Keys) /\ Distinct(new) /\ Len(new) <= Capacity
             /\ Elements(new) \subseteq Elements(seq)
             /\ Len(seq) >= 1 => 1 \in DOMAIN new /\ new[1] = seq[1]
<1> DEFINE m == IF Len(seq) > Capacity THEN Capacity ELSE Len(seq)
           new == SubSeq(seq, 1, m)
<1>1. m \in Nat /\ m <= Len(seq) /\ m <= Capacity /\ (Len(seq) >= 1 => m >= 1)
  BY SaltAssumption
<1> HIDE DEF m
<1>2. /\ new \in Seq(Keys) /\ Len(new) = m /\ DOMAIN new = 1..m
      /\ \A i \in 1..m : new[i] = seq[i] /\ i \in DOMAIN seq
  BY <1>1
<1> HIDE DEF new
<1>3. Distinct(new)  BY <1>2 DEF Distinct
<1>4. Elements(new) \subseteq Elements(seq)  BY <1>2 DEF Elements
<1>5. Newest(seq) = new  BY DEF Newest, new, m
<1>6. QED  BY <1>1, <1>2, <1>3, <1>4, <1>5

\* A cache that is used stays a cache: the identity moves to the front, or is
\* added there and pushes out the last.
LEMMA TouchKeepsType ==
  ASSUME CacheType, NEW k \in Keys, Touch(k), salt' = salt,
         \/ failures' = failures
         \/ failures' = [failures EXCEPT ![k] = 0]
  PROVE  CacheType'
<1>1. /\ recent' \in Seq(Keys) /\ Distinct(recent') /\ Len(recent') <= Capacity
      /\ Elements(recent') = Elements(recent)
  <2>1. CASE k \in Cached
    <3> DEFINE front == MoveToFront(k, recent)
    <3>1. recent' = front
      BY <2>1 DEF Touch
    <3>2. k \in Elements(recent) /\ recent \in Seq(Keys) /\ Distinct(recent)
      BY <2>1 DEF Cached, CacheType
    <3>3. /\ front \in Seq(Keys) /\ Distinct(front) /\ Len(front) = Len(recent)
          /\ Elements(front) = Elements(recent) \cup {k}
      BY <3>2, FrontFacts
    <3> HIDE DEF front
    <3> QED BY <3>1, <3>2, <3>3 DEF CacheType
  <2>2. CASE k \notin Cached
    BY <2>2 DEF Touch, CacheType
  <2> QED BY <2>1, <2>2
<1>2. failures' \in [Keys -> 0..Threshold - 1]
  <2>1. 0 \in 0..Threshold - 1
    BY SaltAssumption
  <2>2. failures \in [Keys -> 0..Threshold - 1]
    BY DEF CacheType
  <2> DEFINE T == 0..Threshold - 1
  <2> HIDE DEF T
  <2>3. failures \in [Keys -> T] /\ 0 \in T => failures' \in [Keys -> T]
    OBVIOUS
  <2> QED BY <2>1, <2>2, <2>3 DEF T
<1>3. \A j \in Keys : failures[j] = 0 => failures'[j] = 0
  BY DEF CacheType
<1>4. Cached' = Cached
  <2>1. Cached' = Elements(recent')
    BY DEF Cached
  <2> QED BY <1>1, <2>1 DEF Cached
<1>5. salt' \in [Keys -> Nat] /\ \A j \in Keys \ Cached : salt'[j] = 0 /\ failures'[j] = 0
  BY <1>3 DEF CacheType
<1> QED BY <1>1, <1>2, <1>4, <1>5 DEF CacheType

LEMMA KeptFacts ==
  ASSUME CacheType, NEW k \in Keys
  PROVE  /\ Kept(k) \in Seq(Keys) /\ Distinct(Kept(k)) /\ Len(Kept(k)) <= Capacity
         /\ k \in Elements(Kept(k)) /\ Elements(Kept(k)) \subseteq Cached \cup {k}
<1> DEFINE front == MoveToFront(k, recent)
<1>1. /\ front \in Seq(Keys) /\ Distinct(front) /\ Len(front) >= 1 /\ front[1] = k
      /\ Elements(front) = Cached \cup {k}
  BY FrontFacts DEF CacheType, Cached
<1>2. Kept(k) = Newest(front)
  BY DEF Kept
<1> HIDE DEF front
<1>3. /\ Kept(k) \in Seq(Keys) /\ Distinct(Kept(k)) /\ Len(Kept(k)) <= Capacity
      /\ Elements(Kept(k)) \subseteq Elements(front)
      /\ 1 \in DOMAIN Kept(k) /\ Kept(k)[1] = k
  BY <1>1, <1>2, NewestFacts
<1>4. k \in Elements(Kept(k))
  BY <1>3 DEF Elements
<1> QED BY <1>1, <1>3, <1>4

LEMMA AddKeepsType ==
  ASSUME CacheType, NEW k \in Keys, NEW s \in Nat, NEW n \in 0..Threshold - 1, Add(k, s, n)
  PROVE  CacheType'
<1> DEFINE in == Elements(Kept(k))
<1>1. /\ recent' = Kept(k)
      /\ salt' = [j \in Keys |-> IF j = k THEN s ELSE IF j \in in THEN salt[j] ELSE 0]
      /\ failures' = [j \in Keys |-> IF j = k THEN n ELSE IF j \in in THEN failures[j] ELSE 0]
  BY DEF Add
<1>2. k \in in /\ Cached' = in
  BY <1>1, KeptFacts DEF Cached
<1> HIDE DEF in
<1>3. recent' \in Seq(Keys) /\ Len(recent') <= Capacity /\ Distinct(recent')
  BY <1>1, KeptFacts
<1>4. salt' \in [Keys -> Nat]
  BY <1>1 DEF CacheType
<1>5. failures' \in [Keys -> 0..Threshold - 1]
  BY <1>1, SaltAssumption DEF CacheType
<1>6. \A j \in Keys \ in : salt'[j] = 0 /\ failures'[j] = 0
  BY <1>1, <1>2
<1> QED BY <1>2, <1>3, <1>4, <1>5, <1>6 DEF CacheType

\* Types of what a failure changes.
LEMMA FailKeepsType ==
  ASSUME TypeOK, NEW r \in Requests, Fail(r) PROVE TypeOK'
<1> DEFINE k == request[r].key
<1> USE TypeParts
<1>1. /\ k \in Keys /\ RecordFailure(k) /\ failed[k] < MaxFailures[k]
      /\ failed' = [failed EXCEPT ![k] = @ + 1]
      /\ streak' = [streak EXCEPT ![k] = @ + 1]
      /\ UNCHANGED <<saltCh, table, process, writer, starts>>
  <2>1. request[r] \in RequestType /\ request[r].at = "out"
    BY DEF Fail, OtherType
  <2>2. k \in Keys
    BY <2>1 DEF RequestType, Idle
  <2> QED BY <2>2 DEF Fail
<1>2. excused' \subseteq Keys
  <2>1. Evicted(k) \subseteq Keys
    BY DEF Evicted, Cached, CacheType, Elements
  <2> QED BY <1>1, <2>1 DEF Fail, OtherType
<1>3. request' \in [Requests -> RequestType]
  <2>1. salt[k] + 1 \in Nat \ {0}
    BY <1>1 DEF CacheType
  <2>2. [key |-> k, salt |-> salt[k] + 1] \in Event
    BY <1>1, <2>1 DEF Event
  <2>3. [at |-> "send", event |-> [key |-> k, salt |-> salt[k] + 1]] \in RequestType
    BY <2>2 DEF RequestType
  <2>4. Idle \in RequestType
    BY DEF RequestType
  <2> QED BY <2>3, <2>4 DEF Fail, OtherType
<1> HIDE DEF k
<1>4. CacheType'
  <2>1. salt[k] \in Nat /\ salt[k] + 1 \in Nat /\ failures[k] \in 0..Threshold - 1
    BY <1>1 DEF CacheType
  <2>2. CASE Rotates(k)
    <3>1. Add(k, salt[k] + 1, 0)
      BY <1>1, <2>2 DEF RecordFailure
    <3> QED BY <1>1, <2>1, <3>1, AddKeepsType, SaltAssumption
  <2>3. CASE ~Rotates(k)
    <3>1. Add(k, salt[k], failures[k] + 1)
      BY <1>1, <2>3 DEF RecordFailure
    <3>2. failures[k] + 1 \in 0..Threshold - 1
      BY <2>1, <2>3, SaltAssumption DEF Rotates
    <3> QED BY <1>1, <2>1, <3>1, <3>2, AddKeepsType
  <2> QED BY <2>2, <2>3
<1>5. TableType'
  BY <1>1 DEF TableType, table
<1>6. /\ failed' \in [Keys -> Nat] /\ streak' \in [Keys -> Nat]
      /\ \A j \in Keys : streak'[j] <= failed'[j] /\ failed'[j] <= MaxFailures[j]
  <2>1. failed' \in [Keys -> Nat] /\ streak' \in [Keys -> Nat]
    BY <1>1 DEF OtherType
  <2>2. ASSUME NEW j \in Keys PROVE streak'[j] <= failed'[j] /\ failed'[j] <= MaxFailures[j]
    <3>1. /\ streak[j] \in Nat /\ failed[j] \in Nat /\ MaxFailures[j] \in Nat
          /\ streak[j] <= failed[j] /\ failed[j] <= MaxFailures[j]
      BY SaltAssumption DEF OtherType
    <3>2. \/ j = k /\ streak'[j] = streak[j] + 1 /\ failed'[j] = failed[j] + 1
          \/ j # k /\ streak'[j] = streak[j] /\ failed'[j] = failed[j]
      BY <1>1 DEF OtherType
    <3> QED BY <1>1, <3>1, <3>2
  <2> QED BY <2>1, <2>2
<1> QED BY <1>1, <1>2, <1>3, <1>4, <1>5, <1>6 DEF OtherType

LEMMA RequestKeepsType ==
  ASSUME TypeOK, NEW r \in Requests,
         (\E k \in Keys : Route(r, k)) \/ Succeed(r) \/ Send(r)
  PROVE  TypeOK'
<1> USE TypeParts
<1>1. ASSUME NEW k \in Keys, Route(r, k) PROVE TypeOK'
  <2>1. request' \in [Requests -> RequestType]
    BY <1>1 DEF Route, OtherType, RequestType
  <2>2. CacheType'
    BY <1>1, TouchKeepsType DEF Route
  <2> QED BY <1>1, <2>1, <2>2 DEF Route, TableType, OtherType, table, history
<1>2. CASE Succeed(r)
  <2> DEFINE k == request[r].key
  <2>1. k \in Keys
    BY <1>2 DEF Succeed, OtherType, RequestType, Idle
  <2>2. /\ Touch(k) /\ salt' = salt /\ failures' = [failures EXCEPT ![k] = 0]
        /\ request' = [request EXCEPT ![r] = Idle]
        /\ streak' = [streak EXCEPT ![k] = 0]
        /\ UNCHANGED <<saltCh, table, process, writer, starts, failed, excused>>
    BY <1>2 DEF Succeed, ClearFailures
  <2> HIDE DEF k
  <2>3. CacheType'
    BY <2>1, <2>2, TouchKeepsType
  <2>4. request' \in [Requests -> RequestType]
    BY <2>2 DEF OtherType, RequestType
  <2>5. /\ streak' \in [Keys -> Nat]
        /\ \A j \in Keys : streak'[j] <= failed[j]
    BY <2>1, <2>2 DEF OtherType
  <2> QED BY <2>2, <2>3, <2>4, <2>5 DEF TableType, OtherType, table
<1>3. CASE Send(r)
  <2>1. request[r].event \in Event
    BY <1>3, SendShape DEF Send, OtherType
  <2>2. request' \in [Requests -> RequestType]
    BY <1>3 DEF Send, OtherType, RequestType
  <2>3. saltCh' \in Seq(Event) /\ Len(saltCh') <= QueueCapacity /\ excused' \subseteq Keys
    <3>1. request[r].event.key \in Keys
      BY <2>1 DEF Event
    <3>2. saltCh \in Seq(Event) /\ Len(saltCh) <= QueueCapacity /\ excused \subseteq Keys
      BY DEF OtherType
    <3>3. CASE Len(saltCh) < QueueCapacity
      <4> DEFINE e == request[r].event
      <4>1. saltCh' = Append(saltCh, e) /\ excused' = excused
        BY <1>3, <3>3 DEF Send
      <4> HIDE DEF e
      <4>2. Append(saltCh, e) \in Seq(Event) /\ Len(Append(saltCh, e)) = Len(saltCh) + 1
        BY <2>1, <3>2 DEF e
      <4> QED BY <3>2, <3>3, <4>1, <4>2, SaltAssumption
    <3>4. CASE ~(Len(saltCh) < QueueCapacity)
      BY <1>3, <3>1, <3>2, <3>4 DEF Send
    <3> QED BY <3>3, <3>4
  <2> QED BY <1>3, <2>2, <2>3 DEF Send, CacheType, TableType, OtherType, Cached, cache, table
<1> QED BY <1>1, <1>2, <1>3

LEMMA WriterKeepsType ==
  ASSUME TypeOK, WriterStep PROVE TypeOK'
<1> USE TypeParts
<1>1. CASE Persist
  <2> DEFINE e == Head(saltCh)
  <2>1. /\ Upsert(e) /\ saltCh # <<>> /\ saltCh' = Tail(saltCh)
        /\ UNCHANGED <<cache, request, process, writer, starts, history>>
    BY <1>1 DEF Persist
  <2>2. e \in Event
    BY <2>1 DEF OtherType
  <2>3. e.key \in Keys /\ e.salt \in Nat /\ e.salt > 0
    BY <2>2 DEF Event
  <2> HIDE DEF e
  <2>4. saltCh' \in Seq(Event) /\ Len(saltCh') <= QueueCapacity
    BY <2>1, SaltAssumption DEF OtherType
  <2>5. TableType'
    <3>1. stored' = [stored EXCEPT ![e.key] = e.salt] /\ order' = MoveToFront(e.key, order)
      BY <2>1 DEF Upsert
    <3>2. /\ order' \in Seq(Keys) /\ Distinct(order')
          /\ Elements(order') = Elements(order) \cup {e.key}
      BY <2>3, <3>1, FrontFacts DEF TableType
    <3> QED BY <2>3, <3>1, <3>2 DEF TableType
  <2> QED BY <2>1, <2>4, <2>5 DEF CacheType, OtherType, Cached, cache, history
<1>2. CASE PersistFails
  <2>1. saltCh' \in Seq(Event) /\ Len(saltCh') <= QueueCapacity /\ Head(saltCh) \in Event
    BY <1>2, SaltAssumption DEF PersistFails, OtherType
  <2>2. excused' \subseteq Keys
    BY <1>2, <2>1 DEF PersistFails, OtherType, Event
  <2> QED BY <1>2, <2>1, <2>2 DEF PersistFails, CacheType, TableType, OtherType, Cached, cache, table
<1>3. CASE Drained
  BY <1>3 DEF Drained, CacheType, TableType, OtherType, Cached, cache, table, history
<1>4. CASE GiveUp
  <2>1. \A i \in DOMAIN saltCh : saltCh[i].key \in Keys
    <3>1. saltCh \in Seq(Event) /\ \A e \in Event : e.key \in Keys
      BY DEF OtherType, Event
    <3> QED BY <3>1
  <2>2. excused' \subseteq Keys
    BY <1>4, <2>1 DEF GiveUp, OtherType
  <2> QED BY <1>4, <2>2 DEF GiveUp, CacheType, TableType, OtherType, Cached, cache, table
<1> QED BY <1>1, <1>2, <1>3, <1>4 DEF WriterStep

\* What Start puts into the cache: the rows, the newest at the front.
LEMMA StartKeepsType ==
  ASSUME TypeOK, DownIsEmpty, Start PROVE TypeOK'
<1> DEFINE rows == Newest(order)
           new == [i \in DOMAIN rows |-> rows[Len(rows) + 1 - i]]
<1> USE TypeParts
<1>1. /\ rows \in Seq(Keys) /\ Distinct(rows) /\ Len(rows) <= Capacity
      /\ Elements(rows) \subseteq Elements(order)
  BY NewestFacts DEF TableType
<1>2. /\ process = "down" /\ starts < MaxStarts
      /\ process' = "up" /\ writer' = "running" /\ starts' = starts + 1
      /\ recent' = new
      /\ salt' = [k \in Keys |-> IF k \in Elements(rows) THEN stored[k] ELSE 0]
      /\ excused' = Elements(order) \ Elements(rows)
      /\ UNCHANGED <<failures, saltCh, table, request, failed, streak>>
  BY DEF Start
<1> HIDE DEF rows
<1>3. Len(rows) \in Nat /\ DOMAIN rows = 1..Len(rows) /\ \A i \in DOMAIN rows : rows[i] \in Keys
  BY <1>1
<1>4. \A i \in DOMAIN rows : /\ Len(rows) + 1 - i \in DOMAIN rows
                             /\ new[i] = rows[Len(rows) + 1 - i]
  BY <1>3
<1>5. new \in [1..Len(rows) -> Keys]
  BY <1>3, <1>4
<1> HIDE DEF new
<1>6. new \in Seq(Keys) /\ Len(new) = Len(rows) /\ DOMAIN new = DOMAIN rows
  BY <1>3, <1>5
<1>7. Distinct(new)
  <2> SUFFICES ASSUME NEW i \in DOMAIN rows, NEW j \in DOMAIN rows, new[i] = new[j]
               PROVE  i = j
    BY <1>6 DEF Distinct
  <2>1. Len(rows) + 1 - i = Len(rows) + 1 - j
    BY <1>1, <1>4 DEF Distinct
  <2> QED BY <1>3, <2>1
<1>8. Elements(new) = Elements(rows)
  <2>1. \A i \in DOMAIN new : new[i] \in Elements(rows)
    BY <1>4, <1>6 DEF Elements
  <2>2. ASSUME NEW i \in DOMAIN rows PROVE rows[i] \in Elements(new)
    <3> DEFINE j == Len(rows) + 1 - i
    <3>1. j \in DOMAIN rows /\ Len(rows) + 1 - j = i
      BY <1>3
    <3>2. new[j] = rows[i]
      BY <1>4, <3>1
    <3> QED BY <1>6, <3>1, <3>2 DEF Elements
  <2> QED BY <2>1, <2>2 DEF Elements
<1>9. CacheType'
  <2>1. Cached' = Elements(rows)
    BY <1>2, <1>8 DEF Cached
  <2>2. salt' \in [Keys -> Nat]
    BY <1>2 DEF TableType
  <2>3. \A k \in Keys \ Elements(rows) : salt'[k] = 0 /\ failures'[k] = 0
    BY <1>2 DEF DownIsEmpty
  <2> QED BY <1>1, <1>2, <1>6, <1>7, <2>1, <2>2, <2>3 DEF CacheType
<1>10. starts' \in 1..MaxStarts /\ excused' \subseteq Keys
  <2>1. Elements(order) \subseteq Keys
    BY DEF TableType
  <2> QED BY <1>2, <2>1, SaltAssumption DEF OtherType
<1> QED BY <1>2, <1>9, <1>10 DEF TableType, OtherType, table

LEMMA ProcessKeepsType ==
  ASSUME TypeOK, DownIsEmpty, Signal \/ Exit \/ Crash \/ Start \/ StartClean PROVE TypeOK'
<1> USE TypeParts
<1>1. CASE Signal
  BY <1>1 DEF Signal, CacheType, TableType, OtherType, Cached, cache, table, history
<1>2. CASE Exit \/ Crash
  <2>1. /\ process' = "down" /\ recent' = <<>> /\ saltCh' = <<>>
        /\ salt' = [k \in Keys |-> 0] /\ failures' = [k \in Keys |-> 0]
        /\ request' = [r \in Requests |-> Idle]
        /\ UNCHANGED <<table, writer, starts, failed, streak, excused>>
    BY <1>2 DEF Exit, Crash, Gone
  <2>2. CacheType'
    BY <2>1, SaltAssumption DEF CacheType, Distinct
  <2>3. request' \in [Requests -> RequestType]
    BY <2>1 DEF RequestType
  <2>4. saltCh' \in Seq(Event) /\ Len(saltCh') <= QueueCapacity
    BY <2>1, SaltAssumption
  <2> QED BY <2>1, <2>2, <2>3, <2>4 DEF TableType, OtherType, table
<1>3. CASE Start
  BY <1>3, StartKeepsType
<1>4. CASE StartClean
  BY <1>4, SaltAssumption
     DEF StartClean, CacheType, TableType, OtherType, Cached, cache, table
<1> QED BY <1>1, <1>2, <1>3, <1>4

\* The cache holds at most Capacity identities, each of them once, and the
\* table lists every identity that has a row (LRUCache, RunMarkerSaltWriter).
THEOREM TypeCorrect == Spec => []TypeOK
<1>1. Init => TypeOK
  BY SaltAssumption DEF Init, TypeOK, Cached, Elements
<1>2. IInv /\ TypeOK /\ [Next]_vars => TypeOK'
  <2> SUFFICES ASSUME IInv, TypeOK, [Next]_vars PROVE TypeOK'
    OBVIOUS
  <2>1. ASSUME NEW r \in Requests, Fail(r) PROVE TypeOK'
    BY <2>1, FailKeepsType
  <2>2. ASSUME NEW r \in Requests, (\E k \in Keys : Route(r, k)) \/ Succeed(r) \/ Send(r)
        PROVE TypeOK'
    BY <2>2, RequestKeepsType
  <2>3. CASE WriterStep
    BY <2>3, WriterKeepsType
  <2>4. CASE Signal \/ Exit \/ Crash \/ Start \/ StartClean
    BY <2>4, ProcessKeepsType DEF IInv
  <2>5. CASE UNCHANGED vars
    BY <2>5, TypeParts DEF vars, CacheType, TableType, OtherType, Cached
  <2> QED BY <2>1, <2>2, <2>3, <2>4, <2>5 DEF Next
<1> QED BY <1>1, <1>2, Invariant, PTL DEF Spec

-----------------------------------------------------------------------------
(***************************************************************************)
(* What the table would give back.  The salt of an identity that is not    *)
(* excused is found where its last rotation has got to: in the requests    *)
(* that still send it, else in its last event in the queue, else in its    *)
(* row.                                                                    *)
(***************************************************************************)
SendsOf(r, k) == request[r].at = "send" /\ request[r].event.key = k
Sent(k) == \A r \in Requests : ~SendsOf(r, k)
Queued(k) == {i \in DOMAIN saltCh : saltCh[i].key = k}

Found(k) ==
  /\ \A r \in Requests : SendsOf(r, k) => request[r].event.salt = salt[k]
  /\ Sent(k) =>
       /\ \A i \in Queued(k) : (\A j \in Queued(k) : j <= i) => saltCh[i].salt = salt[k]
       /\ Queued(k) = {} => stored[k] = salt[k]

Keeping ==
  /\ process = "down" => saltCh = <<>>
  /\ writer = "running" /\ process # "down" => \A k \in Keys \ excused : Found(k)

\* Nothing that Found(k) speaks of has changed.
LEMMA FoundStays ==
  ASSUME NEW k \in Keys, Found(k), salt'[k] = salt[k], stored'[k] = stored[k], saltCh' = saltCh,
         \A r \in Requests : /\ SendsOf(r, k)' <=> SendsOf(r, k)
                             /\ SendsOf(r, k) => request'[r].event = request[r].event
  PROVE  Found(k)'
BY DEF Found, Sent, Queued

\* A failure changes the salt only of its identity, or forgets one that is excused.
LEMMA FailKeepsFound ==
  ASSUME TypeOK, Keeping, NEW r \in Requests, Fail(r) PROVE Keeping'
<1> DEFINE k == request[r].key
           e == [key |-> k, salt |-> salt[k] + 1]
<1>1. /\ k \in Keys /\ RecordFailure(k) /\ request[r].at = "out"
      /\ request' = [request EXCEPT ![r] =
           IF Rotates(k) /\ writer # "none" THEN [at |-> "send", event |-> e] ELSE Idle]
      /\ excused' = excused \cup Evicted(k)
                      \cup IF Rotates(k) /\ Sending(k) # {} THEN {k} ELSE {}
      /\ saltCh' = saltCh /\ stored' = stored /\ process' = process /\ writer' = writer
  <2>1. request[r] \in RequestType /\ request[r].at = "out"
    BY TypeParts DEF Fail, OtherType
  <2>2. k \in Keys
    BY <2>1 DEF RequestType, Idle
  <2> QED BY <2>1, <2>2 DEF Fail, table
<1>2. request \in [Requests -> RequestType]
  BY TypeParts DEF OtherType
<1>3. e.key = k /\ e.salt = salt[k] + 1
  OBVIOUS
<1>4. \A j \in Keys : /\ j # k => salt'[j] = salt[j] \/ (j \notin Elements(Kept(k)) /\ salt'[j] = 0)
                      /\ j = k => salt'[k] = IF Rotates(k) THEN salt[k] + 1 ELSE salt[k]
  <2>1. CASE Rotates(k)
    BY <1>1, <2>1 DEF RecordFailure, Add
  <2>2. CASE ~Rotates(k)
    BY <1>1, <2>2 DEF RecordFailure, Add
  <2> QED BY <2>1, <2>2
<1>5. \A j \in Keys \ Cached : salt[j] = 0
  BY TypeParts DEF CacheType
<1> HIDE DEF k, e
<1>6. \A q \in Requests : q # r => request'[q] = request[q]
  BY <1>1, <1>2
<1>7. request'[r] = IF Rotates(k) /\ writer # "none" THEN [at |-> "send", event |-> e] ELSE Idle
  BY <1>1, <1>2
<1> SUFFICES ASSUME writer = "running", process # "down", NEW j \in Keys \ excused'
             PROVE  Found(j)'
  BY <1>1 DEF Keeping
<1>8. Found(j)
  BY <1>1 DEF Keeping
<1>9. CASE j # k
  <2>1. salt'[j] = salt[j]
    BY <1>1, <1>4, <1>5, <1>9 DEF Evicted
  <2>2. \A q \in Requests : /\ SendsOf(q, j)' <=> SendsOf(q, j)
                            /\ SendsOf(q, j) => request'[q].event = request[q].event
    <3>1. ~SendsOf(r, j)
      BY <1>1 DEF SendsOf
    <3>2. ~SendsOf(r, j)'
      BY <1>3, <1>7, <1>9 DEF SendsOf, Idle
    <3> QED BY <1>6, <3>1, <3>2 DEF SendsOf
  <2> QED BY <1>1, <1>8, <2>1, <2>2, FoundStays
<1>10. CASE j = k /\ ~Rotates(k)
  <2>1. \A q \in Requests : /\ SendsOf(q, j)' <=> SendsOf(q, j)
                            /\ SendsOf(q, j) => request'[q].event = request[q].event
    <3>1. ~SendsOf(r, j)
      BY <1>1 DEF SendsOf
    <3>2. ~SendsOf(r, j)'
      BY <1>7, <1>10 DEF SendsOf, Idle
    <3> QED BY <1>6, <3>1, <3>2 DEF SendsOf
  <2> QED BY <1>1, <1>4, <1>8, <1>10, <2>1, FoundStays
<1>11. CASE j = k /\ Rotates(k)
  <2>1. SendsOf(r, j)' /\ request'[r].event = e
    BY <1>3, <1>7, <1>11 DEF SendsOf
  <2>2. \A q \in Requests : q # r => ~SendsOf(q, j)'
    <3>1. Sending(k) = {}
      BY <1>1, <1>11
    <3> QED BY <1>6, <1>11, <3>1 DEF Sending, SendsOf
  <2> QED BY <1>3, <1>4, <1>11, <2>1, <2>2 DEF Found, Sent
<1> QED BY <1>9, <1>10, <1>11

\* A sent event is the last of its identity in the queue, or it is excused.
LEMMA SendKeepsFound ==
  ASSUME TypeOK, DownIsEmpty, Keeping, NEW r \in Requests, Send(r) PROVE Keeping'
<1> DEFINE e == request[r].event
<1>1. /\ request[r].at = "send" /\ request' = [request EXCEPT ![r] = Idle]
      /\ \/ saltCh' = Append(saltCh, e) /\ excused' = excused
         \/ saltCh' = saltCh /\ excused' = excused \cup {e.key}
      /\ UNCHANGED <<salt, stored, process, writer>>
  BY DEF Send, cache, table
<1>2. saltCh \in Seq(Event) /\ request \in [Requests -> RequestType]
  BY TypeParts DEF OtherType
<1>3. e \in Event
  BY <1>1, <1>2, SendShape
<1>4. SendsOf(r, e.key)
  BY <1>1 DEF SendsOf
<1> HIDE DEF e
<1>5. \A q \in Requests : request'[q] = IF q = r THEN Idle ELSE request[q]
  BY <1>1, <1>2
<1>6. process # "down"
  BY <1>1 DEF DownIsEmpty, Idle
<1> SUFFICES ASSUME writer = "running", NEW j \in Keys \ excused' PROVE Found(j)'
  BY <1>1, <1>6 DEF Keeping
<1>7. Found(j)
  BY <1>1, <1>6 DEF Keeping
<1>8. \A q \in Requests : SendsOf(q, j)' => SendsOf(q, j) /\ request'[q].event = request[q].event
  BY <1>5 DEF SendsOf, Idle
<1>9. j # e.key => \A q \in Requests : SendsOf(q, j)' <=> SendsOf(q, j)
  BY <1>5 DEF SendsOf, Idle, e
<1>10. CASE saltCh' = saltCh /\ excused' = excused \cup {e.key}
  <2>1. j # e.key
    BY <1>10
  <2> QED BY <1>1, <1>7, <1>8, <1>9, <1>10, <2>1, FoundStays
<1>11. CASE saltCh' = Append(saltCh, e)
  <2> DEFINE n == Len(saltCh)
  <2>1. /\ n \in Nat /\ DOMAIN saltCh = 1..n /\ DOMAIN saltCh' = 1..n + 1
        /\ saltCh'[n + 1] = e /\ \A i \in 1..n : saltCh'[i] = saltCh[i]
    BY <1>2, <1>3, <1>11
  <2> HIDE DEF n
  <2>2. \A q \in Requests : SendsOf(q, j)' => request'[q].event.salt = salt'[j]
    BY <1>1, <1>7, <1>8 DEF Found
  <2>3. CASE j = e.key
    <3>1. n + 1 \in Queued(j)' /\ \A i \in Queued(j)' : i <= n + 1 /\ i \in Nat
      BY <2>1, <2>3 DEF Queued
    <3>2. e.salt = salt'[j]
      BY <1>1, <1>4, <1>7, <2>3 DEF Found, e
    <3>3. \A i \in Queued(j)' : (\A x \in Queued(j)' : x <= i) => i = n + 1
      BY <2>1, <3>1
    <3> QED BY <2>1, <2>2, <3>1, <3>2, <3>3 DEF Found
  <2>4. CASE j # e.key
    <3>1. Queued(j)' = Queued(j) /\ \A i \in Queued(j) : saltCh'[i] = saltCh[i]
      <4>1. \A i \in 1..n : saltCh'[i].key = saltCh[i].key
        BY <2>1
      <4>2. saltCh'[n + 1].key # j
        BY <2>1, <2>4
      <4>3. 1..n + 1 = 1..n \cup {n + 1}
        BY <2>1
      <4> QED BY <2>1, <4>1, <4>2, <4>3 DEF Queued
    <3>2. Sent(j)' <=> Sent(j)
      BY <1>9, <2>4 DEF Sent
    <3> QED BY <1>1, <1>7, <2>2, <3>1, <3>2 DEF Found
  <2> QED BY <2>3, <2>4
<1> QED BY <1>1, <1>10, <1>11

\* The writer moves the head of the queue to the table, or loses it.
LEMMA PersistKeepsFound ==
  ASSUME TypeOK, Keeping, Persist \/ PersistFails PROVE Keeping'
<1> DEFINE e == Head(saltCh)
           n == Len(saltCh)
<1>1. /\ saltCh # <<>> /\ saltCh' = Tail(saltCh) /\ writer = "running"
      /\ \/ stored' = [stored EXCEPT ![e.key] = e.salt] /\ excused' = excused
         \/ stored' = stored /\ excused' = excused \cup {e.key}
      /\ UNCHANGED <<salt, request, process, writer>>
  BY DEF Persist, PersistFails, Upsert, cache, table, history
<1>2. saltCh \in Seq(Event) /\ stored \in [Keys -> Nat]
  BY TypeParts DEF OtherType, TableType
<1>3. /\ n \in Nat /\ n >= 1 /\ DOMAIN saltCh = 1..n /\ e = saltCh[1]
      /\ DOMAIN saltCh' = 1..n - 1 /\ \A i \in 1..n - 1 : saltCh'[i] = saltCh[i + 1]
  BY <1>1, <1>2
<1> HIDE DEF e, n
<1>4. process # "down"
  BY <1>1 DEF Keeping
<1> SUFFICES ASSUME NEW j \in Keys \ excused' PROVE Found(j)'
  BY <1>1, <1>4 DEF Keeping
<1>5. Found(j)
  BY <1>1, <1>4 DEF Keeping
<1>6. (\A q \in Requests : SendsOf(q, j)' <=> SendsOf(q, j)) /\ (Sent(j)' <=> Sent(j))
  BY <1>1 DEF SendsOf, Sent
<1>7. \A i \in 1..n - 1 : i \in Queued(j)' <=> i + 1 \in Queued(j)
  BY <1>3 DEF Queued
<1>8. Queued(j)' \subseteq 1..n - 1 /\ Queued(j) \subseteq 1..n
  BY <1>3 DEF Queued
<1>9. ASSUME Sent(j), NEW i \in Queued(j)', \A x \in Queued(j)' : x <= i
      PROVE  saltCh'[i].salt = salt[j]
  <2>1. i + 1 \in Queued(j) /\ i \in 1..n - 1
    BY <1>7, <1>8, <1>9
  <2>2. ASSUME NEW y \in Queued(j) PROVE y <= i + 1
    <3>1. CASE y = 1
      BY <1>3, <2>1, <3>1
    <3>2. CASE y # 1
      <4>1. y \in 1..n
        BY <1>8
      <4>2. y - 1 \in 1..n - 1 /\ (y - 1) + 1 = y
        BY <1>3, <3>2, <4>1
      <4>3. y - 1 \in Queued(j)'
        BY <1>7, <4>2
      <4> QED BY <1>3, <1>9, <2>1, <4>1, <4>3
    <3> QED BY <3>1, <3>2
  <2> QED BY <1>3, <1>5, <1>9, <2>1, <2>2 DEF Found
<1>10. ASSUME Sent(j), Queued(j)' = {} PROVE stored'[j] = salt[j]
  <2>1. Queued(j) \subseteq {1}
    <3> SUFFICES ASSUME NEW y \in Queued(j), y # 1 PROVE FALSE
      OBVIOUS
    <3>1. y \in 1..n
      BY <1>8
    <3>2. y - 1 \in 1..n - 1 /\ (y - 1) + 1 = y
      BY <1>3, <3>1
    <3> QED BY <1>7, <1>10, <3>2
  <2>2. CASE 1 \in Queued(j)
    <3>1. e.key = j
      BY <1>3, <2>2 DEF Queued
    <3>2. e.salt = salt[j]
      BY <1>3, <1>5, <1>10, <2>1, <2>2 DEF Found
    <3> QED BY <1>1, <1>2, <3>1, <3>2
  <2>3. CASE 1 \notin Queued(j)
    <3>1. Queued(j) = {}
      BY <2>1, <2>3
    <3>2. stored[j] = salt[j]
      BY <1>5, <1>10, <3>1 DEF Found
    <3>3. e.key # j
      BY <1>3, <2>3 DEF Queued
    <3> QED BY <1>1, <1>2, <3>2, <3>3
  <2> QED BY <2>2, <2>3
<1> QED BY <1>1, <1>5, <1>6, <1>9, <1>10 DEF Found

\* The rows that Start reads are salts of the new cache; the others are excused.
LEMMA StartKeepsFound ==
  ASSUME TypeOK, DownIsEmpty, Keeping, Start PROVE Keeping'
<1> DEFINE in == Elements(Newest(order))
<1>1. /\ process = "down"
      /\ salt' = [k \in Keys |-> IF k \in in THEN stored[k] ELSE 0]
      /\ excused' = Elements(order) \ in
      /\ process' = "up" /\ saltCh' = saltCh /\ request' = request /\ stored' = stored
  BY DEF Start, table
<1> HIDE DEF in
<1> SUFFICES ASSUME NEW k \in Keys \ excused' PROVE Found(k)'
  BY <1>1 DEF Keeping
<1>2. \A r \in Requests : ~SendsOf(r, k)'
  BY <1>1 DEF SendsOf, DownIsEmpty, Idle
<1>3. Queued(k)' = {}
  BY <1>1 DEF Keeping, Queued
<1>4. stored[k] = salt'[k]
  <2>1. stored \in [Keys -> Nat] /\ Elements(order) = {j \in Keys : stored[j] > 0}
    BY TypeParts DEF TableType
  <2>2. CASE k \in in
    BY <1>1, <2>2
  <2>3. CASE k \notin in
    BY <1>1, <2>1, <2>3
  <2> QED BY <2>2, <2>3
<1> QED BY <1>1, <1>2, <1>3, <1>4 DEF Found

LEMMA KeepingStays ==
  ASSUME TypeOK, IInv, Keeping, [Next]_vars PROVE Keeping'
<1>1. ASSUME NEW r \in Requests, Fail(r) PROVE Keeping'
  BY <1>1, FailKeepsFound
<1>2. ASSUME NEW r \in Requests, Send(r) PROVE Keeping'
  BY <1>2, SendKeepsFound DEF IInv
\* An answer, or a request that goes out, has no event before or after.
<1>3. ASSUME NEW r \in Requests, (\E k \in Keys : Route(r, k)) \/ Succeed(r) PROVE Keeping'
  <2>1. /\ \A j \in Requests \ {r} : request'[j] = request[j]
        /\ request[r].at # "send" /\ request'[r].at # "send"
        /\ UNCHANGED <<salt, saltCh, stored, process, writer, excused>>
    <3>1. request \in [Requests -> RequestType]
      BY TypeParts DEF OtherType
    <3> QED BY <1>3, <3>1 DEF Route, Succeed, ClearFailures, table, history, Idle
  <2>2. ASSUME NEW k \in Keys, Found(k) PROVE Found(k)'
    <3>1. \A q \in Requests : /\ SendsOf(q, k)' <=> SendsOf(q, k)
                              /\ SendsOf(q, k) => request'[q].event = request[q].event
      BY <2>1 DEF SendsOf
    <3> QED BY <2>1, <2>2, <3>1, FoundStays
  <2> QED BY <2>1, <2>2 DEF Keeping
<1>4. CASE Persist \/ PersistFails
  BY <1>4, PersistKeepsFound
<1>5. CASE Drained \/ GiveUp
  BY <1>5 DEF Keeping, Drained, GiveUp
<1>6. CASE Exit \/ Crash
  BY <1>6 DEF Keeping, Exit, Crash, Gone
<1>7. CASE Start
  BY <1>7, StartKeepsFound DEF IInv
<1>8. CASE StartClean
  BY <1>8 DEF Keeping, StartClean
<1>9. CASE Signal \/ UNCHANGED vars
  <2>1. /\ UNCHANGED <<salt, saltCh, stored, request, writer, excused>>
        /\ process' = process \/ (process = "up" /\ process' = "stopping")
    BY <1>9 DEF Signal, vars, cache, table, history
  <2>2. \A k \in Keys : Found(k) => Found(k)'
    BY <2>1 DEF Found, Sent, Queued, SendsOf
  <2> QED BY <2>1, <2>2 DEF Keeping
<1> QED BY <1>1, <1>2, <1>3, <1>4, <1>5, <1>6, <1>7, <1>8, <1>9 DEF Next, WriterStep

\* With no rotation on its way, the table has the salt of every cached identity
\* that is not excused (recordUnusableIdentity, RunMarkerSaltWriter).
THEOREM SaltsAreStored == Spec => []RestartKeepsSalt
<1>1. Init => Keeping
  BY DEF Init, Keeping, Found, Sent, SendsOf, Queued, Idle
<1>2. TypeOK /\ IInv /\ Keeping /\ [Next]_vars => Keeping'
  BY KeepingStays
<1>3. Keeping => RestartKeepsSalt
  BY DEF Keeping, Found, Sent, SendsOf, Queued, RestartKeepsSalt, Sending
<1> QED BY <1>1, <1>2, <1>3, TypeCorrect, Invariant, PTL DEF Spec
=============================================================================
