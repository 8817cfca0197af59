-------------------------- MODULE DbWindow_proofs --------------------------
(***************************************************************************)
(* Theorems about DbWindow, for any accounts, window, interval and lag:    *)
(* the account store never goes back, and no refresh drops out of the      *)
(* window unread while locks and failures cost no more than the window has *)
(* to spare.                                                               *)
(***************************************************************************)
EXTENDS DbWindow, TLAPS

(***************************************************************************)
(* What the account store knows is never newer than what a round or a      *)
(* synchronisation holds, and that is never newer than the database: only  *)
(* one of the two is at work.                                              *)
(***************************************************************************)
Mutex == InRound => sync.at = "idle"

Ordered(a) ==
  /\ known[a] <= stamp[a]
  /\ reader.at = "applying" =>
       known[a] <= reader.entries[a] /\ reader.entries[a] <= stamp[a]
  /\ sync.at = "answered" => known[a] <= sync.snap[a] /\ sync.snap[a] <= stamp[a]

\* The last change of an account that is in the database is in the store, or it is not
\* known yet.
Reflected(a) ==
  a \in there =>
    /\ stamp[a] > 0
    /\ known[a] = stamp[a] => applied[a] = stamp[a]
    /\ sync.at = "answered" /\ sync.snap[a] = stamp[a] => a \in sync.live

OrderInv ==
  /\ TypeOK /\ Mutex
  /\ \A a \in Accounts : Ordered(a) /\ Reflected(a)

(***************************************************************************)
(* How old a change can be that the store does not know. Ticks without the *)
(* lock are paid by the ticker, the others are counted in lost; so a round *)
(* begins at most an Interval after the last one, and it takes hold of     *)
(* whatever was not new when it asked.                                     *)
(***************************************************************************)
Stale(a) == a \in there /\ known[a] # stamp[a]

New(a) == age[a] <= Lag + lost[a]
InTime(a) == age[a] <= Lag + lost[a] + Interval

Due(a) ==
  /\ reader.at = "idle" /\ ~fired => age[a] + ticker <= Lag + lost[a] + Interval
  /\ reader.at \in {"idle", "waiting", "locked"} => InTime(a)
  /\ reader.at = "ids" => New(a) \/ (a \in reader.ids /\ InTime(a))
  /\ reader.at = "applying" =>
       New(a) \/ (a \in reader.ids /\ reader.entries[a] = stamp[a] /\ InTime(a))

Ticking == reader.at = "idle" => ticker > 0

TimeInv ==
  /\ OrderInv /\ Ticking
  /\ \A a \in Accounts : Stale(a) /\ lost[a] <= Slack => Due(a)

-----------------------------------------------------------------------------
(* Types *)

LEMMA AtMostIs ==
  ASSUME NEW limit \in Nat, NEW n \in Nat
  PROVE  AtMost(limit, n) = IF n <= limit THEN n ELSE limit
<1> DEFINE least == IF n <= limit THEN n ELSE limit
<1>1. least \in {limit, n} /\ \A y \in {limit, n} : least <= y
  OBVIOUS
<1>2. \A x \in {limit, n} : (\A y \in {limit, n} : x <= y) => x = least
  OBVIOUS
<1>3. Min({limit, n}) \in {limit, n} /\ \A y \in {limit, n} : Min({limit, n}) <= y
  BY <1>1, Zenon DEF Min
<1>4. QED  BY <1>2, <1>3 DEF AtMost

LEMMA SlackType ==
  /\ Slack \in Nat /\ Slack + Lag + Interval = Window
  /\ Window \in Nat /\ Interval \in Nat \ {0} /\ Lag \in Nat /\ MaxStamp \in Nat \ {0}
BY WindowAssumption DEF Slack

\* The values of reader and of sync.
Rounds == [at : {"idle", "waiting", "locked", "ids", "applying"},
           ids : SUBSET Accounts, entries : Stamps]
Syncs == [at : {"idle", "asked", "answered"}, snap : Stamps, live : SUBSET Accounts]

LEMMA IdleTypes ==
  /\ NoStamps \in Stamps /\ NoSync \in Syncs /\ [NoSync EXCEPT !.at = "asked"] \in Syncs
  /\ Idle \in Rounds /\ [Idle EXCEPT !.at = "waiting"] \in Rounds
<1>1. NoStamps \in Stamps  BY SlackType DEF NoStamps, Stamps
<1>2. QED  BY <1>1 DEF NoSync, Syncs, Idle, Rounds

LEMMA EndRoundType ==
  ASSUME TypeOK, EndRound
  PROVE  /\ reader' \in Rounds /\ reader'.at = "idle"
         /\ ticker' \in 1..Interval /\ ticker' = IF ticker = 0 THEN Interval ELSE ticker
BY SlackType, IdleTypes DEF EndRound, Idle, TypeOK

LEMMA TypeInit == Init => TypeOK
<1> SUFFICES ASSUME Init  PROVE TypeOK
  OBVIOUS
<1>1. stamp \in Stamps  BY SlackType DEF Init, Stamps
<1>2. age \in [Accounts -> 0..Window + 1] /\ lost \in [Accounts -> 0..Slack + 1]
  BY SlackType DEF Init
<1>3. reader \in Rounds /\ sync \in Syncs /\ applied \in Stamps /\ known \in Stamps
  BY IdleTypes DEF Init
<1>4. there \subseteq Accounts /\ ticker = 0 /\ fired = FALSE
  BY Zenon DEF Init
<1>5. ticker \in 0..Interval  BY <1>4, SlackType
<1>6. fired \in BOOLEAN  BY <1>4, Zenon
<1>7. QED  BY <1>1, <1>2, <1>3, <1>4, <1>5, <1>6, Zenon DEF TypeOK, Rounds, Syncs

LEMMA TypeStep == TypeOK /\ [Next]_vars => TypeOK'
<1> SUFFICES ASSUME TypeOK, [Next]_vars  PROVE TypeOK'
  OBVIOUS
<1> USE SlackType
<1>1. CASE UNCHANGED vars  BY <1>1 DEF vars, TypeOK
<1>2. ASSUME NEW a \in Accounts, Refresh(a) \/ Remove(a)  PROVE TypeOK'
  BY <1>2 DEF Refresh, Remove, store, TypeOK, Stamps
<1>3. CASE Tick
  <2>1. \A a \in Accounts : /\ AtMost(Window + 1, age[a] + 1) \in 0..Window + 1
                            /\ AtMost(Slack + 1, lost[a] + 1) \in 0..Slack + 1
    BY AtMostIs DEF TypeOK
  <2>2. age' \in [Accounts -> 0..Window + 1] /\ lost' \in [Accounts -> 0..Slack + 1]
    BY <1>3, <2>1 DEF Tick, TypeOK
  <2>3. ticker' \in 0..Interval /\ fired' \in BOOLEAN
    BY <1>3 DEF Tick, TypeOK
  <2>4. QED  BY <1>3, <2>2, <2>3 DEF Tick, store, TypeOK
<1>4. CASE Wake \/ Lock
  BY <1>4, IdleTypes DEF Wake, Lock, database, store, Rounds, TypeOK
<1>5. CASE QueryIds
  <2>1. CASE EndRound  BY <1>5, <2>1, EndRoundType DEF QueryIds, Rounds, database, store, TypeOK
  <2>2. CASE ~EndRound
    <3>1. /\ reader' = [reader EXCEPT !.at = "ids", !.ids = Changed(Window)]
          /\ UNCHANGED <<there, stamp, age, lost, ticker, fired, sync, applied, known>>
      BY <1>5, <2>2 DEF QueryIds, database, store
    <3>2. Changed(Window) \subseteq Accounts  BY DEF Changed
    <3>3. QED  BY <3>1, <3>2 DEF TypeOK
  <2>3. QED  BY <2>1, <2>2
<1>6. CASE QueryRows
  <2>1. CASE EndRound  BY <1>6, <2>1, EndRoundType DEF QueryRows, Rounds, database, store, TypeOK
  <2>2. CASE ~EndRound
    BY <1>6, <2>2 DEF QueryRows, database, store, TypeOK
  <2>3. QED  BY <2>1, <2>2
<1>7. ASSUME NEW a \in Accounts, Apply(a)  PROVE TypeOK'
  <2>1. applied' \in Stamps /\ known' \in Stamps
    BY <1>7 DEF Apply, TypeOK, Stamps
  <2>2. CASE EndRound
    BY <1>7, <2>1, <2>2, EndRoundType DEF Apply, Rounds, database, TypeOK
  <2>3. CASE ~EndRound
    BY <1>7, <2>1, <2>3 DEF Apply, database, TypeOK
  <2>4. QED  BY <2>2, <2>3
<1>8. CASE RoundFails
  <2>1. lost' \in [Accounts -> 0..Slack + 1]
    BY <1>8, AtMostIs DEF RoundFails, TypeOK
  <2>2. QED  BY <1>8, <2>1, EndRoundType DEF RoundFails, Rounds, store, TypeOK
<1>9. CASE SyncBegins \/ SyncAnswered \/ SyncEnds
  BY <1>9, IdleTypes DEF SyncBegins, SyncAnswered, SyncEnds, database, store, Syncs, TypeOK
<1>10. CASE SyncStores
  BY <1>10, IdleTypes DEF SyncStores, database, Stamps, Syncs, TypeOK
<1>11. QED
  BY <1>1, <1>2, <1>3, <1>4, <1>5, <1>6, <1>7, <1>8, <1>9, <1>10 DEF Next, Round

\* The parts of the state have their types: counters and ages stay within their bounds.
THEOREM TypeCorrect == Spec => []TypeOK
BY TypeInit, TypeStep, PTL DEF Spec

-----------------------------------------------------------------------------
(* The order of what is known *)

LEMMA OrderInit == Init => OrderInv
<1> SUFFICES ASSUME Init  PROVE OrderInv
  OBVIOUS
<1>1. reader.at = "waiting" /\ sync.at = "idle"  BY DEF Init, Idle, NoSync
<1>2. ASSUME NEW a \in Accounts  PROVE Ordered(a) /\ Reflected(a)
  <2>1. known[a] = 0 /\ stamp[a] = (IF a \in there THEN 1 ELSE 0)
    BY DEF Init, NoStamps
  <2>2. QED  BY <1>1, <2>1 DEF Ordered, Reflected
<1>3. QED  BY <1>1, <1>2, TypeInit DEF OrderInv, Mutex, InRound

\* Rounds and synchronisations take turns.
LEMMA MutexStep ==
  ASSUME TypeOK, Mutex, [Next]_vars
  PROVE  Mutex'
<1>1. reader.at \in {"idle", "waiting", "locked", "ids", "applying"}  BY DEF TypeOK
<1>2. EndRound => reader'.at = "idle"  BY DEF EndRound, Idle
<1>3. CASE Wake \/ Lock
  <2>1. reader'.at = "waiting" \/ (reader'.at = "locked" /\ sync' = sync /\ sync.at = "idle")
    BY <1>3 DEF Wake, Lock, Unlocked, Idle, TypeOK
  <2>2. QED  BY <2>1 DEF Mutex, InRound
<1>4. CASE QueryIds \/ QueryRows \/ RoundFails
  <2>1. InRound /\ sync' = sync
    BY <1>4 DEF QueryIds, QueryRows, RoundFails, InRound
  <2>2. QED  BY <2>1 DEF Mutex
<1>5. CASE \E b \in Accounts : Apply(b)
  BY <1>5 DEF Apply, Mutex, InRound
<1>6. CASE SyncBegins \/ SyncAnswered \/ SyncStores \/ SyncEnds
  <2>1. reader' = reader /\ (~InRound \/ sync'.at = "idle")
    BY <1>6 DEF SyncBegins, SyncAnswered, SyncStores, SyncEnds, Unlocked, NoSync, Mutex, InRound
  <2>2. QED  BY <2>1 DEF Mutex, InRound
<1>7. CASE UNCHANGED <<reader, sync>>
  BY <1>7 DEF Mutex, InRound
<1>8. QED
  BY <1>3, <1>4, <1>5, <1>6, <1>7 DEF Next, Round, Refresh, Remove, Tick, vars

LEMMA OrderStep == OrderInv /\ [Next]_vars => OrderInv'
<1> SUFFICES ASSUME OrderInv, [Next]_vars, NEW a \in Accounts
             PROVE  Ordered(a)' /\ Reflected(a)'
  BY TypeStep, MutexStep DEF OrderInv
<1>1. TypeOK /\ TypeOK' /\ Mutex /\ Ordered(a) /\ Reflected(a)
  BY TypeStep DEF OrderInv
<1>2. /\ stamp[a] \in Nat /\ known[a] \in Nat /\ applied[a] \in Nat
      /\ reader.entries[a] \in Nat /\ sync.snap[a] \in Nat
  BY <1>1, SlackType DEF TypeOK, Stamps
<1> USE DEF Mutex, Ordered, Reflected, InRound
<1>3. CASE UNCHANGED vars  BY <1>1, <1>3 DEF vars
<1>4. ASSUME NEW b \in Accounts, Refresh(b)  PROVE Ordered(a)' /\ Reflected(a)'
  <2>1. /\ stamp' = [stamp EXCEPT ![b] = @ + 1] /\ there' = there \cup {b}
        /\ UNCHANGED <<reader, sync, applied, known>>
    BY <1>4 DEF Refresh, store
  <2>2. CASE a = b
    <3>1. stamp'[a] = stamp[a] + 1  BY <1>1, <2>1, <2>2 DEF TypeOK, Stamps
    <3>2. QED  BY <1>1, <1>2, <2>1, <3>1
  <2>3. CASE a # b
    <3>1. stamp'[a] = stamp[a] /\ (a \in there' <=> a \in there)
      BY <1>1, <2>1, <2>3 DEF TypeOK, Stamps
    <3>2. QED  BY <1>1, <2>1, <3>1
  <2>4. QED  BY <2>2, <2>3
<1>5. ASSUME NEW b \in Accounts, Remove(b)  PROVE Ordered(a)' /\ Reflected(a)'
  <2>1. /\ stamp' = [stamp EXCEPT ![b] = @ + 1] /\ there' = there \ {b}
        /\ UNCHANGED <<reader, sync, applied, known>>
    BY <1>5 DEF Remove, store
  <2>2. CASE a = b
    <3>1. stamp'[a] = stamp[a] + 1 /\ a \notin there'
      BY <1>1, <2>1, <2>2 DEF TypeOK, Stamps
    <3>2. QED  BY <1>1, <1>2, <2>1, <3>1
  <2>3. CASE a # b
    <3>1. stamp'[a] = stamp[a] /\ (a \in there' <=> a \in there)
      BY <1>1, <2>1, <2>3 DEF TypeOK, Stamps
    <3>2. QED  BY <1>1, <2>1, <3>1
  <2>4. QED  BY <2>2, <2>3
<1>6. CASE Tick
  BY <1>1, <1>6 DEF Tick, store
<1>7. CASE Wake \/ Lock
  <2>1. /\ UNCHANGED <<there, stamp, sync, applied, known>>
        /\ reader'.at = "waiting" \/ (reader'.at = "locked" /\ sync.at = "idle")
    BY <1>1, <1>7 DEF Wake, Lock, Unlocked, Idle, database, store, TypeOK
  <2>2. QED  BY <1>1, <2>1
<1>8. ASSUME EndRound, UNCHANGED <<there, stamp, sync, applied, known>>
      PROVE  Ordered(a)' /\ Reflected(a)'
  <2>1. reader'.at = "idle"  BY <1>8 DEF EndRound, Idle
  <2>2. QED  BY <1>1, <1>8, <2>1
<1>9. CASE QueryIds
  <2>1. CASE EndRound  BY <1>8, <1>9, <2>1 DEF QueryIds, database, store
  <2>2. CASE ~EndRound
    <3>1. /\ reader.at = "locked" /\ reader'.at = "ids"
          /\ UNCHANGED <<there, stamp, sync, applied, known>>
      BY <1>1, <1>9, <2>2 DEF QueryIds, database, store, TypeOK
    <3>2. QED  BY <1>1, <3>1
  <2>3. QED  BY <2>1, <2>2
<1>10. CASE QueryRows
  <2>1. CASE EndRound  BY <1>8, <1>10, <2>1 DEF QueryRows, database, store
  <2>2. CASE ~EndRound
    <3>1. /\ reader.at = "ids" /\ reader'.at = "applying" /\ reader'.entries = stamp
          /\ UNCHANGED <<there, stamp, sync, applied, known>>
      BY <1>10, <2>2 DEF QueryRows, database, store
    <3>2. QED  BY <1>1, <1>2, <3>1
  <2>3. QED  BY <2>1, <2>2
<1>11. ASSUME NEW b \in Accounts, Apply(b)  PROVE Ordered(a)' /\ Reflected(a)'
  <2>1. /\ reader.at = "applying" /\ sync.at = "idle"
        /\ applied' = [applied EXCEPT ![b] = reader.entries[b]]
        /\ known' = [known EXCEPT ![b] = reader.entries[b]]
        /\ UNCHANGED <<there, stamp, sync>>
    BY <1>1, <1>11 DEF Apply, database
  <2>2. \/ known'[a] = known[a] /\ applied'[a] = applied[a]
        \/ known'[a] = reader.entries[a] /\ applied'[a] = reader.entries[a]
    BY <1>1, <2>1 DEF TypeOK, Stamps
  <2>3. reader'.at = "idle" \/ (reader'.at = "applying" /\ reader'.entries = reader.entries)
    BY <1>1, <1>11 DEF Apply, EndRound, Idle, TypeOK
  <2>4. QED  BY <1>1, <1>2, <2>1, <2>2, <2>3
<1>12. CASE RoundFails
  BY <1>8, <1>12 DEF RoundFails, store
<1>13. CASE SyncBegins \/ SyncEnds
  <2>1. /\ UNCHANGED <<there, stamp, reader, applied, known>>
        /\ sync'.at \in {"idle", "asked"} /\ (InRound => sync'.at = "idle")
    BY <1>1, <1>13 DEF SyncBegins, SyncEnds, Unlocked, NoSync, database, store
  <2>2. QED  BY <1>1, <2>1
<1>14. CASE SyncAnswered
  <2>1. /\ sync.at = "asked" /\ sync'.snap = stamp /\ sync'.live = there
        /\ UNCHANGED <<there, stamp, reader, applied, known>>
    BY <1>14 DEF SyncAnswered, database, store
  <2>2. QED  BY <1>1, <1>2, <2>1
<1>15. CASE SyncStores
  <2>1. /\ sync.at = "answered" /\ sync'.at = "idle" /\ known'[a] = sync.snap[a]
        /\ applied'[a] = (IF a \in sync.live THEN sync.snap[a] ELSE 0)
        /\ UNCHANGED <<there, stamp, reader>>
    BY <1>15 DEF SyncStores, NoSync, database
  <2>2. QED  BY <1>1, <1>2, <2>1
<1>16. QED
  BY <1>3, <1>4, <1>5, <1>6, <1>7, <1>9, <1>10, <1>11, <1>12, <1>13, <1>14, <1>15
  DEF Next, Round

\* What the account store knows of an account never gets older: a round does not bring
\* back what a synchronisation has replaced, nor the other way round.
THEOREM StoreNeverGoesBack == Spec => NeverBackwards
<1> DEFINE Later == \A a \in Accounts : known'[a] >= known[a]
<1>1. ASSUME OrderInv, [Next]_vars, NEW a \in Accounts  PROVE known'[a] >= known[a]
  <2>1. TypeOK /\ Mutex /\ Ordered(a) /\ known[a] \in Nat
    BY <1>1, SlackType DEF OrderInv, TypeOK, Stamps
  <2>2. CASE \E b \in Accounts : Apply(b)
    <3>1. known'[a] \in {known[a], reader.entries[a]} /\ reader.at = "applying"
      BY <2>1, <2>2 DEF Apply, TypeOK, Stamps
    <3>2. QED  BY <2>1, <3>1 DEF Ordered
  <2>3. CASE SyncStores
    <3>1. known'[a] = sync.snap[a] /\ sync.at = "answered"  BY <2>3 DEF SyncStores
    <3>2. QED  BY <2>1, <3>1 DEF Ordered
  <2>4. CASE UNCHANGED known  BY <2>1, <2>4
  <2>5. QED
    BY <1>1, <2>2, <2>3, <2>4
    DEF Next, Refresh, Remove, Tick, Round, Wake, Lock, QueryIds, QueryRows, RoundFails,
        SyncBegins, SyncAnswered, SyncEnds, vars, store
<1>2. OrderInv /\ [Next]_vars => [Later]_vars
  BY <1>1
<1>3. QED  BY <1>2, OrderInit, OrderStep, PTL DEF Spec, NeverBackwards

-----------------------------------------------------------------------------
(* Time *)

LEMMA TimeInit == Init => TimeInv
<1> SUFFICES ASSUME Init  PROVE TimeInv
  OBVIOUS
<1>1. OrderInv  BY OrderInit
<1>2. Ticking  BY DEF Init, Idle, Ticking
<1>3. \A a \in Accounts : ~(lost[a] <= Slack)  BY SlackType DEF Init
<1>4. QED  BY <1>1, <1>2, <1>3 DEF TimeInv

LEMMA TickingStep ==
  ASSUME TypeOK, Ticking, [Next]_vars
  PROVE  Ticking'
<1>1. ticker \in Nat /\ Interval \in Nat \ {0}  BY SlackType DEF TypeOK
<1>2. EndRound => Ticking'  BY EndRoundType DEF Ticking
<1>3. CASE Tick
  <2>1. reader' = reader /\ (ticker > 0 => ticker' > 0)  BY <1>1, <1>3 DEF Tick
  <2>2. QED  BY <2>1 DEF Ticking
<1>4. CASE Wake \/ Lock
  <2>1. reader'.at # "idle"  BY <1>4 DEF Wake, Lock, Idle, TypeOK
  <2>2. QED  BY <2>1 DEF Ticking
<1>5. CASE QueryIds \/ QueryRows
  <2>1. EndRound \/ reader'.at \in {"ids", "applying"}
    <3>1. QueryIds => EndRound \/ reader'.at = "ids"  BY DEF QueryIds, TypeOK
    <3>2. QueryRows => EndRound \/ reader'.at = "applying"  BY DEF QueryRows
    <3>3. QED  BY <1>5, <3>1, <3>2
  <2>2. QED  BY <1>2, <2>1 DEF Ticking
<1>6. ASSUME NEW b \in Accounts, Apply(b)  PROVE Ticking'
  <2>1. EndRound \/ reader'.at = "applying"  BY <1>6 DEF Apply, TypeOK
  <2>2. QED  BY <1>2, <2>1 DEF Ticking
<1>7. CASE RoundFails  BY <1>2, <1>7 DEF RoundFails
<1>8. CASE UNCHANGED <<reader, ticker>>  BY <1>8 DEF Ticking
<1>9. QED
  BY <1>3, <1>4, <1>5, <1>6, <1>7, <1>8
  DEF Next, Round, Refresh, Remove, SyncBegins, SyncAnswered, SyncStores, SyncEnds, vars

\* A change that is in time for a round is in its window.
LEMMA InWindow ==
  ASSUME TypeOK, NEW a \in Accounts, InTime(a), lost[a] <= Slack
  PROVE  age[a] <= Window
BY SlackType DEF TypeOK, InTime

LEMMA DueStep ==
  ASSUME TimeInv, [Next]_vars, NEW a \in Accounts, Stale(a)', lost'[a] <= Slack
  PROVE  Due(a)'
<1>1. /\ TypeOK /\ TypeOK' /\ Mutex /\ Ordered(a) /\ Ticking /\ Ticking'
      /\ Stale(a) /\ lost[a] <= Slack => Due(a)
  BY TypeStep, TickingStep DEF TimeInv, OrderInv
<1>2. /\ age[a] \in Nat /\ lost[a] \in Nat /\ ticker \in 0..Interval
      /\ stamp[a] \in Nat /\ known[a] \in Nat
      /\ Lag \in Nat /\ Interval \in Nat /\ Slack \in Nat /\ Window \in Nat
  BY <1>1, SlackType DEF TypeOK, Stamps
<1>3. CASE UNCHANGED <<there, stamp, known, age, lost, ticker, fired, reader>>
  BY <1>1, <1>3 DEF Stale, Due, New, InTime
<1>4. ASSUME NEW b \in Accounts, Refresh(b)  PROVE Due(a)'
  <2>1. UNCHANGED <<ticker, fired, reader, known>>  BY <1>4 DEF Refresh, store
  <2>2. CASE a = b
    <3>1. age'[a] <= Lag /\ age'[a] \in Nat /\ lost'[a] = 0
      BY <1>1, <1>2, <1>4, <2>2 DEF Refresh, TypeOK
    <3>2. QED  BY <1>2, <2>1, <3>1 DEF Due, New, InTime
  <2>3. CASE a # b
    <3>1. /\ age'[a] = age[a] /\ lost'[a] = lost[a] /\ stamp'[a] = stamp[a]
          /\ a \in there' => a \in there
      BY <1>1, <1>4, <2>3 DEF Refresh, TypeOK, Stamps
    <3>2. QED  BY <1>1, <2>1, <3>1 DEF Stale, Due, New, InTime
  <2>4. QED  BY <2>2, <2>3
<1>5. ASSUME NEW b \in Accounts, Remove(b)  PROVE Due(a)'
  <2>1. UNCHANGED <<ticker, fired, reader, known, lost>> /\ a # b
    BY <1>5 DEF Remove, store, Stale
  <2>2. age'[a] = age[a] /\ stamp'[a] = stamp[a] /\ a \in there
    BY <1>1, <1>5, <2>1 DEF Remove, TypeOK, Stamps, Stale
  <2>3. QED  BY <1>1, <2>1, <2>2 DEF Stale, Due, New, InTime
<1>6. CASE Tick
  <2>1. /\ UNCHANGED <<there, stamp, known, reader>>
        /\ ~(reader.at = "idle" /\ fired) /\ ~(reader.at = "waiting" /\ Unlocked)
        /\ ticker' = (IF ticker = 1 THEN Interval ELSE IF ticker = 0 THEN 0 ELSE ticker - 1)
        /\ ticker = 1 => fired'
    BY <1>6, Zenon DEF Tick, store
  <2>2. age'[a] = AtMost(Window + 1, age[a] + 1) /\ age'[a] <= age[a] + 1 /\ age'[a] \in Nat
    BY <1>2, <1>6, AtMostIs DEF Tick
  <2>3. CASE Unlocked
    <3>1. lost'[a] = lost[a]  BY <1>6, <2>3 DEF Tick
    <3>2. reader.at = "idle" /\ ~fired
      BY <1>1, <2>1, <2>3 DEF Unlocked, InRound, TypeOK
    <3>3. age[a] + ticker <= Lag + lost[a] + Interval /\ ticker > 0
      BY <1>1, <2>1, <3>1, <3>2 DEF Stale, Due, Ticking
    <3>4. QED
      <4>1. InTime(a)'  BY <1>2, <2>2, <3>1, <3>3 DEF InTime
      <4>2. ~fired' => ticker' = ticker - 1  BY <1>2, <2>1, <3>3
      <4>3. ~fired' => age'[a] + ticker' <= Lag + lost'[a] + Interval
        BY <1>2, <2>2, <3>1, <3>3, <4>2
      <4>4. QED  BY <2>1, <3>2, <4>1, <4>3 DEF Due
  <2>4. CASE ~Unlocked
    <3>1. lost'[a] = lost[a] + 1 /\ lost[a] <= Slack
      <4>1. lost'[a] = AtMost(Slack + 1, lost[a] + 1)  BY <1>6, <2>4 DEF Tick
      <4>2. QED  BY <1>2, <4>1, AtMostIs
    <3>2. Due(a)  BY <1>1, <2>1, <3>1 DEF Stale
    <3>3. New(a) => New(a)'  BY <1>2, <2>2, <3>1 DEF New
    <3>4. InTime(a) => InTime(a)'  BY <1>2, <2>2, <3>1 DEF InTime
    <3>5. reader.at = "idle" /\ ~fired /\ ~fired' =>
            age'[a] + ticker' <= Lag + lost'[a] + Interval
      <4>1. SUFFICES ASSUME reader.at = "idle", ~fired, ~fired'
                     PROVE  age'[a] + ticker' <= Lag + lost'[a] + Interval
        OBVIOUS
      <4>2. ticker > 0 /\ age[a] + ticker <= Lag + lost[a] + Interval
        BY <1>1, <3>2, <4>1 DEF Due, Ticking
      <4>3. ticker' = ticker - 1  BY <1>2, <2>1, <4>1, <4>2
      <4>4. QED  BY <1>2, <2>2, <3>1, <4>2, <4>3
    <3>6. QED  BY <2>1, <3>2, <3>3, <3>4, <3>5 DEF Due
  <2>5. QED  BY <2>3, <2>4
<1>7. CASE Wake
  <2>1. /\ reader.at = "idle" /\ reader'.at = "waiting"
        /\ UNCHANGED <<there, stamp, known, age, lost>>
    BY <1>7 DEF Wake, Idle, database, store
  <2>2. QED  BY <1>1, <2>1 DEF Stale, Due, InTime
<1>8. CASE Lock
  <2>1. /\ reader.at = "waiting" /\ reader'.at = "locked"
        /\ UNCHANGED <<there, stamp, known, age, lost>>
    BY <1>1, <1>8 DEF Lock, database, store, TypeOK
  <2>2. QED  BY <1>1, <2>1 DEF Stale, Due, InTime
\* A round ends with what it did not take hold of, which is new.
<1>9. ASSUME EndRound, New(a), UNCHANGED <<age, lost>>  PROVE Due(a)'
  <2>1. reader'.at = "idle" /\ ticker' \in 1..Interval  BY <1>1, <1>9, EndRoundType
  <2>2. QED  BY <1>2, <1>9, <2>1 DEF Due, New, InTime
<1>10. CASE QueryIds
  <2>1. reader.at = "locked" /\ UNCHANGED <<there, stamp, known, age, lost>>
    BY <1>10 DEF QueryIds, database, store
  <2>2. InTime(a)  BY <1>1, <2>1 DEF Stale, Due
  <2>3. a \in Changed(Window)  BY <1>1, <2>1, <2>2, InWindow DEF Changed
  <2>4. reader' = [reader EXCEPT !.at = "ids", !.ids = Changed(Window)]
    BY <1>10, <2>3 DEF QueryIds
  <2>5. reader'.at = "ids" /\ reader'.ids = Changed(Window)  BY <1>1, <2>4 DEF TypeOK
  <2>6. QED  BY <2>1, <2>2, <2>3, <2>5 DEF Due, InTime
<1>11. CASE QueryRows
  <2>1. reader.at = "ids" /\ UNCHANGED <<there, stamp, known, age, lost>>
    BY <1>11 DEF QueryRows, database, store
  <2>2. a \in there /\ (New(a) \/ (a \in reader.ids /\ InTime(a)))
    BY <1>1, <2>1 DEF Stale, Due
  <2>3. CASE reader.ids \cap there = {}
    BY <1>9, <1>11, <2>1, <2>2, <2>3 DEF QueryRows
  <2>4. CASE reader.ids \cap there # {}
    <3>1. /\ reader'.at = "applying" /\ reader'.ids = reader.ids \cap there
          /\ reader'.entries = stamp
      BY <1>11, <2>4 DEF QueryRows
    <3>2. QED  BY <2>1, <2>2, <3>1 DEF Due, New, InTime
  <2>5. QED  BY <2>3, <2>4
<1>12. ASSUME NEW b \in Accounts, Apply(b)  PROVE Due(a)'
  <2>1. /\ reader.at = "applying" /\ b \in reader.ids
        /\ known' = [known EXCEPT ![b] = reader.entries[b]]
        /\ UNCHANGED <<there, stamp, age, lost>>
    BY <1>12 DEF Apply, database
  <2>2. Stale(a)
    <3>1. known'[a] \in {known[a], reader.entries[a]}
      BY <1>1, <2>1 DEF TypeOK, Stamps
    <3>2. known'[a] = known[a] \/ known'[a] >= known[a]
      BY <1>1, <2>1, <3>1 DEF Ordered
    <3>3. known[a] = stamp[a] => reader.entries[a] = stamp[a]
      <4>1. reader.entries[a] \in Nat  BY <1>1, SlackType DEF TypeOK, Stamps
      <4>2. QED  BY <1>1, <1>2, <2>1, <4>1 DEF Ordered
    <3>4. QED  BY <2>1, <3>1, <3>3 DEF Stale
  <2>3. New(a) \/ (a \in reader.ids /\ reader.entries[a] = stamp[a] /\ InTime(a))
    BY <1>1, <2>1, <2>2 DEF Due
  <2>4. a = b => New(a)
    <3>1. a = b => known'[a] = reader.entries[a]  BY <1>1, <2>1 DEF TypeOK, Stamps
    <3>2. QED  BY <2>1, <2>3, <3>1 DEF Stale
  <2>5. CASE reader.ids = {b}
    <3>1. New(a) /\ EndRound  BY <1>12, <2>3, <2>4, <2>5 DEF Apply
    <3>2. QED  BY <1>9, <2>1, <3>1
  <2>6. CASE reader.ids # {b}
    <3>1. reader' = [reader EXCEPT !.ids = @ \ {b}]  BY <1>12, <2>6 DEF Apply
    <3>2. /\ reader'.at = "applying" /\ reader'.ids = reader.ids \ {b}
          /\ reader'.entries = reader.entries
      BY <1>1, <2>1, <3>1 DEF TypeOK
    <3>3. QED  BY <2>1, <2>3, <2>4, <3>2 DEF Due, New, InTime
  <2>7. QED  BY <2>5, <2>6
<1>13. CASE RoundFails
  <2>1. /\ InRound /\ EndRound /\ UNCHANGED <<there, stamp, known, age>>
        /\ lost'[a] = AtMost(Slack + 1, lost[a] + Interval)
    BY <1>13 DEF RoundFails, store
  <2>2. lost'[a] = lost[a] + Interval /\ lost[a] <= Slack
    BY <1>2, <2>1, AtMostIs
  <2>3. InTime(a)
    BY <1>1, <1>2, <2>1, <2>2 DEF Stale, Due, InRound, New, InTime
  <2>4. reader'.at = "idle" /\ ticker' \in 1..Interval  BY <1>1, <2>1, EndRoundType
  <2>5. QED  BY <1>2, <2>1, <2>2, <2>3, <2>4 DEF Due, InTime
<1>14. CASE SyncStores
  <2>1. /\ sync.at = "answered" /\ known'[a] = sync.snap[a]
        /\ UNCHANGED <<there, stamp, age, lost, ticker, fired, reader>>
    BY <1>14 DEF SyncStores, database
  <2>2. Stale(a)
    <3>1. sync.snap[a] \in Nat  BY <1>1, SlackType DEF TypeOK, Stamps
    <3>2. QED  BY <1>1, <1>2, <2>1, <3>1 DEF Stale, Ordered
  <2>3. QED  BY <1>1, <2>1, <2>2 DEF Due, New, InTime
<1>15. CASE SyncBegins \/ SyncAnswered \/ SyncEnds
  BY <1>3, <1>15 DEF SyncBegins, SyncAnswered, SyncEnds, database, store
<1>16. QED
  BY <1>3, <1>4, <1>5, <1>6, <1>7, <1>8, <1>10, <1>11, <1>12, <1>13, <1>14, <1>15
  DEF Next, Round, vars

\* Every change that the store does not know is younger than the next round will be late.
THEOREM TimeInvariant == Spec => []TimeInv
<1>1. TimeInv /\ [Next]_vars => TimeInv'
  <2>1. TimeInv /\ [Next]_vars => OrderInv' /\ Ticking'
    BY OrderStep, TickingStep DEF TimeInv, OrderInv
  <2>2. QED  BY <2>1, DueStep DEF TimeInv
<1>2. QED  BY TimeInit, <1>1, PTL DEF Spec

\* No refresh drops out of the window unread, for any window, interval and lag with
\* Lag + Interval <= Window, unless locks and failed rounds have cost more than the rest.
THEOREM WindowIsEnough == Spec => []WindowSuffices
<1>1. ASSUME TimeInv, NEW a \in Accounts, Behind(a), lost[a] <= Slack
      PROVE  age[a] <= Window
  <2>1. TypeOK /\ Reflected(a)  BY <1>1 DEF TimeInv, OrderInv
  <2>2. Stale(a)  BY <1>1, <2>1 DEF Behind, Stale, Reflected
  <2>3. Due(a)  BY <1>1, <2>2 DEF TimeInv
  <2>4. InTime(a)
    <3>1. age[a] \in Nat /\ lost[a] \in Nat /\ Lag \in Nat /\ Interval \in Nat
      BY <2>1, SlackType DEF TypeOK
    <3>2. reader.at \in {"idle", "waiting", "locked", "ids", "applying"}  BY <2>1 DEF TypeOK
    <3>3. QED  BY <2>3, <3>1, <3>2 DEF Due, New, InTime
  <2>5. QED  BY <1>1, <2>1, <2>4, InWindow
<1>2. TimeInv => WindowSuffices  BY <1>1 DEF WindowSuffices
<1>3. QED  BY <1>2, TimeInvariant, PTL
=============================================================================
