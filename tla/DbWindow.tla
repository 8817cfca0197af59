------------------------------ MODULE DbWindow ------------------------------
(***************************************************************************)
(* The reader of a Sub2API database (internal/syncer/sub2api_direct.go and *)
(* runDirectIncremental): every Interval it asks for the accounts that     *)
(* changed within the last Window, reads them and applies them one by one. *)
(* It remembers no position, so a change is picked up by every round of    *)
(* the window, and by none when the window has passed. Full                *)
(* synchronisations of the source hold the same lock while they wait for   *)
(* the service.                                                            *)
(*                                                                         *)
(* Time is counted in ticks. A goroutine that can run does so before the   *)
(* next tick; queries and requests take as long as they like.              *)
(*                                                                         *)
(* An operator whose name ends in _Wrong is a plausible mistake in the     *)
(* operator that follows it; only the tests of the properties use it.      *)
(***************************************************************************)
EXTENDS Naturals, FiniteSets, FiniteSetsExt

CONSTANTS
  Accounts,   \* accounts of type oauth or setup-token
  Window,     \* the 30 seconds of sub2APIIncrementalQuery
  Interval,   \* directIncrementalInterval
  Lag,        \* how old a change may be when its transaction commits
  MaxStamp    \* bound on the changes of an account

\* What the window has to spare for slow, failed and blocked rounds.
Slack == Window - Lag - Interval

ASSUME WindowAssumption ==
  /\ IsFiniteSet(Accounts)
  /\ Window \in Nat /\ Interval \in Nat \ {0} /\ Lag \in Nat /\ MaxStamp \in Nat \ {0}
  /\ Lag + Interval <= Window

VARIABLES
  there,     \* the accounts with usable credentials in the database
  stamp,     \* stamp[a]: number of its last change
  age,       \* age[a]: ticks since its updated_at
  lost,      \* history: lost[a], ticks since the change in which no round could start, and
             \* an Interval for every round that failed
  ticker,    \* ticks until it fires, 0 before it is created
  fired,     \* the channel of the ticker is full
  reader,    \* directRuntime.run: where it is, ids that it has to apply, their entries
  sync,      \* Manager.syncOne: where it is, stamps and accounts of the answer
  applied,   \* applied[a]: stamp of the credentials in the account store, 0 for none
  known      \* history: known[a], the last change that the account store reflects

database == <<there, stamp, age, lost>>
store == <<applied, known>>
vars == <<there, stamp, age, lost, ticker, fired, reader, sync, applied, known>>

Stamps == [Accounts -> 0..MaxStamp]
NoStamps == [a \in Accounts |-> 0]
Idle == [at |-> "idle", ids |-> {}, entries |-> NoStamps]
NoSync == [at |-> "idle", snap |-> NoStamps, live |-> {}]

TypeOK ==
  /\ there \subseteq Accounts
  /\ stamp \in Stamps
  /\ age \in [Accounts -> 0..Window + 1]
  /\ lost \in [Accounts -> 0..Slack + 1]
  /\ ticker \in 0..Interval /\ fired \in BOOLEAN
  /\ reader \in [at : {"idle", "waiting", "locked", "ids", "applying"},
                 ids : SUBSET Accounts, entries : Stamps]
  /\ sync \in [at : {"idle", "asked", "answered"}, snap : Stamps, live : SUBSET Accounts]
  /\ applied \in Stamps /\ known \in Stamps

\* The reader starts beside accounts that changed long ago; they are left to the full
\* synchronisation.
Init ==
  /\ there \in SUBSET Accounts
  /\ stamp = [a \in Accounts |-> IF a \in there THEN 1 ELSE 0]
  /\ age = [a \in Accounts |-> Window + 1]
  /\ lost = [a \in Accounts |-> Slack + 1]
  /\ ticker = 0 /\ fired = FALSE
  /\ reader = [Idle EXCEPT !.at = "waiting"] /\ sync = NoSync
  /\ applied = NoStamps /\ known = NoStamps

InRound == reader.at \in {"locked", "ids", "applying"}
Unlocked == ~InRound /\ sync.at = "idle"

AtMost(limit, n) == Min({limit, n})

-----------------------------------------------------------------------------
(* The database and time                                                   *)

\* Sub2API writes the account; updated_at may be up to Lag before the commit.
Refresh(a) ==
  /\ stamp[a] < MaxStamp
  /\ stamp' = [stamp EXCEPT ![a] = @ + 1]
  /\ there' = there \cup {a}
  /\ \E lag \in 0..Lag : age' = [age EXCEPT ![a] = lag]
  /\ lost' = [lost EXCEPT ![a] = 0]
  /\ UNCHANGED <<ticker, fired, reader, sync, store>>

\* The account is deleted, or it loses its credentials. A round skips such a row,
\* whether or not it is in the window.
Remove(a) ==
  /\ a \in there /\ stamp[a] < MaxStamp
  /\ stamp' = [stamp EXCEPT ![a] = @ + 1]
  /\ there' = there \ {a}
  /\ age' = [age EXCEPT ![a] = Window + 1]
  /\ UNCHANGED <<lost, ticker, fired, reader, sync, store>>

Tick ==
  /\ ~(reader.at = "idle" /\ fired) /\ ~(reader.at = "waiting" /\ Unlocked)
  /\ age' = [a \in Accounts |-> AtMost(Window + 1, age[a] + 1)]
  /\ lost' = [a \in Accounts |-> IF Unlocked THEN lost[a] ELSE AtMost(Slack + 1, lost[a] + 1)]
  /\ ticker' = IF ticker = 1 THEN Interval ELSE IF ticker = 0 THEN 0 ELSE ticker - 1
  /\ fired' = (fired \/ ticker = 1)
  /\ UNCHANGED <<there, stamp, reader, sync, store>>

-----------------------------------------------------------------------------
(* directRuntime.run and runDirectIncremental                              *)

\* The ticker is never created.
EndRound_Wrong == reader' = Idle /\ UNCHANGED ticker

\* The first round comes before the ticker.
EndRound ==
  /\ reader' = Idle
  /\ ticker' = IF ticker = 0 THEN Interval ELSE ticker

Wake ==
  /\ reader.at = "idle" /\ fired
  /\ fired' = FALSE
  /\ reader' = [Idle EXCEPT !.at = "waiting"]
  /\ UNCHANGED <<database, ticker, sync, store>>

\* The round does not wait for a full synchronisation.
Lock_Wrong ==
  /\ reader.at = "waiting"
  /\ reader' = [reader EXCEPT !.at = "locked"]
  /\ UNCHANGED <<database, ticker, fired, sync, store>>

Lock ==
  /\ reader.at = "waiting" /\ Unlocked
  /\ reader' = [reader EXCEPT !.at = "locked"]
  /\ UNCHANGED <<database, ticker, fired, sync, store>>

Changed(limit) == {a \in Accounts : age[a] <= limit}

\* Only what changed since the last round is asked for.
QueryIds_Wrong ==
  /\ reader.at = "locked"
  /\ IF Changed(Interval) = {} THEN EndRound
     ELSE reader' = [reader EXCEPT !.at = "ids", !.ids = Changed(Interval)] /\ UNCHANGED ticker
  /\ UNCHANGED <<database, fired, sync, store>>

\* The first query: the accounts in the window. When there are none the round ends.
QueryIds ==
  /\ reader.at = "locked"
  /\ IF Changed(Window) = {} THEN EndRound
     ELSE reader' = [reader EXCEPT !.at = "ids", !.ids = Changed(Window)] /\ UNCHANGED ticker
  /\ UNCHANGED <<database, fired, sync, store>>

\* The second query reads them as they are now, and keeps those that are usable.
QueryRows ==
  /\ reader.at = "ids"
  /\ IF reader.ids \cap there = {} THEN EndRound
     ELSE /\ reader' = [at |-> "applying", ids |-> reader.ids \cap there, entries |-> stamp]
          /\ UNCHANGED ticker
  /\ UNCHANGED <<database, fired, sync, store>>

\* applyDirectEntryLocked.
Apply(a) ==
  /\ reader.at = "applying" /\ a \in reader.ids
  /\ applied' = [applied EXCEPT ![a] = reader.entries[a]]
  /\ known' = [known EXCEPT ![a] = reader.entries[a]]
  /\ IF reader.ids = {a} THEN EndRound
     ELSE reader' = [reader EXCEPT !.ids = @ \ {a}] /\ UNCHANGED ticker
  /\ UNCHANGED <<database, fired, sync>>

\* A query or an apply fails: what is left is dropped, and the next round starts anew.
RoundFails ==
  /\ InRound
  /\ EndRound
  /\ lost' = [a \in Accounts |-> AtMost(Slack + 1, lost[a] + Interval)]
  /\ UNCHANGED <<there, stamp, age, fired, sync, store>>

-----------------------------------------------------------------------------
(* Manager.syncOne                                                         *)

SyncBegins ==
  /\ Unlocked
  /\ sync' = [NoSync EXCEPT !.at = "asked"]
  /\ UNCHANGED <<database, ticker, fired, reader, store>>

\* The service looks at its database.
SyncAnswered ==
  /\ sync.at = "asked"
  /\ sync' = [at |-> "answered", snap |-> stamp, live |-> there]
  /\ UNCHANGED <<database, ticker, fired, reader, store>>

\* The snapshot replaces all accounts of the source.
SyncStores ==
  /\ sync.at = "answered" /\ sync' = NoSync
  /\ applied' = [a \in Accounts |-> IF a \in sync.live THEN sync.snap[a] ELSE 0]
  /\ known' = sync.snap
  /\ UNCHANGED <<database, ticker, fired, reader>>

\* The request or the transaction fails, or an empty snapshot is deferred.
SyncEnds ==
  /\ sync.at # "idle" /\ sync' = NoSync
  /\ UNCHANGED <<database, ticker, fired, reader, store>>

Round == Wake \/ Lock \/ QueryIds \/ QueryRows \/ (\E a \in Accounts : Apply(a)) \/ RoundFails

Next ==
  \/ \E a \in Accounts : Refresh(a) \/ Remove(a)
  \/ Tick \/ Round
  \/ SyncBegins \/ SyncAnswered \/ SyncStores \/ SyncEnds

\* Time passes, a request ends at its timeout at the latest, a mutex hands itself to a
\* waiter that starves, and queries end.
Fairness ==
  /\ WF_vars(Tick) /\ SF_vars(Lock)
  /\ WF_vars(Wake \/ QueryIds \/ QueryRows \/ (\E a \in Accounts : Apply(a)) \/ RoundFails)
  /\ WF_vars(SyncStores \/ SyncEnds) /\ WF_vars(SyncAnswered \/ SyncEnds)

Spec == Init /\ [][Next]_vars /\ Fairness

-----------------------------------------------------------------------------
Behind(a) == a \in there /\ applied[a] # stamp[a]

\* The refreshes of a scan are caught up by the next round, and so are those of
\* failed rounds (docs/012), as far as the window goes: a change that is not in the
\* accounts yet is still in the window, also while a round works on it, unless locks
\* and failures have cost more than the window has to spare.
WindowSuffices == \A a \in Accounts : Behind(a) /\ lost[a] <= Slack => age[a] <= Window

\* The account store never goes back to an earlier state of an account: credentials
\* that were replaced do not return, and an account that a full synchronisation
\* removed is not brought back by a round that read it before.
NeverBackwards == [][\A a \in Accounts : known'[a] >= known[a]]_vars

\* A refreshed account reaches the account store, unless it changes again, or locks and
\* failures cost too much.
CatchesUp ==
  \A a \in Accounts : Behind(a) /\ lost[a] <= Slack ~> ~Behind(a) \/ lost[a] > Slack

=============================================================================
