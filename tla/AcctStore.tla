------------------------------ MODULE AcctStore ------------------------------
(***************************************************************************)
(* The account tables of the SQLite store (internal/store): acct_map,      *)
(* which credential fingerprints belong to which account according to      *)
(* which owner; acct_egress, which plain exits an account is bound to;     *)
(* upstreams; and sync_sources with its empty_streak.  The writing pool    *)
(* has one connection, so a transaction is one step.  ClearAcctMapFp is    *)
(* two steps: it selects its rows on the read-only pool and rewrites them  *)
(* in a later transaction.                                                 *)
(*                                                                         *)
(* A (platform, account) pair is one element of Accounts.  An owner is the *)
(* (source, source_type) pair of a row: a pull source with the type of its *)
(* kind, or the push channel 'api' with one of its types.  Ids are         *)
(* AUTOINCREMENT: a deleted source or upstream never comes back.           *)
(*                                                                         *)
(* An operator whose name ends in _Wrong is a plausible mistake in the     *)
(* operator that follows it; only the tests of the properties use it.      *)
(***************************************************************************)
EXTENDS Naturals

CONSTANTS
  Accounts,
  Sources,     \* ids of sync_sources, 'src:<id>'
  PushTypes,   \* source_type values of the push channel 'api'
  Creds,       \* credential fingerprints
  NoCred,      \* the empty fingerprint ''
  Egresses,    \* ids of upstreams
  Platforms,   \* platforms of upstreams
  Modes,       \* 'sticky' and 'random'
  Snapshots,   \* results a full synchronisation may fetch
  Threshold,   \* sync_empty_clear_threshold
  MaxStreak,   \* bound: no empty snapshot finds rows past this streak
  Clears       \* requests of deleteAcctMapToken in flight

Fp == Creds \cup {NoCred}
Owners == Sources \cup PushTypes
Upsert == [acct : Accounts, at : Fp, rt : Fp]
Row == [acct : Accounts, owner : Owners, at : Fp, rt : Fp]
Binding == [acct : Accounts, egress : Egresses, mode : Modes]
Lifecycle == {"unused", "live", "deleted"}

SameKey(r, q) == r.acct = q.acct /\ r.owner = q.owner /\ r.rt = q.rt

\* A list of upserts in which the last row of a key replaced the others.
Keyed(keep) == \A x, y \in keep : x.acct = y.acct /\ x.rt = y.rt => x = y

ASSUME ConstantsAssumption ==
  /\ NoCred \notin Creds
  /\ Sources \cap PushTypes = {}
  /\ Platforms \cap Lifecycle = {}
  /\ Threshold \in Nat \ {0} /\ MaxStreak \in Nat
  /\ \A keep \in Snapshots : keep \subseteq Upsert /\ Keyed(keep)

VARIABLES
  acct_map,      \* set of rows
  acct_egress,   \* set of bindings
  upstreams,     \* upstreams[e]: the platform of e, or "unused", "deleted"
  sync_sources,  \* sync_sources[s]: "unused", "live" or "deleted"
  empty_streak,  \* the column of sync_sources
  clears,        \* clears[c]: the rows ClearAcctMapFp has read and will rewrite
  deferred,      \* history: empty snapshots that found rows and left them, since the
                 \* last one with accounts, without rows to protect, or that cleared
  cleared        \* history: one has cleared since the last one with accounts or
                 \* without rows to protect

history == <<deferred, cleared>>
vars == <<acct_map, acct_egress, upstreams, sync_sources, empty_streak,
          clears, history>>

NoClear == [fp |-> NoCred, hits |-> {}]

TypeOK ==
  /\ acct_map \subseteq Row
  /\ acct_egress \subseteq Binding
  /\ upstreams \in [Egresses -> Platforms \cup Lifecycle]
  /\ sync_sources \in [Sources -> Lifecycle]
  /\ empty_streak \in [Sources -> Nat]
  /\ clears \in [Clears -> [fp : Fp, hits : SUBSET Row]]
  /\ \A c \in Clears : \A h \in clears[c].hits :
       clears[c].fp # NoCred /\ clears[c].fp \in {h.at, h.rt}
  /\ deferred \in [Sources -> Nat] /\ cleared \in [Sources -> BOOLEAN]

Init ==
  /\ acct_map = {} /\ acct_egress = {}
  /\ upstreams = [e \in Egresses |-> "unused"]
  /\ sync_sources = [s \in Sources |-> "unused"]
  /\ empty_streak = [s \in Sources |-> 0]
  /\ clears = [c \in Clears |-> NoClear]
  /\ deferred = [s \in Sources |-> 0] /\ cleared = [s \in Sources |-> FALSE]

Present(a, m) == \E r \in m : r.acct = a
OwnedBy(o, m) == {r \in m : r.owner = o}
Bound(e) == \E b \in acct_egress : b.egress = e

\* The bindings of accounts that still have a row.
gcAcctEgress(b, m) == {x \in b : Present(x.acct, m)}

\* The end of every transaction that writes acct_map.
WriteMap(m) ==
  /\ acct_map' = m
  /\ acct_egress' = gcAcctEgress(acct_egress, m)

-----------------------------------------------------------------------------
(* Pull sources.                                                           *)

CreateSyncSourceConfig(s) ==
  /\ sync_sources[s] = "unused"
  /\ sync_sources' = [sync_sources EXCEPT ![s] = "live"]
  /\ UNCHANGED <<acct_map, acct_egress, upstreams, empty_streak, clears, history>>

OwnRows(s, keep) ==
  {[acct |-> u.acct, owner |-> s, at |-> u.at, rt |-> u.rt] : u \in keep}

\* What a snapshot of source s leaves behind of both histories.
Recall(s, n, c) ==
  /\ deferred' = [deferred EXCEPT ![s] = n]
  /\ cleared' = [cleared EXCEPT ![s] = c]

\* Orphans are collected between the DELETE and the INSERTs.
AlignSource_Wrong(s, keep) ==
  /\ sync_sources[s] = "live" /\ keep # {}
  /\ acct_map' = (acct_map \ OwnedBy(s, acct_map)) \cup OwnRows(s, keep)
  /\ acct_egress' = gcAcctEgress(acct_egress, acct_map \ OwnedBy(s, acct_map))
  /\ empty_streak' = [empty_streak EXCEPT ![s] = 0]
  /\ Recall(s, 0, FALSE)
  /\ UNCHANGED <<upstreams, sync_sources, clears>>

\* A snapshot with accounts: the source's rows are replaced.
AlignSource(s, keep) ==
  /\ sync_sources[s] = "live" /\ keep # {}
  /\ WriteMap((acct_map \ OwnedBy(s, acct_map)) \cup OwnRows(s, keep))
  /\ empty_streak' = [empty_streak EXCEPT ![s] = 0]
  /\ Recall(s, 0, FALSE)
  /\ UNCHANGED <<upstreams, sync_sources, clears>>

\* The streak is compared with its new value, one too early.
EmptySnapshot_Wrong(s) ==
  /\ sync_sources[s] = "live"
  /\ OwnedBy(s, acct_map) # {}
  /\ empty_streak[s] < MaxStreak
  /\ empty_streak' = [empty_streak EXCEPT ![s] = @ + 1]
  /\ IF empty_streak[s] + 2 < Threshold
       THEN UNCHANGED <<acct_map, acct_egress>> /\ Recall(s, deferred[s] + 1, cleared[s])
       ELSE WriteMap(acct_map \ OwnedBy(s, acct_map)) /\ Recall(s, 0, TRUE)
  /\ UNCHANGED <<upstreams, sync_sources, clears>>

\* An empty snapshot: nothing to protect, deferred by the protection, or applied.
\* Only the first of these ends the streak: rows that come back after a clearing
\* find it at the threshold.
EmptySnapshot(s) ==
  /\ sync_sources[s] = "live"
  /\ \/ /\ OwnedBy(s, acct_map) = {}
        /\ empty_streak' = [empty_streak EXCEPT ![s] = 0]
        /\ Recall(s, 0, FALSE)
        /\ UNCHANGED <<acct_map, acct_egress>>
     \/ /\ OwnedBy(s, acct_map) # {}
        /\ empty_streak[s] < MaxStreak
        /\ empty_streak' = [empty_streak EXCEPT ![s] = @ + 1]
        /\ \/ /\ empty_streak[s] + 1 < Threshold
              /\ Recall(s, deferred[s] + 1, cleared[s])
              /\ UNCHANGED <<acct_map, acct_egress>>
           \/ /\ empty_streak[s] + 1 >= Threshold
              /\ Recall(s, 0, TRUE)
              /\ WriteMap(acct_map \ OwnedBy(s, acct_map))
  /\ UNCHANGED <<upstreams, sync_sources, clears>>

\* The reader does not ask whether its source still exists.
ApplyAccountDelta_Wrong(s, up) ==
  /\ WriteMap({r \in acct_map : ~(r.owner = s /\ r.acct = up.acct)} \cup OwnRows(s, {up}))
  /\ UNCHANGED <<upstreams, sync_sources, empty_streak, clears, history>>

\* One account of an incremental reader: both columns are replaced, and two
\* empty ones remove the account from this source.
ApplyAccountDelta(s, up) ==
  /\ sync_sources[s] = "live"
  /\ LET others == {r \in acct_map : ~(r.owner = s /\ r.acct = up.acct)}
     IN  WriteMap(IF up.at = NoCred /\ up.rt = NoCred
                  THEN others ELSE others \cup OwnRows(s, {up}))
  /\ UNCHANGED <<upstreams, sync_sources, empty_streak, clears, history>>

DeleteSyncSource(s) ==
  /\ sync_sources[s] = "live"
  /\ WriteMap(acct_map \ OwnedBy(s, acct_map))
  /\ sync_sources' = [sync_sources EXCEPT ![s] = "deleted"]
  /\ UNCHANGED <<upstreams, empty_streak, clears, history>>

-----------------------------------------------------------------------------
(* The push channel and the account page of the admin API.                 *)

PushRows(a, t, m) == {r \in m : r.owner = t /\ r.acct = a}

\* Only one of the rows is looked at, which may be the one without a value.
Merged_Wrong(new, old) ==
  IF new # NoCred THEN {new} ELSE IF old = {} THEN {NoCred} ELSE old

\* What a submission leaves in a column: its own value, or the last one that
\* was not empty.  Rows written in the same millisecond have no order.
Merged(new, old) ==
  IF new # NoCred THEN {new}
  ELSE IF old \subseteq {NoCred} THEN {NoCred} ELSE old \ {NoCred}

ReplaceAccountSnapshot(t, up) ==
  /\ up.at # NoCred \/ up.rt # NoCred
  /\ LET old == PushRows(up.acct, t, acct_map)
     IN  \E at \in Merged(up.at, {r.at : r \in old}),
            rt \in Merged(up.rt, {r.rt : r \in old}) :
           WriteMap((acct_map \ old) \cup
                    {[acct |-> up.acct, owner |-> t, at |-> at, rt |-> rt]})
  /\ UNCHANGED <<upstreams, sync_sources, empty_streak, clears, history>>

\* The source parameter selects one pull source, the push channel or all owners.
OwnerFilters == {Owners, PushTypes} \cup {{s} : s \in Sources}

DeleteAcctMapAccount(a, owners) ==
  /\ WriteMap({r \in acct_map : ~(r.acct = a /\ r.owner \in owners)})
  /\ UNCHANGED <<upstreams, sync_sources, empty_streak, clears, history>>

\* First half of ClearAcctMapFp: the rows that hold fp, on the read-only pool.
ClearRead(c, a, fp) ==
  /\ clears[c] = NoClear
  /\ LET hits == {r \in acct_map : r.acct = a /\ fp \in {r.at, r.rt}}
     IN  /\ hits # {}
         /\ clears' = [clears EXCEPT ![c] = [fp |-> fp, hits |-> hits]]
  /\ UNCHANGED <<acct_map, acct_egress, upstreams, sync_sources, empty_streak, history>>

\* A row moves to the key with an empty RT although a row is there.
Cleared_Wrong(m, fp, hits) ==
  {r \in m : ~\E h \in hits : SameKey(r, h)} \cup
  {[h EXCEPT !.rt = NoCred] : h \in {x \in hits : x.at \notin {fp, NoCred}}}

\* What the second half leaves of map m.  A hit on AT blanks the column in the
\* row that now has the key, or deletes that row when RT was empty.  A hit on
\* RT moves the access token it read to the key with an empty RT.  Rows come in
\* key order, so the hit with an empty RT is handled before a row moves there.
Cleared(m, fp, hits) ==
  LET HasKeyIn(r, S) == \E h \in S : SameKey(r, h)
      blanked == {h \in hits : h.at = fp /\ h.rt # NoCred}
      moved   == {[h EXCEPT !.rt = NoCred] : h \in {x \in hits : x.at \notin {fp, NoCred}}}
      gone    == (hits \ blanked) \cup moved
  IN  {[r EXCEPT !.at = IF HasKeyIn(r, blanked) THEN NoCred ELSE @] :
         r \in {x \in m : ~HasKeyIn(x, gone)}} \cup moved

\* Second half: one transaction over the rows read before.
ClearCommit(c) ==
  /\ clears[c] # NoClear
  /\ WriteMap(Cleared(acct_map, clears[c].fp, clears[c].hits))
  /\ clears' = [clears EXCEPT ![c] = NoClear]
  /\ UNCHANGED <<upstreams, sync_sources, empty_streak, history>>

-----------------------------------------------------------------------------
(* Bindings and upstreams.                                                 *)

UnchangedButBindings ==
  UNCHANGED <<acct_map, upstreams, sync_sources, empty_streak, clears, history>>

\* The account may have gone since the caller looked.
ReplaceAccountBinding_Wrong(a, mode, ids) ==
  /\ acct_egress' = {b \in acct_egress : b.acct # a} \cup
       {[acct |-> a, egress |-> e, mode |-> mode] : e \in ids}
  /\ UnchangedButBindings

ReplaceAccountBinding(a, mode, ids) ==
  /\ acct_egress' = gcAcctEgress(
       {b \in acct_egress : b.acct # a} \cup
       {[acct |-> a, egress |-> e, mode |-> mode] : e \in ids}, acct_map)
  /\ UnchangedButBindings

ClearAcctEgress ==
  /\ acct_egress' = {}
  /\ UnchangedButBindings

\* An account already bound to this exit keeps the mode it has there.
ModesAt(a, e) == {b.mode : b \in {x \in acct_egress : x.acct = a /\ x.egress = e}}

ReplaceEgressAccounts(e, assign, mode) ==
  /\ acct_egress' = gcAcctEgress(
       {b \in acct_egress : b.egress # e} \cup
       {x \in Binding : /\ x.acct \in assign /\ x.egress = e
                        /\ x.mode \in IF ModesAt(x.acct, e) = {}
                                      THEN {mode} ELSE ModesAt(x.acct, e)}, acct_map)
  /\ UnchangedButBindings

CreateUpstream(e, p) ==
  /\ upstreams[e] = "unused"
  /\ upstreams' = [upstreams EXCEPT ![e] = p]
  /\ UNCHANGED <<acct_map, acct_egress, sync_sources, empty_streak, clears, history>>

\* Bindings do not hold the platform.
UpdateUpstream_Wrong(e, p) ==
  /\ upstreams[e] \in Platforms
  /\ upstreams' = [upstreams EXCEPT ![e] = p]
  /\ UNCHANGED <<acct_map, acct_egress, sync_sources, empty_streak, clears, history>>

\* The UPDATE finds no row when the platform changes under bindings.
UpdateUpstream(e, p) ==
  /\ upstreams[e] \in Platforms
  /\ p = upstreams[e] \/ ~Bound(e)
  /\ upstreams' = [upstreams EXCEPT ![e] = p]
  /\ UNCHANGED <<acct_map, acct_egress, sync_sources, empty_streak, clears, history>>

DeleteUpstream(e) ==
  /\ upstreams[e] \in Platforms
  /\ acct_egress' = {b \in acct_egress : b.egress # e}
  /\ upstreams' = [upstreams EXCEPT ![e] = "deleted"]
  /\ UNCHANGED <<acct_map, sync_sources, empty_streak, clears, history>>

-----------------------------------------------------------------------------
\* The callers check the exits they name; the store takes any id once issued.
Issued == {e \in Egresses : upstreams[e] # "unused"}

SourceStep ==
  \E s \in Sources :
    \/ CreateSyncSourceConfig(s)
    \/ \E keep \in Snapshots : AlignSource(s, keep)
    \/ EmptySnapshot(s)
    \/ \E up \in Upsert : ApplyAccountDelta(s, up)
    \/ DeleteSyncSource(s)

AccountStep ==
  \/ \E t \in PushTypes, up \in Upsert : ReplaceAccountSnapshot(t, up)
  \/ \E a \in Accounts, owners \in OwnerFilters : DeleteAcctMapAccount(a, owners)
  \/ \E c \in Clears, a \in Accounts, fp \in Creds : ClearRead(c, a, fp)
  \/ \E c \in Clears : ClearCommit(c)

BindingStep ==
  \/ \E a \in Accounts, mode \in Modes, ids \in SUBSET Issued :
       ReplaceAccountBinding(a, mode, ids)
  \/ ClearAcctEgress
  \/ \E e \in Issued, assign \in SUBSET Accounts, mode \in Modes :
       ReplaceEgressAccounts(e, assign, mode)

UpstreamStep ==
  \E e \in Egresses :
    \/ \E p \in Platforms : CreateUpstream(e, p) \/ UpdateUpstream(e, p)
    \/ DeleteUpstream(e)

Next == SourceStep \/ AccountStep \/ BindingStep \/ UpstreamStep

Spec == Init /\ [][Next]_vars

-----------------------------------------------------------------------------
(* Properties.                                                             *)

\* A binding only exists for an account that some row of acct_map names: every
\* transaction that writes acct_map or inserts bindings collects the orphans
\* (acctegress.go:4-8; a lemma of the
\* proofs, BindingsFollowAccounts is the stronger statement).
NoOrphanBinding == \A b \in acct_egress : Present(b.acct, acct_map)

\* No transaction leaves two rows with one primary key: each would have failed
\* on the UNIQUE constraint instead, ClearAcctMapFp above all, which moves a
\* row to another key (acctmap.go:270-271).
KeysUnique ==
  /\ \A r, q \in acct_map : SameKey(r, q) => r = q
  /\ \A b, d \in acct_egress : b.acct = d.acct /\ b.egress = d.egress => b = d

\* However a transaction rewrites the rows of an account, its bindings stay as
\* long as one row is left and go with the last one: a snapshot that deletes
\* and reinserts an account must not unbind it (acctmap.go:227-229).
BindingsFollowAccounts ==
  [][acct_map' # acct_map =>
       \A b \in acct_egress : b \in acct_egress' <=> Present(b.acct, acct_map')]_vars

\* While an upstream has bindings its platform does not change; only deleting
\* it, bindings included, ends that (store.go:637-666, 694-707).
BoundPlatformFrozen ==
  [][\A e \in Egresses :
       Bound(e) /\ upstreams'[e] # upstreams[e] =>
         upstreams'[e] = "deleted" /\ \A b \in acct_egress' : b.egress # e]_vars

\* An empty snapshot removes rows only if at least Threshold - 1 others before it
\* found rows and left them, with no snapshot in between that had accounts, found
\* nothing to protect or cleared; or if one has cleared and none of the first two
\* kinds came after it.  The last case is the code's, and DESIGN.md:1004's: the
\* streak stays at the threshold after a clearing, and a delta, which may bring an
\* account back, does not end it (acctegress.go:254-286).
EmptySnapshotGuarded ==
  [][\A s \in Sources :
       EmptySnapshot(s) /\ OwnedBy(s, acct_map) # OwnedBy(s, acct_map') =>
         deferred[s] + 1 >= Threshold \/ cleared[s]]_vars

\* The invariant that makes the guard above mean what it says (a lemma of the
\* proofs): the stored streak counts nothing but deferred empty snapshots, unless
\* it is the one a clearing has left.
StreakJustified ==
  \A s \in Sources : empty_streak[s] <= deferred[s] \/ cleared[s]

\* A push that rotates one kind of credential never drops the other one
\* (acctmap.go:145-147), whatever rows a token deletion left behind: where a row
\* of the push channel loses its values, no submission was the reason.
PushKeepsOtherCredential ==
  [][\A t \in PushTypes : \A r \in OwnedBy(t, acct_map) :
       \/ \E q \in PushRows(r.acct, t, acct_map') :
            /\ r.at # NoCred => q.at # NoCred
            /\ r.rt # NoCred => q.rt # NoCred
       \/ ~\E up \in Upsert : up.acct = r.acct /\ ReplaceAccountSnapshot(t, up)]_vars

\* Once a source is deleted, no synchronisation adds a row of it: a reader that
\* was still working finds the source gone (acctmap.go:609-610).  The second
\* half of ClearAcctMapFp is the one step this does not cover.
SyncRespectsDeletion ==
  [][\A s \in Sources :
       sync_sources[s] # "live" /\ ~(\E c \in Clears : ClearCommit(c)) =>
         OwnedBy(s, acct_map') \subseteq OwnedBy(s, acct_map)]_vars

\* What DeleteSyncSource promises: no mapping of the source comes back
\* (acctmap.go:609-610).
NoRowsOfDeletedSource ==
  \A r \in acct_map : r.owner \in Sources => sync_sources[r.owner] = "live"

\* What the schema promises: all bindings of an account have one mode
\* (store.go:120, acctegress.go:4-5).
OneModePerAccount ==
  \A b, d \in acct_egress : b.acct = d.acct => b.mode = d.mode

\* The tables implement the life of accounts and their bindings.
Life == INSTANCE BindingLife WITH
  alive <- {r.acct : r \in acct_map},
  bound <- {b.acct : b \in acct_egress}
ImplementsLife == Life!Spec
=============================================================================
