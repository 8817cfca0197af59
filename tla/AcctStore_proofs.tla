--------------------------- MODULE AcctStore_proofs ---------------------------
(***************************************************************************)
(* Proofs about AcctStore, for every set of accounts, sources, credentials *)
(* and exits and every threshold.                                          *)
(***************************************************************************)
EXTENDS AcctStore, TLAPS

-----------------------------------------------------------------------------
(* Type correctness.                                                       *)

\* Writing acct_map keeps both tables well typed.
LEMMA WriteMapType ==
  ASSUME TypeOK, NEW m \in SUBSET Row, WriteMap(m)
  PROVE  acct_map' \subseteq Row /\ acct_egress' \subseteq Binding
BY DEF TypeOK, WriteMap, gcAcctEgress

\* The rows a source writes are rows.
LEMMA OwnRowsType ==
  ASSUME NEW s \in Sources, NEW keep \in SUBSET Upsert
  PROVE  OwnRows(s, keep) \subseteq Row
BY DEF OwnRows, Upsert, Row, Owners

\* A token deletion writes rows.
LEMMA ClearedType ==
  ASSUME NEW m \in SUBSET Row, NEW fp, NEW hits \in SUBSET Row
  PROVE  Cleared(m, fp, hits) \subseteq Row
BY DEF Cleared, Row, Fp

\* Initially every variable has its type.
LEMMA InitType == Init => TypeOK
BY DEF Init, TypeOK, NoClear, Fp, Lifecycle

\* What a snapshot leaves of the histories keeps their types.
LEMMA RecallType ==
  ASSUME TypeOK, NEW s \in Sources, NEW n \in Nat, NEW c \in BOOLEAN, Recall(s, n, c)
  PROVE  deferred' \in [Sources -> Nat] /\ cleared' \in [Sources -> BOOLEAN]
<1>1. deferred' \in [Sources -> Nat]
  BY DEF TypeOK, Recall
<1>2. cleared' = [x \in Sources |-> IF x = s THEN c ELSE cleared[x]]
  BY Zenon DEF TypeOK, Recall
<1>3. \A x \in Sources : cleared[x] \in BOOLEAN
  BY Zenon DEF TypeOK
<1>4. cleared' \in [Sources -> BOOLEAN]
  BY <1>2, <1>3, Zenon
<1> QED
  BY <1>1, <1>4

\* No step of a source breaks the types.
LEMMA SourceType == TypeOK /\ SourceStep => TypeOK'
<1> SUFFICES ASSUME TypeOK, NEW s \in Sources,
                    \/ CreateSyncSourceConfig(s)
                    \/ \E keep \in Snapshots : AlignSource(s, keep)
                    \/ EmptySnapshot(s)
                    \/ \E up \in Upsert : ApplyAccountDelta(s, up)
                    \/ DeleteSyncSource(s)
             PROVE  TypeOK'
  BY DEF SourceStep
<1>1. CASE CreateSyncSourceConfig(s)
  BY <1>1 DEF TypeOK, CreateSyncSourceConfig, Lifecycle, history
<1>2. ASSUME NEW keep \in Snapshots, AlignSource(s, keep)
      PROVE  TypeOK'
  <2>1. (acct_map \ OwnedBy(s, acct_map)) \cup OwnRows(s, keep) \in SUBSET Row
    BY OwnRowsType, ConstantsAssumption DEF TypeOK
  <2>2. acct_map' \subseteq Row /\ acct_egress' \subseteq Binding
    BY <1>2, <2>1, WriteMapType DEF AlignSource
  <2>3. deferred' \in [Sources -> Nat] /\ cleared' \in [Sources -> BOOLEAN]
    <3>1. Recall(s, 0, FALSE)
      BY <1>2 DEF AlignSource
    <3> QED
      BY <3>1, RecallType
  <2>4. empty_streak' \in [Sources -> Nat]
    BY <1>2 DEF TypeOK, AlignSource
  <2> QED
    BY <1>2, <2>2, <2>3, <2>4 DEF TypeOK, AlignSource
<1>3. CASE EmptySnapshot(s)
  <2>1. acct_map \ OwnedBy(s, acct_map) \in SUBSET Row
    BY DEF TypeOK
  <2>2. acct_map' \subseteq Row /\ acct_egress' \subseteq Binding
    BY <1>3, <2>1, WriteMapType DEF EmptySnapshot, TypeOK
  <2>3. empty_streak' \in [Sources -> Nat]
    <3>1. \/ empty_streak' = [empty_streak EXCEPT ![s] = 0]
          \/ empty_streak' = [empty_streak EXCEPT ![s] = @ + 1]
      BY <1>3 DEF EmptySnapshot
    <3> QED
      BY <3>1 DEF TypeOK
  <2>4. deferred' \in [Sources -> Nat] /\ cleared' \in [Sources -> BOOLEAN]
    <3>1. \/ Recall(s, 0, FALSE)
          \/ Recall(s, deferred[s] + 1, cleared[s])
          \/ Recall(s, 0, TRUE)
      BY <1>3 DEF EmptySnapshot
    <3>2. deferred[s] + 1 \in Nat
      BY DEF TypeOK
    <3>3. cleared[s] \in BOOLEAN
      BY Zenon DEF TypeOK
    <3> QED
      BY <3>1, <3>2, <3>3, RecallType
  <2> QED
    BY <1>3, <2>2, <2>3, <2>4 DEF TypeOK, EmptySnapshot
<1>4. ASSUME NEW up \in Upsert, ApplyAccountDelta(s, up)
      PROVE  TypeOK'
  <2> DEFINE others == {r \in acct_map : ~(r.owner = s /\ r.acct = up.acct)}
  <2>1. others \in SUBSET Row /\ others \cup OwnRows(s, {up}) \in SUBSET Row
    BY OwnRowsType DEF TypeOK
  <2>2. acct_map' \subseteq Row /\ acct_egress' \subseteq Binding
    BY <1>4, <2>1, WriteMapType DEF ApplyAccountDelta
  <2> QED
    BY <1>4, <2>2 DEF TypeOK, ApplyAccountDelta, history
<1>5. CASE DeleteSyncSource(s)
  <2>1. acct_map \ OwnedBy(s, acct_map) \in SUBSET Row
    BY DEF TypeOK
  <2>2. acct_map' \subseteq Row /\ acct_egress' \subseteq Binding
    BY <1>5, <2>1, WriteMapType DEF DeleteSyncSource
  <2> QED
    BY <1>5, <2>2 DEF TypeOK, DeleteSyncSource, Lifecycle, history
<1> QED
  BY <1>1, <1>2, <1>3, <1>4, <1>5

\* What a push leaves in a column is a fingerprint or empty.
LEMMA MergedType ==
  ASSUME NEW new \in Fp, NEW old \in SUBSET Fp
  PROVE  Merged(new, old) \subseteq Fp
BY DEF Merged, Fp

\* No step of the push channel or the account page breaks the types.
LEMMA AccountType == TypeOK /\ AccountStep => TypeOK'
<1> SUFFICES ASSUME TypeOK, AccountStep PROVE TypeOK'
  OBVIOUS
<1>1. ASSUME NEW t \in PushTypes, NEW up \in Upsert, ReplaceAccountSnapshot(t, up)
      PROVE  TypeOK'
  <2> DEFINE old == PushRows(up.acct, t, acct_map)
  <2>1. PICK at \in Merged(up.at, {r.at : r \in old}),
             rt \in Merged(up.rt, {r.rt : r \in old}) :
               WriteMap((acct_map \ old) \cup
                        {[acct |-> up.acct, owner |-> t, at |-> at, rt |-> rt]})
    BY <1>1 DEF ReplaceAccountSnapshot
  <2>2. {r.at : r \in old} \in SUBSET Fp /\ {r.rt : r \in old} \in SUBSET Fp
    BY DEF PushRows, TypeOK, Row
  <2>3. up.at \in Fp /\ up.rt \in Fp /\ up.acct \in Accounts
    BY DEF Upsert
  <2>4. at \in Fp /\ rt \in Fp
    BY <2>2, <2>3, MergedType
  <2>5. (acct_map \ old) \cup {[acct |-> up.acct, owner |-> t, at |-> at, rt |-> rt]}
          \in SUBSET Row
    BY <2>3, <2>4 DEF TypeOK, Row, Owners
  <2>6. acct_map' \subseteq Row /\ acct_egress' \subseteq Binding
    BY <2>1, <2>5, WriteMapType
  <2> QED
    BY <1>1, <2>6 DEF TypeOK, ReplaceAccountSnapshot, history
<1>2. ASSUME NEW a \in Accounts, NEW owners \in OwnerFilters, DeleteAcctMapAccount(a, owners)
      PROVE  TypeOK'
  <2>1. {r \in acct_map : ~(r.acct = a /\ r.owner \in owners)} \in SUBSET Row
    BY DEF TypeOK
  <2>2. acct_map' \subseteq Row /\ acct_egress' \subseteq Binding
    BY <1>2, <2>1, WriteMapType DEF DeleteAcctMapAccount
  <2> QED
    BY <1>2, <2>2 DEF TypeOK, DeleteAcctMapAccount, history
<1>3. ASSUME NEW c \in Clears, NEW a \in Accounts, NEW fp \in Creds, ClearRead(c, a, fp)
      PROVE  TypeOK'
  <2> DEFINE hits == {r \in acct_map : r.acct = a /\ fp \in {r.at, r.rt}}
  <2>1. clears' = [clears EXCEPT ![c] = [fp |-> fp, hits |-> hits]]
    BY <1>3 DEF ClearRead
  <2>2. [fp |-> fp, hits |-> hits] \in [fp : Fp, hits : SUBSET Row]
    BY DEF TypeOK, Fp
  <2>3. clears' \in [Clears -> [fp : Fp, hits : SUBSET Row]]
    BY <2>1, <2>2 DEF TypeOK
  <2>4. \A k \in Clears : \A h \in clears'[k].hits :
          clears'[k].fp # NoCred /\ clears'[k].fp \in {h.at, h.rt}
    BY <2>1, ConstantsAssumption DEF TypeOK
  <2> QED
    BY <1>3, <2>3, <2>4 DEF TypeOK, ClearRead, history
<1>4. ASSUME NEW c \in Clears, ClearCommit(c)
      PROVE  TypeOK'
  <2>1. Cleared(acct_map, clears[c].fp, clears[c].hits) \in SUBSET Row
    BY ClearedType DEF TypeOK
  <2>2. acct_map' \subseteq Row /\ acct_egress' \subseteq Binding
    BY <1>4, <2>1, WriteMapType DEF ClearCommit
  <2>3. clears' = [clears EXCEPT ![c] = NoClear]
    BY <1>4 DEF ClearCommit
  <2>4. clears' \in [Clears -> [fp : Fp, hits : SUBSET Row]]
    BY <2>3 DEF TypeOK, NoClear, Fp
  <2>5. \A k \in Clears : \A h \in clears'[k].hits :
          clears'[k].fp # NoCred /\ clears'[k].fp \in {h.at, h.rt}
    BY <2>3 DEF TypeOK, NoClear
  <2> QED
    BY <1>4, <2>2, <2>4, <2>5 DEF TypeOK, ClearCommit, history
<1> QED
  BY <1>1, <1>2, <1>3, <1>4 DEF AccountStep

\* No step of the bindings breaks the types.
LEMMA BindingType == TypeOK /\ BindingStep => TypeOK'
<1> SUFFICES ASSUME TypeOK, BindingStep PROVE acct_egress' \subseteq Binding /\ UnchangedButBindings
  BY DEF TypeOK, UnchangedButBindings, history
<1>1. ASSUME NEW a \in Accounts, NEW mode \in Modes, NEW ids \in SUBSET Issued,
             ReplaceAccountBinding(a, mode, ids)
      PROVE  acct_egress' \subseteq Binding /\ UnchangedButBindings
  BY <1>1 DEF ReplaceAccountBinding, TypeOK, gcAcctEgress, Binding, Issued
<1>2. ASSUME ClearAcctEgress
      PROVE  acct_egress' \subseteq Binding /\ UnchangedButBindings
  BY <1>2 DEF ClearAcctEgress
<1>3. ASSUME NEW e \in Issued, NEW assign \in SUBSET Accounts, NEW mode \in Modes,
             ReplaceEgressAccounts(e, assign, mode)
      PROVE  acct_egress' \subseteq Binding /\ UnchangedButBindings
  BY <1>3 DEF ReplaceEgressAccounts, TypeOK, gcAcctEgress
<1> QED
  BY <1>1, <1>2, <1>3 DEF BindingStep

\* No step of the upstreams breaks the types.
LEMMA UpstreamType == TypeOK /\ UpstreamStep => TypeOK'
BY DEF TypeOK, UpstreamStep, CreateUpstream, UpdateUpstream, DeleteUpstream, Lifecycle, history

\* Every variable keeps its type, and a token deletion in flight only holds
\* rows that have its fingerprint (ClearAcctMapFp).
THEOREM TypeCorrect == Spec => []TypeOK
<1>1. TypeOK /\ [Next]_vars => TypeOK'
  <2> SUFFICES ASSUME TypeOK, [Next]_vars PROVE TypeOK'
    OBVIOUS
  <2>1. CASE UNCHANGED vars
    BY <2>1 DEF TypeOK, vars, history
  <2> QED
    BY <2>1, SourceType, AccountType, BindingType, UpstreamType
       DEF Next, TypeOK, UnchangedButBindings
<1> QED
  BY InitType, <1>1, PTL DEF Spec

-----------------------------------------------------------------------------
(* Orphans.                                                                *)

\* A step writes acct_map and collects the orphans, or leaves it alone.
LEMMA MapSteps ==
  ASSUME Next
  PROVE  \/ acct_egress' = gcAcctEgress(acct_egress, acct_map')
         \/ acct_map' = acct_map /\ acct_egress' = acct_egress
         \/ acct_map' = acct_map /\ BindingStep
         \/ acct_map' = acct_map /\ \E e \in Egresses : DeleteUpstream(e)
<1> DEFINE Goal == \/ acct_egress' = gcAcctEgress(acct_egress, acct_map')
                   \/ acct_map' = acct_map /\ acct_egress' = acct_egress
                   \/ acct_map' = acct_map /\ BindingStep
                   \/ acct_map' = acct_map /\ \E e \in Egresses : DeleteUpstream(e)
<1>1. ASSUME SourceStep PROVE Goal
  BY <1>1 DEF SourceStep, CreateSyncSourceConfig, AlignSource, EmptySnapshot,
              ApplyAccountDelta, DeleteSyncSource, WriteMap
<1>2. ASSUME AccountStep PROVE Goal
  BY <1>2 DEF AccountStep, ReplaceAccountSnapshot, DeleteAcctMapAccount,
              ClearRead, ClearCommit, WriteMap
<1>3. ASSUME BindingStep PROVE Goal
  BY <1>3 DEF BindingStep, ReplaceAccountBinding, ClearAcctEgress,
              ReplaceEgressAccounts, UnchangedButBindings
<1>4. ASSUME UpstreamStep PROVE Goal
  BY <1>4 DEF UpstreamStep, CreateUpstream, UpdateUpstream, DeleteUpstream
<1> QED
  BY <1>1, <1>2, <1>3, <1>4 DEF Next

\* The bindings the administrator writes belong to accounts that exist.
LEMMA BindingStepAccounts ==
  ASSUME BindingStep
  PROVE  \A b \in acct_egress' : Present(b.acct, acct_map)
BY DEF BindingStep, ReplaceAccountBinding, ClearAcctEgress,
       ReplaceEgressAccounts, gcAcctEgress

\* No binding outlives the last row of its account (gcAcctEgress at the end
\* of every transaction that writes acct_map or inserts bindings).
THEOREM BindingsHaveAccounts == Spec => []NoOrphanBinding
<1>1. Init => NoOrphanBinding
  BY DEF Init, NoOrphanBinding
<1>2. NoOrphanBinding /\ [Next]_vars => NoOrphanBinding'
  <2> SUFFICES ASSUME NoOrphanBinding, Next PROVE NoOrphanBinding'
    BY DEF NoOrphanBinding, vars, Present
  <2>1. CASE acct_egress' = gcAcctEgress(acct_egress, acct_map')
    BY <2>1 DEF NoOrphanBinding, gcAcctEgress
  <2>2. CASE acct_map' = acct_map /\ acct_egress' = acct_egress
    BY <2>2 DEF NoOrphanBinding, Present
  <2>3. CASE acct_map' = acct_map /\ BindingStep
    BY <2>3, BindingStepAccounts DEF NoOrphanBinding, Present
  <2>4. CASE acct_map' = acct_map /\ \E e \in Egresses : DeleteUpstream(e)
    BY <2>4 DEF NoOrphanBinding, DeleteUpstream, Present
  <2> QED
    BY <2>1, <2>2, <2>3, <2>4, MapSteps
<1> QED
  BY <1>1, <1>2, PTL DEF Spec

\* Rewriting the rows of an account keeps its bindings until the last row is
\* gone, and drops them then: whatever the transaction, bindings are filtered
\* against the map it leaves (acctmap.go:227-229).
THEOREM BindingsFollow == Spec => BindingsFollowAccounts
<1>1. ASSUME Next, acct_map' # acct_map
      PROVE  \A b \in acct_egress : b \in acct_egress' <=> Present(b.acct, acct_map')
  BY <1>1, MapSteps DEF gcAcctEgress
<1>2. [Next]_vars =>
        [acct_map' # acct_map =>
           \A b \in acct_egress : b \in acct_egress' <=> Present(b.acct, acct_map')]_vars
  BY <1>1
<1> QED
  BY <1>2, PTL DEF Spec, BindingsFollowAccounts

-----------------------------------------------------------------------------
(* The abstract life of accounts and bindings.                             *)

\* The tables implement BindingLife: a transaction that writes the map is an
\* AccountsChange, one that writes bindings alone a BindingsChange.
THEOREM Implements == Spec => ImplementsLife
<1> DEFINE alive == {r.acct : r \in acct_map}
           bound == {b.acct : b \in acct_egress}
<1>1. Init => Life!Init
  BY DEF Init, Life!Init
<1>2. ASSUME TypeOK, TypeOK', NoOrphanBinding, [Next]_vars
      PROVE  [Life!Next]_<<alive, bound>>
  <2> SUFFICES ASSUME Next PROVE [Life!Next]_<<alive, bound>>
    BY <1>2 DEF vars
  <2>1. alive' \in SUBSET Accounts
    BY <1>2 DEF TypeOK, Row
  <2>2. CASE acct_egress' = gcAcctEgress(acct_egress, acct_map')
    <3>1. bound' = bound \cap alive'
      BY <2>2 DEF gcAcctEgress, Present
    <3> QED
      BY <2>1, <3>1 DEF Life!Next, Life!AccountsChange
  <2>3. CASE acct_map' = acct_map /\ acct_egress' = acct_egress
    BY <2>3
  <2>4. CASE acct_map' = acct_map /\ BindingStep
    <3>1. bound' \in SUBSET alive
      BY <2>4, BindingStepAccounts DEF Present
    <3> QED
      BY <2>4, <3>1 DEF Life!Next, Life!BindingsChange
  <2>5. CASE acct_map' = acct_map /\ \E e \in Egresses : DeleteUpstream(e)
    <3>1. bound' \in SUBSET alive
      BY <1>2, <2>5 DEF DeleteUpstream, NoOrphanBinding, Present
    <3> QED
      BY <2>5, <3>1 DEF Life!Next, Life!BindingsChange
  <2> QED
    BY <2>2, <2>3, <2>4, <2>5, MapSteps
<1> QED
  BY <1>1, <1>2, TypeCorrect, BindingsHaveAccounts, PTL DEF Spec, ImplementsLife, Life!Spec

-----------------------------------------------------------------------------
(* The protection against empty snapshots.                                 *)

\* The streak in the table counts deferred snapshots, or is what a clearing left.
LEMMA StreakStep == TypeOK /\ StreakJustified /\ [Next]_vars => StreakJustified'
<1> SUFFICES ASSUME TypeOK, StreakJustified, [Next]_vars PROVE StreakJustified'
  OBVIOUS
<1>1. CASE UNCHANGED <<empty_streak, history>>
  BY <1>1 DEF StreakJustified, history
<1>2. ASSUME NEW s \in Sources, NEW keep \in Snapshots, AlignSource(s, keep)
      PROVE  StreakJustified'
  BY <1>2 DEF AlignSource, Recall, StreakJustified, TypeOK
<1>3. ASSUME NEW s \in Sources, EmptySnapshot(s)
      PROVE  StreakJustified'
  <2>1. CASE empty_streak' = [empty_streak EXCEPT ![s] = 0] /\ Recall(s, 0, FALSE)
    BY <2>1 DEF Recall, StreakJustified, TypeOK
  <2>2. CASE /\ empty_streak' = [empty_streak EXCEPT ![s] = @ + 1]
             /\ Recall(s, deferred[s] + 1, cleared[s])
    BY <2>2 DEF Recall, StreakJustified, TypeOK
  <2>3. CASE /\ empty_streak' = [empty_streak EXCEPT ![s] = @ + 1]
             /\ Recall(s, 0, TRUE)
    BY <2>3 DEF Recall, StreakJustified, TypeOK
  <2> QED
    BY <1>3, <2>1, <2>2, <2>3 DEF EmptySnapshot
<1> QED
  <2>1. CASE SourceStep
    BY <2>1, <1>1, <1>2, <1>3
       DEF SourceStep, CreateSyncSourceConfig, ApplyAccountDelta, DeleteSyncSource
  <2>2. CASE AccountStep
    BY <2>2, <1>1 DEF AccountStep, ReplaceAccountSnapshot, DeleteAcctMapAccount,
                      ClearRead, ClearCommit
  <2>3. CASE BindingStep
    BY <2>3, <1>1 DEF BindingStep, ReplaceAccountBinding, ClearAcctEgress,
                      ReplaceEgressAccounts, UnchangedButBindings
  <2>4. CASE UpstreamStep
    BY <2>4, <1>1 DEF UpstreamStep, CreateUpstream, UpdateUpstream, DeleteUpstream
  <2>5. CASE UNCHANGED vars
    BY <2>5, <1>1 DEF vars
  <2> QED
    BY <2>1, <2>2, <2>3, <2>4, <2>5 DEF Next

\* The stored streak never runs ahead of the snapshots deferred, except for what
\* a clearing leaves (AlignSource and a source without rows reset both).
LEMMA StreakIsJustified == Spec => []StreakJustified
<1>1. Init => StreakJustified
  BY DEF Init, StreakJustified
<1> QED
  BY <1>1, StreakStep, TypeCorrect, PTL DEF Spec

\* Empty snapshots clear a source only once Threshold - 1 of them were deferred in
\* a row, or after an earlier clearing (acctegress.go:254-286).
THEOREM EmptyGuarded == Spec => EmptySnapshotGuarded
<1>1. ASSUME TypeOK, StreakJustified, NEW s \in Sources, EmptySnapshot(s),
             OwnedBy(s, acct_map) # OwnedBy(s, acct_map')
      PROVE  deferred[s] + 1 >= Threshold \/ cleared[s]
  <2>1. acct_map' # acct_map
    BY <1>1
  <2>2. empty_streak[s] + 1 >= Threshold
    BY <1>1, <2>1 DEF EmptySnapshot
  <2> QED
    BY <1>1, <2>2, ConstantsAssumption DEF StreakJustified, TypeOK
<1>2. TypeOK /\ StreakJustified =>
        [\A s \in Sources :
           EmptySnapshot(s) /\ OwnedBy(s, acct_map) # OwnedBy(s, acct_map') =>
             deferred[s] + 1 >= Threshold \/ cleared[s]]_vars
  BY <1>1
<1> QED
  BY <1>2, TypeCorrect, StreakIsJustified, PTL DEF EmptySnapshotGuarded

-----------------------------------------------------------------------------
(* Primary keys.                                                           *)

RowsUnique(m) == \A r, q \in m : SameKey(r, q) => r = q
BindingsUnique(b) == \A x, y \in b : x.acct = y.acct /\ x.egress = y.egress => x = y

\* KeysUnique is not inductive: the second half of ClearAcctMapFp also writes
\* rows it read before, so those too have distinct keys.
HitsUnique == \A c \in Clears : RowsUnique(clears[c].hits)
KeysInv == RowsUnique(acct_map) /\ BindingsUnique(acct_egress) /\ HitsUnique

\* What a token deletion leaves has distinct keys: blanking a column changes no
\* key, a moved row is a hit on RT, so two of them that meet were one row, and
\* a row that already has the key of a moved one is gone.
LEMMA ClearedUnique ==
  ASSUME NEW m \in SUBSET Row, RowsUnique(m),
         NEW fp, NEW hits \in SUBSET Row, RowsUnique(hits),
         \A h \in hits : fp # NoCred /\ fp \in {h.at, h.rt}
  PROVE  RowsUnique(Cleared(m, fp, hits))
<1> DEFINE HasKeyIn(r, S) == \E h \in S : SameKey(r, h)
           blanked == {h \in hits : h.at = fp /\ h.rt # NoCred}
           onRt    == {x \in hits : x.at \notin {fp, NoCred}}
           moved   == {[h EXCEPT !.rt = NoCred] : h \in onRt}
           gone    == (hits \ blanked) \cup moved
           stay    == {x \in m : ~HasKeyIn(x, gone)}
           Blank(r) == [r EXCEPT !.at = IF HasKeyIn(r, blanked) THEN NoCred ELSE @]
           kept    == {Blank(r) : r \in stay}
<1>1. Cleared(m, fp, hits) = kept \cup moved
  BY DEF Cleared
<1>2. \A x \in stay : x \in Row /\ SameKey(Blank(x), x)
  BY DEF SameKey, Row
<1>3. \A h \in onRt : h \in Row /\ h.rt = fp
  OBVIOUS
<1>4. RowsUnique(kept)
  <2> HIDE DEF Blank, stay
  <2> SUFFICES ASSUME NEW x \in stay, NEW y \in stay, SameKey(Blank(x), Blank(y))
               PROVE  Blank(x) = Blank(y)
    BY DEF RowsUnique
  <2>1. SameKey(x, y)
    BY <1>2 DEF SameKey
  <2>2. x = y
    BY <2>1 DEF RowsUnique, stay
  <2> QED
    BY <2>2
<1>5. RowsUnique(moved)
  <2> SUFFICES ASSUME NEW g \in onRt, NEW h \in onRt,
                      SameKey([g EXCEPT !.rt = NoCred], [h EXCEPT !.rt = NoCred])
               PROVE  g = h
    BY DEF RowsUnique
  <2>1. SameKey(g, h)
    BY <1>3 DEF SameKey, Row
  <2> QED
    BY <2>1 DEF RowsUnique
<1>6. \A r \in kept, q \in moved : ~SameKey(r, q) /\ ~SameKey(q, r)
  <2> SUFFICES ASSUME NEW x \in stay, NEW q \in moved,
                      SameKey(Blank(x), q) \/ SameKey(q, Blank(x))
               PROVE  FALSE
    OBVIOUS
  <2>1. SameKey(x, q)
    BY <1>2 DEF SameKey
  <2> QED
    BY <2>1
<1> HIDE DEF kept, moved
<1> QED
  BY <1>1, <1>4, <1>5, <1>6 DEF RowsUnique

\* A write of acct_map keeps every key distinct when the new map does.
LEMMA KeysAfterWrite ==
  ASSUME KeysInv, NEW m, RowsUnique(m), WriteMap(m), HitsUnique'
  PROVE  KeysInv'
BY DEF KeysInv, WriteMap, gcAcctEgress, BindingsUnique

\* No step of a source makes two rows share a key.
LEMMA SourceKeys == TypeOK /\ KeysInv /\ SourceStep => KeysInv'
<1> SUFFICES ASSUME TypeOK, KeysInv, NEW s \in Sources,
                    \/ CreateSyncSourceConfig(s)
                    \/ \E keep \in Snapshots : AlignSource(s, keep)
                    \/ EmptySnapshot(s)
                    \/ \E up \in Upsert : ApplyAccountDelta(s, up)
                    \/ DeleteSyncSource(s)
             PROVE  KeysInv'
  BY DEF SourceStep
<1>1. HitsUnique'
  BY DEF KeysInv, HitsUnique, CreateSyncSourceConfig, AlignSource, EmptySnapshot,
         ApplyAccountDelta, DeleteSyncSource
<1>2. CASE UNCHANGED <<acct_map, acct_egress>>
  BY <1>1, <1>2 DEF KeysInv
<1>3. ASSUME NEW keep \in Snapshots, AlignSource(s, keep)
      PROVE  KeysInv'
  <2> DEFINE m == (acct_map \ OwnedBy(s, acct_map)) \cup OwnRows(s, keep)
  <2>1. RowsUnique(m)
    BY ConstantsAssumption DEF KeysInv, RowsUnique, SameKey, OwnedBy, OwnRows, Keyed, Upsert
  <2> QED
    BY <1>1, <1>3, <2>1, KeysAfterWrite DEF AlignSource
<1>4. CASE EmptySnapshot(s)
  <2>1. RowsUnique(acct_map \ OwnedBy(s, acct_map))
    BY DEF KeysInv, RowsUnique
  <2> QED
    BY <1>1, <1>2, <1>4, <2>1, KeysAfterWrite DEF EmptySnapshot
<1>5. ASSUME NEW up \in Upsert, ApplyAccountDelta(s, up)
      PROVE  KeysInv'
  <2> DEFINE others == {r \in acct_map : ~(r.owner = s /\ r.acct = up.acct)}
  <2>1. RowsUnique(others) /\ RowsUnique(others \cup OwnRows(s, {up}))
    BY DEF KeysInv, RowsUnique, SameKey, OwnRows
  <2> QED
    BY <1>1, <1>5, <2>1, KeysAfterWrite DEF ApplyAccountDelta
<1>6. CASE DeleteSyncSource(s)
  <2>1. RowsUnique(acct_map \ OwnedBy(s, acct_map))
    BY DEF KeysInv, RowsUnique
  <2> QED
    BY <1>1, <1>6, <2>1, KeysAfterWrite DEF DeleteSyncSource
<1> QED
  BY <1>2, <1>3, <1>4, <1>5, <1>6 DEF CreateSyncSourceConfig

\* No step of the push channel or the account page makes two rows share a key.
LEMMA AccountKeys == TypeOK /\ KeysInv /\ AccountStep => KeysInv'
<1> SUFFICES ASSUME TypeOK, KeysInv, AccountStep PROVE KeysInv'
  OBVIOUS
<1>1. ASSUME NEW t \in PushTypes, NEW up \in Upsert, ReplaceAccountSnapshot(t, up)
      PROVE  KeysInv'
  <2> DEFINE old == PushRows(up.acct, t, acct_map)
             New(at, rt) == [acct |-> up.acct, owner |-> t, at |-> at, rt |-> rt]
  <2>1. PICK at \in Merged(up.at, {r.at : r \in old}),
             rt \in Merged(up.rt, {r.rt : r \in old}) :
               WriteMap((acct_map \ old) \cup {New(at, rt)})
    BY <1>1 DEF ReplaceAccountSnapshot
  <2>2. RowsUnique((acct_map \ old) \cup {New(at, rt)})
    BY DEF KeysInv, RowsUnique, SameKey, PushRows
  <2>3. HitsUnique'
    BY <1>1 DEF KeysInv, HitsUnique, ReplaceAccountSnapshot
  <2> QED
    BY <2>1, <2>2, <2>3, KeysAfterWrite
<1>2. ASSUME NEW a \in Accounts, NEW owners \in OwnerFilters, DeleteAcctMapAccount(a, owners)
      PROVE  KeysInv'
  <2>1. RowsUnique({r \in acct_map : ~(r.acct = a /\ r.owner \in owners)})
    BY DEF KeysInv, RowsUnique
  <2>2. HitsUnique'
    BY <1>2 DEF KeysInv, HitsUnique, DeleteAcctMapAccount
  <2> QED
    BY <1>2, <2>1, <2>2, KeysAfterWrite DEF DeleteAcctMapAccount
<1>3. ASSUME NEW c \in Clears, NEW a \in Accounts, NEW fp \in Creds, ClearRead(c, a, fp)
      PROVE  KeysInv'
  <2> DEFINE hits == {r \in acct_map : r.acct = a /\ fp \in {r.at, r.rt}}
  <2>1. clears' = [clears EXCEPT ![c] = [fp |-> fp, hits |-> hits]]
    BY <1>3 DEF ClearRead
  <2>2. RowsUnique(hits)
    BY DEF KeysInv, RowsUnique
  <2>3. HitsUnique'
    BY <2>1, <2>2 DEF KeysInv, HitsUnique, TypeOK
  <2> QED
    BY <1>3, <2>3 DEF KeysInv, ClearRead
<1>4. ASSUME NEW c \in Clears, ClearCommit(c)
      PROVE  KeysInv'
  <2> DEFINE m == Cleared(acct_map, clears[c].fp, clears[c].hits)
  <2>1. RowsUnique(m)
    BY ClearedUnique DEF KeysInv, HitsUnique, TypeOK
  <2>2. clears' = [clears EXCEPT ![c] = NoClear]
    BY <1>4 DEF ClearCommit
  <2>3. HitsUnique'
    BY <2>2 DEF KeysInv, HitsUnique, TypeOK, NoClear, RowsUnique
  <2> HIDE DEF m
  <2> QED
    BY <1>4, <2>1, <2>3, KeysAfterWrite DEF ClearCommit, m
<1> QED
  BY <1>1, <1>2, <1>3, <1>4 DEF AccountStep

\* No step of bindings or upstreams makes two bindings share a key.
LEMMA BindingKeys ==
  ASSUME KeysInv, BindingStep \/ UpstreamStep
  PROVE  KeysInv'
<1>1. acct_map' = acct_map /\ clears' = clears
  BY DEF BindingStep, UpstreamStep, ReplaceAccountBinding, ClearAcctEgress,
         ReplaceEgressAccounts, UnchangedButBindings, CreateUpstream,
         UpdateUpstream, DeleteUpstream
<1>2. BindingsUnique(acct_egress')
  <2>1. ASSUME NEW a, NEW mode, NEW ids, ReplaceAccountBinding(a, mode, ids)
        PROVE  BindingsUnique(acct_egress')
    BY <2>1 DEF ReplaceAccountBinding, gcAcctEgress, KeysInv, BindingsUnique
  <2>2. ASSUME NEW e, NEW assign, NEW mode, ReplaceEgressAccounts(e, assign, mode)
        PROVE  BindingsUnique(acct_egress')
    <3> DEFINE at(x) == IF ModesAt(x.acct, e) = {} THEN {mode} ELSE ModesAt(x.acct, e)
               new == {x \in Binding : x.acct \in assign /\ x.egress = e /\ x.mode \in at(x)}
    <3>1. \A x, y \in new : x.acct = y.acct => x.mode = y.mode
      <4> SUFFICES ASSUME NEW x \in new, NEW y \in new, x.acct = y.acct
                   PROVE  x.mode = y.mode
        OBVIOUS
      <4>1. \A p, q \in ModesAt(x.acct, e) : p = q
        BY DEF ModesAt, KeysInv, BindingsUnique
      <4> QED
        BY <4>1
    <3>2. \A x, y \in new : x.acct = y.acct => x = y
      BY <3>1 DEF Binding
    <3>3. acct_egress' = gcAcctEgress({b \in acct_egress : b.egress # e} \cup new, acct_map)
      BY <2>2 DEF ReplaceEgressAccounts
    <3>4. \A x \in new : x.egress = e
      OBVIOUS
    <3> HIDE DEF new
    <3> QED
      BY <3>2, <3>3, <3>4 DEF gcAcctEgress, KeysInv, BindingsUnique
  <2>3. acct_egress' \subseteq acct_egress => BindingsUnique(acct_egress')
    BY DEF KeysInv, BindingsUnique
  <2> QED
    BY <2>1, <2>2, <2>3 DEF BindingStep, UpstreamStep, ClearAcctEgress,
                            CreateUpstream, UpdateUpstream, DeleteUpstream
<1> QED
  BY <1>1, <1>2 DEF KeysInv, HitsUnique

\* The inductive invariant behind KeysUnique.
THEOREM KeysInvariant == Spec => []KeysInv
<1>1. Init => KeysInv
  BY DEF Init, KeysInv, RowsUnique, BindingsUnique, HitsUnique, NoClear
<1>2. TypeOK /\ KeysInv /\ [Next]_vars => KeysInv'
  <2>1. ASSUME KeysInv, UNCHANGED vars PROVE KeysInv'
    BY <2>1 DEF KeysInv, HitsUnique, vars
  <2> QED
    BY <2>1, SourceKeys, AccountKeys, BindingKeys DEF Next
<1> QED
  BY <1>1, <1>2, TypeCorrect, PTL DEF Spec

\* No transaction leaves two rows, or two bindings, with one primary key: the
\* key that ClearAcctMapFp moves a row to is never taken (acctmap.go:270-271).
THEOREM KeysAreUnique == Spec => []KeysUnique
<1>1. KeysInv => KeysUnique
  BY DEF KeysInv, RowsUnique, BindingsUnique, KeysUnique
<1> QED
  BY <1>1, KeysInvariant, PTL

-----------------------------------------------------------------------------
(* Upstreams under bindings.                                               *)

\* A binding names an exit whose id was issued: without it CreateUpstream could
\* give a bound id its platform.
BoundIssued == \A b \in acct_egress : b.egress \in Issued

\* An id that was issued stays issued, and bindings are written for such ids.
LEMMA BoundIssuedStep == TypeOK /\ BoundIssued /\ [Next]_vars => BoundIssued'
<1> SUFFICES ASSUME TypeOK, BoundIssued, [Next]_vars PROVE BoundIssued'
  OBVIOUS
<1>1. Issued \subseteq Issued'
  <2>1. CASE UpstreamStep
    BY <2>1, ConstantsAssumption
       DEF UpstreamStep, CreateUpstream, UpdateUpstream, DeleteUpstream, Issued, TypeOK, Lifecycle
  <2>2. CASE UNCHANGED upstreams
    BY <2>2 DEF Issued
  <2>3. CASE SourceStep
    BY <2>2, <2>3 DEF SourceStep, CreateSyncSourceConfig, AlignSource, EmptySnapshot,
                      ApplyAccountDelta, DeleteSyncSource
  <2>4. CASE AccountStep
    BY <2>2, <2>4 DEF AccountStep, ReplaceAccountSnapshot, DeleteAcctMapAccount,
                      ClearRead, ClearCommit
  <2>5. CASE BindingStep
    BY <2>2, <2>5 DEF BindingStep, ReplaceAccountBinding, ClearAcctEgress,
                      ReplaceEgressAccounts, UnchangedButBindings
  <2> QED
    BY <2>1, <2>2, <2>3, <2>4, <2>5 DEF Next, vars
<1>2. \A b \in acct_egress' : b \in acct_egress \/ b.egress \in Issued
  <2>1. CASE Next
    <3>1. BindingStep => \A b \in acct_egress' : b \in acct_egress \/ b.egress \in Issued
      <4>1. ASSUME NEW a, NEW mode, NEW ids \in SUBSET Issued, ReplaceAccountBinding(a, mode, ids)
            PROVE  \A b \in acct_egress' : b \in acct_egress \/ b.egress \in Issued
        BY <4>1 DEF ReplaceAccountBinding, gcAcctEgress
      <4>2. ASSUME NEW e \in Issued, NEW assign, NEW mode, ReplaceEgressAccounts(e, assign, mode)
            PROVE  \A b \in acct_egress' : b \in acct_egress \/ b.egress \in Issued
        BY <4>2 DEF ReplaceEgressAccounts, gcAcctEgress
      <4> QED
        BY <4>1, <4>2 DEF BindingStep, ClearAcctEgress
    <3> QED
      BY <2>1, <3>1, MapSteps DEF gcAcctEgress, DeleteUpstream
  <2> QED
    BY <2>1 DEF vars
<1> QED
  BY <1>1, <1>2 DEF BoundIssued

\* A bound exit keeps its platform until it is deleted together with its
\* bindings (UpdateUpstream, DeleteUpstream).
THEOREM PlatformFrozen == Spec => BoundPlatformFrozen
<1> DEFINE Frozen == \A e \in Egresses :
             Bound(e) /\ upstreams'[e] # upstreams[e] =>
               upstreams'[e] = "deleted" /\ \A b \in acct_egress' : b.egress # e
<1>1. Init => BoundIssued
  BY DEF Init, BoundIssued
<1>2. TypeOK /\ BoundIssued /\ [Next]_vars => [Frozen]_vars
  <2> SUFFICES ASSUME TypeOK, BoundIssued, Next, NEW e \in Egresses,
                      Bound(e), upstreams'[e] # upstreams[e]
               PROVE  upstreams'[e] = "deleted" /\ \A b \in acct_egress' : b.egress # e
    BY DEF vars
  <2>1. UpstreamStep
    <3>1. SourceStep => UNCHANGED upstreams
      BY DEF SourceStep, CreateSyncSourceConfig, AlignSource, EmptySnapshot,
             ApplyAccountDelta, DeleteSyncSource
    <3>2. AccountStep => UNCHANGED upstreams
      BY DEF AccountStep, ReplaceAccountSnapshot, DeleteAcctMapAccount, ClearRead, ClearCommit
    <3>3. BindingStep => UNCHANGED upstreams
      BY DEF BindingStep, ReplaceAccountBinding, ClearAcctEgress,
             ReplaceEgressAccounts, UnchangedButBindings
    <3> QED
      BY <3>1, <3>2, <3>3 DEF Next
  <2>2. PICK d \in Egresses : (\E p \in Platforms : CreateUpstream(d, p) \/ UpdateUpstream(d, p))
                             \/ DeleteUpstream(d)
    BY <2>1 DEF UpstreamStep
  <2>3. d = e
    BY <2>2 DEF CreateUpstream, UpdateUpstream, DeleteUpstream, TypeOK
  <2>4. upstreams[e] # "unused"
    BY DEF Bound, BoundIssued, Issued
  <2>5. ~\E p \in Platforms : CreateUpstream(d, p) \/ UpdateUpstream(d, p)
    BY <2>3, <2>4 DEF CreateUpstream, UpdateUpstream, TypeOK
  <2> QED
    BY <2>2, <2>3, <2>5 DEF DeleteUpstream, TypeOK
<1> QED
  BY <1>1, <1>2, BoundIssuedStep, TypeCorrect, PTL DEF Spec, BoundPlatformFrozen

-----------------------------------------------------------------------------
(* Deleted sources and pushes.                                             *)

\* No synchronisation and no push writes a row of a source that is not live.
THEOREM DeletionRespected == Spec => SyncRespectsDeletion
<1> DEFINE Respected == \A s \in Sources :
             sync_sources[s] # "live" /\ ~(\E c \in Clears : ClearCommit(c)) =>
               OwnedBy(s, acct_map') \subseteq OwnedBy(s, acct_map)
<1>1. [Next]_vars => [Respected]_vars
  <2> SUFFICES ASSUME Next, NEW s \in Sources, sync_sources[s] # "live",
                      ~(\E c \in Clears : ClearCommit(c)),
                      NEW r \in acct_map', r.owner = s
               PROVE  r \in acct_map
    BY DEF OwnedBy
  <2>1. CASE SourceStep
    <3>1. ASSUME NEW d \in Sources, NEW keep \in Snapshots, AlignSource(d, keep)
          PROVE  r \in acct_map
      BY <3>1 DEF AlignSource, WriteMap, OwnRows
    <3>2. ASSUME NEW d \in Sources, NEW up \in Upsert, ApplyAccountDelta(d, up)
          PROVE  r \in acct_map
      BY <3>2 DEF ApplyAccountDelta, WriteMap, OwnRows
    <3>3. ASSUME NEW d \in Sources,
                 CreateSyncSourceConfig(d) \/ EmptySnapshot(d) \/ DeleteSyncSource(d)
          PROVE  r \in acct_map
      BY <3>3 DEF CreateSyncSourceConfig, EmptySnapshot, DeleteSyncSource, WriteMap
    <3> QED
      BY <2>1, <3>1, <3>2, <3>3 DEF SourceStep
  <2>2. CASE AccountStep
    <3>1. ASSUME NEW t \in PushTypes, NEW up \in Upsert, ReplaceAccountSnapshot(t, up)
          PROVE  r \in acct_map
      <4>1. PICK at, rt : acct_map' = (acct_map \ PushRows(up.acct, t, acct_map)) \cup
                            {[acct |-> up.acct, owner |-> t, at |-> at, rt |-> rt]}
        BY <3>1 DEF ReplaceAccountSnapshot, WriteMap
      <4>2. t # s
        BY ConstantsAssumption
      <4> QED
        BY <4>1, <4>2
    <3>2. ASSUME NEW a, NEW owners, DeleteAcctMapAccount(a, owners)
          PROVE  r \in acct_map
      BY <3>2 DEF DeleteAcctMapAccount, WriteMap
    <3> QED
      BY <2>2, <3>1, <3>2 DEF AccountStep, ClearRead
  <2> QED
    BY <2>1, <2>2
       DEF Next, BindingStep, ReplaceAccountBinding, ClearAcctEgress, ReplaceEgressAccounts,
           UnchangedButBindings, UpstreamStep, CreateUpstream, UpdateUpstream, DeleteUpstream
<1> QED
  BY <1>1, PTL DEF Spec, SyncRespectsDeletion

\* Whatever rows an account has on the push channel, one submission leaves one
\* row with every kind of credential some row had (ReplaceAccountSnapshot).
THEOREM PushMerges == Spec => PushKeepsOtherCredential
<1> DEFINE Kept(t, r) == \E q \in PushRows(r.acct, t, acct_map') :
                           /\ r.at # NoCred => q.at # NoCred
                           /\ r.rt # NoCred => q.rt # NoCred
           Keeps == \A t \in PushTypes : \A r \in OwnedBy(t, acct_map) :
             \/ Kept(t, r)
             \/ ~\E up \in Upsert : up.acct = r.acct /\ ReplaceAccountSnapshot(t, up)
<1>1. Keeps
  <2> SUFFICES ASSUME NEW t \in PushTypes, NEW r \in OwnedBy(t, acct_map),
                      NEW up \in Upsert, up.acct = r.acct, ReplaceAccountSnapshot(t, up)
               PROVE  Kept(t, r)
    OBVIOUS
  <2> DEFINE old == PushRows(up.acct, t, acct_map)
             New(at, rt) == [acct |-> up.acct, owner |-> t, at |-> at, rt |-> rt]
  <2>1. PICK at \in Merged(up.at, {x.at : x \in old}),
             rt \in Merged(up.rt, {x.rt : x \in old}) :
               WriteMap((acct_map \ old) \cup {New(at, rt)})
    BY DEF ReplaceAccountSnapshot
  <2>2. r \in old
    BY DEF OwnedBy, PushRows
  <2>3. New(at, rt) \in PushRows(r.acct, t, acct_map')
    BY <2>1 DEF WriteMap, PushRows
  <2>4. r.at # NoCred => at # NoCred
    BY <2>1, <2>2 DEF Merged
  <2>5. r.rt # NoCred => rt # NoCred
    BY <2>1, <2>2 DEF Merged
  <2> QED
    BY <2>3, <2>4, <2>5
<1> QED
  BY <1>1, PTL DEF PushKeepsOtherCredential
=============================================================================
