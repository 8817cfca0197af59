----------------------------- MODULE ExitAdmin -----------------------------
(***************************************************************************)
(* Administration of the exits (internal/api/api.go, acctegress.go): the   *)
(* table upstreams with its names, the setting default_upstream, which     *)
(* points at an exit by name, the bindings of accounts, and the copies in  *)
(* memory that requests read: the settings of the holder, the upstream     *)
(* table and the binding table.                                            *)
(*                                                                         *)
(* Every handler checks first and writes later, nothing serialises two of  *)
(* them, and a process may end between any two of their steps.             *)
(***************************************************************************)
EXTENDS Exits

CONSTANTS
  Admins,     \* requests of the admin API in progress
  MaxBehind   \* bound on the copies that may be behind because a reload failed

ASSUME AdminAssumption ==
  /\ Admins # {}
  /\ Ids \subseteq Nat \ {0}
  /\ MaxBehind \in Nat

VARIABLES
  rows,       \* table upstreams
  next,       \* its AUTOINCREMENT counter
  bindings,   \* table acct_egress: bindings[x], the exits of account x
  stored,     \* table settings
  job,        \* job[a]: where a handler is and what it has read
  behind      \* history: copies whose last reload failed

disk == <<rows, next, bindings, stored>>
adminVars == <<rows, next, bindings, stored, settings, table, bound, job, behind>>

Copies == {"settings", "table", "bound"}

\* What a handler knows: the exit it is about with its row before and after, the
\* settings and the rows it has read, the account (at most one) and the exits of
\* a binding, and whether to reload the bindings in the end. A job that has read
\* nothing:
NoJob == [at |-> "idle", id |-> 0, old |-> Absent, new |-> Absent, rename |-> FALSE,
          snap |-> NoSnapshot, list |-> NoTable, account |-> {}, exits |-> {},
          rebind |-> FALSE]

Places == {"idle", "edit", "update", "current", "set", "remove", "delete", "choose",
           "save", "load", "install", "reset", "replace", "bind", "list", "swap",
           "rebind"}
Job == [at : Places, id : Ids \cup {0}, old : Row \cup {Absent}, new : Row \cup {Absent},
        rename : BOOLEAN, snap : Snapshot, list : Table, account : SUBSET Accounts,
        exits : SUBSET Ids, rebind : BOOLEAN]

AdminTypeOK ==
  /\ rows \in Table /\ UniqueNames(rows)
  /\ next \in Nat
  /\ bindings \in [Accounts -> SUBSET Ids]
  /\ stored \in Snapshot
  /\ settings \in Snapshot
  /\ table \in Table /\ UniqueNames(table)
  /\ bound \in [Accounts -> SUBSET Ids]
  /\ job \in [Admins -> Job]
  /\ behind \subseteq Copies

AdminInit ==
  /\ rows = NoTable /\ next = 1
  /\ bindings = [x \in Accounts |-> {}]
  /\ stored = NoSnapshot
  /\ settings = stored /\ table = rows /\ bound = bindings
  /\ job = [a \in Admins |-> NoJob]
  /\ behind = {}

-----------------------------------------------------------------------------
Free(n, i) == Named(rows, n) \subseteq {i}

At(a, place) == job[a].at = place
Becomes(a, j) == job' = [job EXCEPT ![a] = j]
Moves(a, place) == Becomes(a, [job[a] EXCEPT !.at = place])
\* The rest of a handler that has changed the exits: rebuildTable, and after a
\* deletion reloadAcctEgress.
Rebuild(a, rebind) == Becomes(a, [NoJob EXCEPT !.at = "list", !.rebind = rebind])

\* A handler finds a reason to refuse, or a statement before or at its commit
\* fails: 4xx or 5xx, and nothing has changed.
Refuse(a) ==
  /\ job[a].at \in {"edit", "update", "remove", "delete", "choose", "save", "reset",
                    "bind"}
  /\ Becomes(a, NoJob)
  /\ UNCHANGED <<disk, memory, behind>>

\* createUpstream; UNIQUE(name) repeats the handler's own check.
CreateUpstream(a, n, on) ==
  /\ At(a, "idle") /\ next \in Ids /\ Named(rows, n) = {}
  /\ rows' = [rows EXCEPT ![next] = [name |-> n, on |-> on]]
  /\ next' = next + 1
  /\ Rebuild(a, FALSE)
  /\ UNCHANGED <<bindings, stored, memory, behind>>

-----------------------------------------------------------------------------
(* updateUpstream *)

\* It lists the rows.
ReadForUpdate(a, i, n, on) ==
  /\ At(a, "idle") /\ Has(rows, i)
  /\ Becomes(a, [NoJob EXCEPT !.at = "edit", !.id = i, !.old = rows[i],
                              !.new = [name |-> n, on |-> on]])
  /\ UNCHANGED <<disk, memory, behind>>

\* (mutant: the default exit may be disabled)
CheckUpdate_Wrong(a) ==
  /\ At(a, "edit")
  /\ LET isDefault == job[a].old.name = settings.default
     IN Becomes(a, [job[a] EXCEPT !.at = "update",
                      !.rename = isDefault /\ job[a].new.name # job[a].old.name])
  /\ UNCHANGED <<disk, memory, behind>>

\* It asks the settings in memory whether this is the default exit, which may
\* not be disabled. One that is disabled already may be left so.
CheckUpdate(a) ==
  /\ At(a, "edit")
  /\ LET isDefault == job[a].old.name = settings.default
     IN /\ isDefault /\ job[a].old.on => job[a].new.on
        /\ Becomes(a, [job[a] EXCEPT !.at = "update",
                         !.rename = isDefault /\ job[a].new.name # job[a].old.name])
  /\ UNCHANGED <<disk, memory, behind>>

\* UpdateUpstream, or UpdateUpstreamAndDefault in one transaction. A row that is
\* gone is no error, and the default is set nevertheless.
WriteUpdate(a) ==
  /\ At(a, "update") /\ Free(job[a].new.name, job[a].id)
  /\ rows' = IF Has(rows, job[a].id) THEN [rows EXCEPT ![job[a].id] = job[a].new] ELSE rows
  /\ IF job[a].rename
       THEN /\ stored' = [stored EXCEPT !.default = job[a].new.name]
            /\ Moves(a, "current")
       ELSE stored' = stored /\ Rebuild(a, FALSE)
  /\ UNCHANGED <<next, bindings, memory, behind>>

\* s2 := Current(): the settings to change, unless somebody chose another default.
\* setDefault reads them for the name it has stored.
Current(a) ==
  /\ At(a, "current")
  /\ IF job[a].rename => settings.default = job[a].old.name
       THEN Becomes(a, [NoJob EXCEPT !.at = "set",
              !.snap = [settings EXCEPT !.default = job[a].new.name]])
       ELSE Rebuild(a, FALSE)
  /\ UNCHANGED <<disk, memory, behind>>

\* Settings.Set of the settings read here, or loaded by putSettings; then
\* rebuildTable.
SetSettings(a) ==
  /\ At(a, "set") \/ At(a, "install")
  /\ settings' = job[a].snap
  /\ behind' = IF At(a, "install") THEN behind \ {"settings"} ELSE behind
  /\ Rebuild(a, FALSE)
  /\ UNCHANGED <<disk, table, bound>>

-----------------------------------------------------------------------------
(* deleteUpstream and setDefault *)

\* deleteUpstream takes the settings before it lists the rows.
ReadForDelete(a, i) ==
  /\ At(a, "idle")
  /\ Becomes(a, [NoJob EXCEPT !.at = "remove", !.id = i, !.snap = settings])
  /\ UNCHANGED <<disk, memory, behind>>

CheckDelete(a) ==
  /\ At(a, "remove") /\ Has(rows, job[a].id)
  /\ rows[job[a].id].name # job[a].snap.default
  /\ Moves(a, "delete")
  /\ UNCHANGED <<disk, memory, behind>>

\* Ids are given again, as by a table without AUTOINCREMENT.
DeleteUpstream_Wrong(a) ==
  /\ At(a, "delete")
  /\ rows' = [rows EXCEPT ![job[a].id] = Absent]
  /\ next' = IF next = job[a].id + 1 THEN job[a].id ELSE next
  /\ bindings' = [x \in Accounts |-> bindings[x] \ {job[a].id}]
  /\ Rebuild(a, TRUE)
  /\ UNCHANGED <<stored, memory, behind>>

\* DeleteUpstream deletes the bindings of the exit in the same transaction.
DeleteUpstream(a) ==
  /\ At(a, "delete")
  /\ rows' = [rows EXCEPT ![job[a].id] = Absent]
  /\ bindings' = [x \in Accounts |-> bindings[x] \ {job[a].id}]
  /\ Rebuild(a, TRUE)
  /\ UNCHANGED <<next, stored, memory, behind>>

ReadForDefault(a, i) ==
  /\ At(a, "idle") /\ Has(rows, i) /\ rows[i].on
  /\ Becomes(a, [NoJob EXCEPT !.at = "choose", !.new = rows[i]])
  /\ UNCHANGED <<disk, memory, behind>>

\* SetSetting of the name.
WriteDefault(a) ==
  /\ At(a, "choose")
  /\ stored' = [stored EXCEPT !.default = job[a].new.name]
  /\ Moves(a, "current")
  /\ UNCHANGED <<rows, next, bindings, memory, behind>>

-----------------------------------------------------------------------------
(* putSettings and resetSalt *)

\* A default has to name an exit that exists and is enabled.
CheckSettings(a, n, o) ==
  /\ At(a, "idle") /\ (n # None => Usable(rows, n))
  /\ Becomes(a, [NoJob EXCEPT !.at = "save", !.snap = Chosen(n, o)])
  /\ UNCHANGED <<disk, memory, behind>>

\* SaveSnapshotWithOps writes every setting.
SaveSettings(a) ==
  /\ At(a, "save")
  /\ stored' = job[a].snap
  /\ Moves(a, "load")
  /\ UNCHANGED <<rows, next, bindings, memory, behind>>

\* LoadFromStore.
LoadSettings(a) ==
  /\ At(a, "load")
  /\ Becomes(a, [NoJob EXCEPT !.at = "install", !.snap = stored])
  /\ UNCHANGED <<disk, memory, behind>>

\* The settings are saved, the answer is 500 and memory keeps the old ones.
LoadFails(a) ==
  /\ At(a, "load") /\ Cardinality(behind) < MaxBehind
  /\ behind' = behind \cup {"settings"}
  /\ Becomes(a, NoJob)
  /\ UNCHANGED <<disk, memory>>

\* resetSalt takes the settings in memory, changes the salt,
ReadForReset(a) ==
  /\ At(a, "idle")
  /\ Becomes(a, [NoJob EXCEPT !.at = "reset", !.snap = settings])
  /\ UNCHANGED <<disk, memory, behind>>

\* writes all of them with SaveSnapshot,
SaveReset(a) ==
  /\ At(a, "reset")
  /\ stored' = job[a].snap
  /\ Moves(a, "replace")
  /\ UNCHANGED <<rows, next, bindings, memory, behind>>

\* and puts them into the holder.
SetReset(a) ==
  /\ At(a, "replace")
  /\ settings' = job[a].snap
  /\ Becomes(a, NoJob)
  /\ UNCHANGED <<disk, table, bound, behind>>

-----------------------------------------------------------------------------
(* putAcctEgress and deleteAcctEgress; reloads *)

\* validateEgressIDs: the exits exist, enabled or not.
CheckBinding(a, x, ids) ==
  /\ At(a, "idle") /\ \A i \in ids : Has(rows, i)
  /\ Becomes(a, [NoJob EXCEPT !.at = "bind", !.account = {x}, !.exits = ids])
  /\ UNCHANGED <<disk, memory, behind>>

\* ReplaceAccountBinding.
WriteBinding(a) ==
  /\ At(a, "bind")
  /\ bindings' = [x \in Accounts |->
                    IF x \in job[a].account THEN job[a].exits ELSE bindings[x]]
  /\ Becomes(a, [NoJob EXCEPT !.at = "rebind"])
  /\ UNCHANGED <<rows, next, stored, memory, behind>>

Rebuilt(a) == IF job[a].rebind THEN [NoJob EXCEPT !.at = "rebind"] ELSE NoJob

\* rebuildTable lists the rows
ListUpstreams(a) ==
  /\ At(a, "list")
  /\ Becomes(a, [job[a] EXCEPT !.at = "swap", !.list = rows])
  /\ UNCHANGED <<disk, memory, behind>>

\* or logs that it cannot,
ListFails(a) ==
  /\ At(a, "list") /\ Cardinality(behind) < MaxBehind
  /\ behind' = behind \cup {"table"}
  /\ Becomes(a, Rebuilt(a))
  /\ UNCHANGED <<disk, memory>>

\* (mutant: the new table is built and dropped)
SwapUpstreams_Wrong(a) ==
  /\ At(a, "swap")
  /\ behind' = behind \ {"table"}
  /\ Becomes(a, Rebuilt(a))
  /\ UNCHANGED <<disk, memory>>

\* and swaps the table.
SwapUpstreams(a) ==
  /\ At(a, "swap")
  /\ table' = job[a].list
  /\ behind' = behind \ {"table"}
  /\ Becomes(a, Rebuilt(a))
  /\ UNCHANGED <<disk, settings, bound>>

\* reloadAcctEgress reads and swaps under mapChangeMu.
ReloadBindings(a) ==
  /\ At(a, "rebind")
  /\ bound' = bindings
  /\ behind' = behind \ {"bound"}
  /\ Becomes(a, NoJob)
  /\ UNCHANGED <<disk, settings, table>>

ReloadFails(a) ==
  /\ At(a, "rebind") /\ Cardinality(behind) < MaxBehind
  /\ behind' = behind \cup {"bound"}
  /\ Becomes(a, NoJob)
  /\ UNCHANGED <<disk, memory>>

\* The process ends at any moment and main restores the copies. Settings that
\* nobody could load are now in force, unguarded meanwhile.
Restart ==
  /\ settings' = stored /\ table' = rows /\ bound' = bindings
  /\ job' = [a \in Admins |-> NoJob]
  /\ behind' = behind \cap {"settings"}
  /\ UNCHANGED disk

Handle(a) ==
  \/ Refuse(a)
  \/ \E n \in Names, on \in BOOLEAN : CreateUpstream(a, n, on)
  \/ \E i \in Ids, n \in Names, on \in BOOLEAN : ReadForUpdate(a, i, n, on)
  \/ CheckUpdate(a) \/ WriteUpdate(a) \/ Current(a) \/ SetSettings(a)
  \/ \E i \in Ids : ReadForDelete(a, i)
  \/ CheckDelete(a) \/ DeleteUpstream(a)
  \/ \E i \in Ids : ReadForDefault(a, i)
  \/ WriteDefault(a)
  \/ \E n \in Names \cup {None}, o \in Offered : CheckSettings(a, n, o)
  \/ SaveSettings(a) \/ LoadSettings(a) \/ LoadFails(a)
  \/ ReadForReset(a) \/ SaveReset(a) \/ SetReset(a)
  \/ \E x \in Accounts, ids \in SUBSET Ids : CheckBinding(a, x, ids)
  \/ WriteBinding(a)
  \/ ListUpstreams(a) \/ ListFails(a) \/ SwapUpstreams(a)
  \/ ReloadBindings(a) \/ ReloadFails(a)

AdminNext == (\E a \in Admins : Handle(a)) \/ Restart

AdminSpec == AdminInit /\ [][AdminNext]_adminVars

-----------------------------------------------------------------------------
OneAdmin == \A a, b \in Admins : a = b
Quiet == \A a \in Admins : job[a] = NoJob

(* The stored default upstream names an exit that exists and is enabled,   *)
(* at every moment, so that a restart between any two steps of a rename, a *)
(* deletion, a choice or a salt reset finds it usable: while requests of   *)
(* the admin API come one after the other and no save had a failed reload. *)
(* The guards of api.go compare with memory, the promise is about the row. *)
DefaultUsable ==
  OneAdmin /\ "settings" \notin behind /\ stored.default # None
    => Usable(rows, stored.default)

(* Once the handlers have returned, every copy that requests read is what  *)
(* a restart would read from the tables, except those whose reload failed: *)
(* no handler forgets a copy, or writes one and not the other.             *)
CopiesAgree ==
  OneAdmin /\ Quiet =>
    /\ "settings" \notin behind => settings = stored
    /\ "table" \notin behind => table = rows
    /\ "bound" \notin behind => bound = bindings

(* The id of an exit that is still to be created means nothing to anybody: *)
(* no binding, no copy and no handler knows it. So an exit that is created *)
(* after another was deleted is never taken for it, by those who still     *)
(* read an old table (AUTOINCREMENT in store.go, validateEgressIDs).       *)
FreshIds ==
  \A i \in Ids : i >= next =>
    /\ ~Has(rows, i) /\ ~Has(table, i)
    /\ \A x \in Accounts : i \notin bindings[x] \cup bound[x]
    /\ \A a \in Admins : i \notin job[a].exits /\ ~Has(job[a].list, i)
=============================================================================
