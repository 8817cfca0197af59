-------------------------- MODULE Gateway_proofs --------------------------
(***************************************************************************)
(* Theorems about ExitAdmin, Routing and the two together. First what      *)
(* administrators keep true: types for any number of them, the promises    *)
(* about the default exit and the copies for one at a time. Then where     *)
(* requests may go while the copies change to anything. Last the gateway,  *)
(* where the copies are those of the administrators.                       *)
(***************************************************************************)
EXTENDS Gateway, TLAPS

(***************************************************************************)
(* Administrators                                                          *)
(***************************************************************************)

\* What a handler has checked or read, whoever else is at work.
Known(j) ==
  /\ j.at \in {"edit", "update", "choose", "current"} => j.new \in Row
  /\ j.at \in {"edit", "update", "remove", "delete"} => j.id \in Ids
  /\ UniqueNames(j.list)

\* The counter has passed every id.
Issued == \A i \in Ids : Has(rows, i) => i < next

TypeInv == AdminTypeOK /\ Issued /\ \A a \in Admins : Known(job[a])

(***************************************************************************)
(* With one administrator what a handler has read stays true until it is   *)
(* used,                                                                   *)
(***************************************************************************)
IsDefault(j) == j.old.name = settings.default

DefaultExists == stored.default # None => Usable(rows, stored.default)

StillTrue(j) ==
  /\ j.at \in {"edit", "update"} => rows[j.id] = j.old /\ Has(rows, j.id)
  /\ j.at = "update" =>
       /\ j.rename = (IsDefault(j) /\ j.new.name # j.old.name)
       /\ IsDefault(j) /\ j.old.on => j.new.on
  /\ j.at \in {"remove", "delete", "reset"} => j.snap = settings
  /\ j.at = "delete" => rows[j.id].name # j.snap.default
  /\ j.at = "choose" => ~j.rename /\ Usable(rows, j.new.name)
  /\ j.at = "save" /\ j.snap.default # None => Usable(rows, j.snap.default)
  /\ j.at \in {"load", "install"} => DefaultExists
  /\ j.at \in {"install", "replace"} => j.snap = stored
  /\ j.at = "swap" => j.list = rows

\* and a copy differs from its table only where a handler is about to write it.
SettingsAgree(j) ==
  "settings" \notin behind =>
    /\ DefaultExists
    /\ j.at \notin {"current", "set", "load", "install", "replace"} => settings = stored
    /\ j.at = "current" =>
         /\ j.rename => IsDefault(j)
         /\ stored = [settings EXCEPT !.default = j.new.name]
    /\ j.at = "set" => j.snap = stored

TableAgrees(j) ==
  "table" \notin behind /\ j.at \notin {"current", "set", "list", "swap"} => table = rows

BindingsAgree(j) ==
  "bound" \notin behind /\ j.at # "rebind" /\ ~(j.at \in {"list", "swap"} /\ j.rebind) =>
    bound = bindings

Steady(j) == StillTrue(j) /\ SettingsAgree(j) /\ TableAgrees(j) /\ BindingsAgree(j)

AdminInv == TypeInv /\ (OneAdmin => \A a \in Admins : Steady(job[a]))

-----------------------------------------------------------------------------
(* Types *)

LEMMA ConstantTypes ==
  /\ NoSnapshot \in Snapshot
  /\ NoTable \in Table /\ UniqueNames(NoTable)
  /\ \A n \in Names \cup {None}, o \in Offered : Chosen(n, o) \in Snapshot
BY ExitAssumption DEF NoSnapshot, Snapshot, NoTable, Table, UniqueNames, Has, Chosen

LEMMA NoJobType == NoJob \in Job /\ Known(NoJob)
BY ConstantTypes DEF NoJob, Job, Places, Known

\* What a handler becomes is a job, and the other handlers stay as they are.
LEMMA Stepped ==
  ASSUME TypeInv, NEW a \in Admins, NEW j \in Job, Known(j), Becomes(a, j)
  PROVE  job' \in [Admins -> Job] /\ \A b \in Admins : Known(job'[b])
BY DEF TypeInv, AdminTypeOK, Becomes

LEMMA Rebuilding ==
  ASSUME TypeInv, NEW a \in Admins, NEW rebind \in BOOLEAN, Rebuild(a, rebind)
  PROVE  job' \in [Admins -> Job] /\ \A b \in Admins : Known(job'[b])
<1> DEFINE j == [NoJob EXCEPT !.at = "list", !.rebind = rebind]
<1>1. j \in Job /\ Known(j)
  BY NoJobType DEF Job, Places, Known, NoJob
<1>2. QED  BY <1>1, Stepped DEF Rebuild

LEMMA RebuiltType ==
  ASSUME TypeInv, NEW a \in Admins
  PROVE  Rebuilt(a) \in Job /\ Known(Rebuilt(a))
BY NoJobType DEF Rebuilt, Job, Places, Known, NoJob

\* A handler that only moves on to another place.
LEMMA Moving ==
  ASSUME TypeInv, NEW a \in Admins, NEW place \in Places, Moves(a, place),
         place \in {"delete", "update"} => job[a].id \in Ids,
         place \in {"edit", "update", "choose", "current"} => job[a].new \in Row,
         place # "edit" /\ place # "remove"
  PROVE  job' \in [Admins -> Job] /\ \A b \in Admins : Known(job'[b])
<1> DEFINE j == [job[a] EXCEPT !.at = place]
<1>1. job[a] \in Job /\ Known(job[a])  BY DEF TypeInv, AdminTypeOK
<1>2. j \in Job /\ Known(j)
  BY <1>1 DEF Job, Known
<1>3. QED  BY <1>2, Stepped DEF Moves

\* A step of a handler that leaves the tables and the copies alone.
LEMMA Reading ==
  ASSUME TypeInv, NEW a \in Admins, NEW j \in Job, Known(j), Becomes(a, j),
         UNCHANGED <<disk, memory>>, behind' \subseteq Copies
  PROVE  TypeInv'
<1>1. job' \in [Admins -> Job] /\ \A b \in Admins : Known(job'[b])  BY Stepped
<1>2. /\ UNCHANGED <<rows, next, bindings, stored>>
      /\ UNCHANGED <<settings, table, bound>>
  BY DEF disk, memory
<1>3. QED  BY <1>1, <1>2 DEF TypeInv, AdminTypeOK, Issued, Has

LEMMA HandleType ==
  ASSUME TypeInv, NEW a \in Admins, Handle(a)
  PROVE  TypeInv'
<1>1. job[a] \in Job /\ Known(job[a]) /\ AdminTypeOK  BY DEF TypeInv, AdminTypeOK
<1>2. Refuse(a) => TypeInv'
  BY Reading, NoJobType DEF Refuse, TypeInv, AdminTypeOK
<1>3. ASSUME NEW n \in Names, NEW on \in BOOLEAN, CreateUpstream(a, n, on)
      PROVE  TypeInv'
  <2> DEFINE r == [name |-> n, on |-> on]
  <2>1. job' \in [Admins -> Job] /\ \A b \in Admins : Known(job'[b])
    BY <1>3, Rebuilding DEF CreateUpstream
  <2>2. /\ rows' = [rows EXCEPT ![next] = r] /\ next \in Ids /\ next' = next + 1
        /\ \A i \in Ids : Has(rows, i) => rows[i].name # n
        /\ UNCHANGED <<bindings, stored, settings, table, bound, behind>>
    BY <1>3 DEF CreateUpstream, Named, memory
  <2>3. rows' \in Table  BY <1>1, <2>2 DEF AdminTypeOK, Table, Row
  <2>4. UniqueNames(rows')
    BY <1>1, <2>2 DEF AdminTypeOK, Table, Row, UniqueNames, Has
  <2>5. Issued'
    BY <1>1, <2>2, AdminAssumption DEF TypeInv, AdminTypeOK, Table, Issued, Has
  <2>6. QED  BY <1>1, <2>1, <2>2, <2>3, <2>4, <2>5 DEF TypeInv, AdminTypeOK
<1>4. ASSUME NEW i \in Ids, NEW n \in Names, NEW on \in BOOLEAN, ReadForUpdate(a, i, n, on)
      PROVE  TypeInv'
  <2> DEFINE j == [NoJob EXCEPT !.at = "edit", !.id = i, !.old = rows[i],
                                !.new = [name |-> n, on |-> on]]
  <2>1. j \in Job /\ Known(j)
    BY <1>1, NoJobType DEF Job, Known, Places, AdminTypeOK, Table, Row, NoJob
  <2>2. QED  BY <1>1, <1>4, <2>1, Reading DEF ReadForUpdate, AdminTypeOK
<1>5. ASSUME CheckUpdate(a)  PROVE TypeInv'
  <2> DEFINE isDefault == job[a].old.name = settings.default
             j == [job[a] EXCEPT !.at = "update",
                     !.rename = isDefault /\ job[a].new.name # job[a].old.name]
  <2>1. job[a].at = "edit"  BY <1>5 DEF CheckUpdate, At
  <2>2. j \in Job /\ Known(j)
    BY <1>1, <2>1 DEF Job, Known, Places
  <2>3. QED  BY <1>1, <1>5, <2>2, Reading DEF CheckUpdate, AdminTypeOK
<1>6. ASSUME WriteUpdate(a)  PROVE TypeInv'
  <2>1. job[a].at = "update" /\ job[a].new \in Row /\ job[a].id \in Ids
    BY <1>1, <1>6 DEF WriteUpdate, At, Known
  <2>2. job' \in [Admins -> Job] /\ \A b \in Admins : Known(job'[b])
    <3>1. Moves(a, "current") \/ Rebuild(a, FALSE)  BY <1>6 DEF WriteUpdate
    <3>2. QED  BY <2>1, <3>1, Moving, Rebuilding DEF Places
  <2>3. \/ rows' = rows
        \/ Has(rows, job[a].id) /\ rows' = [rows EXCEPT ![job[a].id] = job[a].new]
    BY <1>6 DEF WriteUpdate
  <2>4. \A i \in Ids : Has(rows, i) /\ rows[i].name = job[a].new.name => i = job[a].id
    BY <1>6 DEF WriteUpdate, Free, Named
  <2>5. rows' \in Table /\ UniqueNames(rows')
    <3>1. rows' \in Table  BY <1>1, <2>1, <2>3 DEF AdminTypeOK, Table
    <3>2. UniqueNames(rows')
      BY <1>1, <2>1, <2>3, <2>4 DEF AdminTypeOK, Table, UniqueNames, Has
    <3>3. QED  BY <3>1, <3>2
  <2>6. stored' \in Snapshot
    BY <1>1, <1>6, <2>1 DEF WriteUpdate, AdminTypeOK, Snapshot, Row
  <2>7. UNCHANGED <<next, bindings, settings, table, bound, behind>>
    BY <1>6 DEF WriteUpdate, memory
  <2>8. Issued'
    BY <1>1, <2>1, <2>3, <2>7 DEF TypeInv, AdminTypeOK, Table, Issued, Has
  <2>9. QED  BY <1>1, <2>2, <2>5, <2>6, <2>7, <2>8 DEF TypeInv, AdminTypeOK
<1>7. ASSUME Current(a)  PROVE TypeInv'
  <2>1. job[a].new \in Row  BY <1>1, <1>7 DEF Current, At, Known
  <2> DEFINE j == [NoJob EXCEPT !.at = "set",
                     !.snap = [settings EXCEPT !.default = job[a].new.name]]
             k == [NoJob EXCEPT !.at = "list", !.rebind = FALSE]
  <2>2. [settings EXCEPT !.default = job[a].new.name] \in Snapshot
    BY <1>1, <2>1 DEF AdminTypeOK, Snapshot, Row
  <2>3. j \in Job /\ Known(j) /\ k \in Job /\ Known(k)
    BY <2>2, NoJobType DEF Job, Known, Places, NoJob
  <2>4. Becomes(a, j) \/ Becomes(a, k)  BY <1>7 DEF Current, Rebuild
  <2>5. QED  BY <1>1, <1>7, <2>3, <2>4, Reading DEF Current, AdminTypeOK
<1>8. ASSUME SetSettings(a)  PROVE TypeInv'
  <2>1. job' \in [Admins -> Job] /\ \A b \in Admins : Known(job'[b])
    BY <1>8, Rebuilding DEF SetSettings
  <2>2. settings' \in Snapshot /\ behind' \subseteq Copies
    BY <1>1, <1>8 DEF SetSettings, AdminTypeOK, Job
  <2>3. UNCHANGED <<rows, next, bindings, stored, table, bound>>
    BY <1>8 DEF SetSettings, disk
  <2>4. QED  BY <1>1, <2>1, <2>2, <2>3 DEF TypeInv, AdminTypeOK, Issued, Has
<1>9. ASSUME NEW i \in Ids, ReadForDelete(a, i)  PROVE TypeInv'
  <2> DEFINE j == [NoJob EXCEPT !.at = "remove", !.id = i, !.snap = settings]
  <2>1. j \in Job /\ Known(j)
    BY <1>1, NoJobType DEF Job, Known, Places, AdminTypeOK, NoJob
  <2>2. QED  BY <1>1, <1>9, <2>1, Reading DEF ReadForDelete, AdminTypeOK
<1>10. ASSUME CheckDelete(a)  PROVE TypeInv'
  <2> DEFINE j == [job[a] EXCEPT !.at = "delete"]
  <2>1. job[a].at = "remove"  BY <1>10 DEF CheckDelete, At
  <2>2. j \in Job /\ Known(j)  BY <1>1, <2>1 DEF Job, Known, Places
  <2>3. QED  BY <1>1, <1>10, <2>2, Reading DEF CheckDelete, Moves, AdminTypeOK
<1>11. ASSUME DeleteUpstream(a)  PROVE TypeInv'
  <2>1. job' \in [Admins -> Job] /\ \A b \in Admins : Known(job'[b])
    BY <1>11, Rebuilding DEF DeleteUpstream
  <2>2. /\ rows' = [rows EXCEPT ![job[a].id] = Absent]
        /\ bindings' = [x \in Accounts |-> bindings[x] \ {job[a].id}]
        /\ UNCHANGED <<next, stored, settings, table, bound, behind>>
    BY <1>11 DEF DeleteUpstream, memory
  <2>3. rows' \in Table /\ UniqueNames(rows') /\ bindings' \in [Accounts -> SUBSET Ids]
    BY <1>1, <2>2 DEF AdminTypeOK, Table, UniqueNames, Has
  <2>4. QED  BY <1>1, <2>1, <2>2, <2>3 DEF TypeInv, AdminTypeOK, Issued, Has
<1>12. ASSUME NEW i \in Ids, ReadForDefault(a, i)  PROVE TypeInv'
  <2> DEFINE j == [NoJob EXCEPT !.at = "choose", !.new = rows[i]]
  <2>1. rows[i] \in Row  BY <1>1, <1>12 DEF ReadForDefault, Has, AdminTypeOK, Table
  <2>2. j \in Job /\ Known(j)
    BY <2>1, NoJobType DEF Job, Known, Places, NoJob
  <2>3. QED  BY <1>1, <1>12, <2>2, Reading DEF ReadForDefault, AdminTypeOK
<1>13. ASSUME WriteDefault(a)  PROVE TypeInv'
  <2>1. job[a].new \in Row  BY <1>1, <1>13 DEF WriteDefault, At, Known
  <2>2. job' \in [Admins -> Job] /\ \A b \in Admins : Known(job'[b])
    BY <1>13, <2>1, Moving DEF WriteDefault, Places
  <2>3. stored' \in Snapshot
    BY <1>1, <1>13, <2>1 DEF WriteDefault, AdminTypeOK, Snapshot, Row
  <2>4. UNCHANGED <<rows, next, bindings, settings, table, bound, behind>>
    BY <1>13 DEF WriteDefault, memory
  <2>5. QED  BY <1>1, <2>2, <2>3, <2>4 DEF TypeInv, AdminTypeOK, Issued, Has
<1>14. ASSUME NEW n \in Names \cup {None}, NEW o \in Offered, CheckSettings(a, n, o)
       PROVE  TypeInv'
  <2> DEFINE j == [NoJob EXCEPT !.at = "save", !.snap = Chosen(n, o)]
  <2>1. j \in Job /\ Known(j)
    BY NoJobType, ConstantTypes DEF Job, Known, Places, NoJob
  <2>2. QED  BY <1>1, <1>14, <2>1, Reading DEF CheckSettings, AdminTypeOK
<1>15. ASSUME SaveSettings(a) \/ SaveReset(a)  PROVE TypeInv'
  <2>1. Moves(a, "load") \/ Moves(a, "replace")
    BY <1>15 DEF SaveSettings, SaveReset
  <2>2. job' \in [Admins -> Job] /\ \A b \in Admins : Known(job'[b])
    BY <2>1, Moving DEF Places
  <2>3. stored' \in Snapshot
    BY <1>1, <1>15 DEF SaveSettings, SaveReset, AdminTypeOK, Job
  <2>4. UNCHANGED <<rows, next, bindings, settings, table, bound, behind>>
    BY <1>15 DEF SaveSettings, SaveReset, memory
  <2>5. QED  BY <1>1, <2>2, <2>3, <2>4 DEF TypeInv, AdminTypeOK, Issued, Has
<1>16. ASSUME LoadSettings(a)  PROVE TypeInv'
  <2> DEFINE j == [NoJob EXCEPT !.at = "install", !.snap = stored]
  <2>1. j \in Job /\ Known(j)
    BY <1>1, NoJobType DEF Job, Known, Places, AdminTypeOK, NoJob
  <2>2. QED  BY <1>1, <1>16, <2>1, Reading DEF LoadSettings, AdminTypeOK
<1>17. LoadFails(a) => TypeInv'
  BY <1>1, NoJobType, Reading DEF LoadFails, AdminTypeOK, Copies
<1>18. ASSUME ReadForReset(a)  PROVE TypeInv'
  <2> DEFINE j == [NoJob EXCEPT !.at = "reset", !.snap = settings]
  <2>1. j \in Job /\ Known(j)
    BY <1>1, NoJobType DEF Job, Known, Places, AdminTypeOK, NoJob
  <2>2. QED  BY <1>1, <1>18, <2>1, Reading DEF ReadForReset, AdminTypeOK
<1>19. ASSUME SetReset(a)  PROVE TypeInv'
  <2>1. job' \in [Admins -> Job] /\ \A b \in Admins : Known(job'[b])
    BY <1>19, NoJobType, Stepped DEF SetReset
  <2>2. settings' \in Snapshot  BY <1>1, <1>19 DEF SetReset, AdminTypeOK, Job
  <2>3. UNCHANGED <<rows, next, bindings, stored, table, bound, behind>>
    BY <1>19 DEF SetReset, disk
  <2>4. QED  BY <1>1, <2>1, <2>2, <2>3 DEF TypeInv, AdminTypeOK, Issued, Has
<1>20. ASSUME NEW x \in Accounts, NEW ids \in SUBSET Ids, CheckBinding(a, x, ids)
       PROVE  TypeInv'
  <2> DEFINE j == [NoJob EXCEPT !.at = "bind", !.account = {x}, !.exits = ids]
  <2>1. j \in Job /\ Known(j)
    BY NoJobType DEF Job, Known, Places, NoJob
  <2>2. QED  BY <1>1, <1>20, <2>1, Reading DEF CheckBinding, AdminTypeOK
<1>21. ASSUME WriteBinding(a)  PROVE TypeInv'
  <2> DEFINE j == [NoJob EXCEPT !.at = "rebind"]
  <2>1. j \in Job /\ Known(j)
    BY NoJobType DEF Job, Known, Places, NoJob
  <2>2. job' \in [Admins -> Job] /\ \A b \in Admins : Known(job'[b])
    BY <1>21, <2>1, Stepped DEF WriteBinding
  <2>3. bindings' \in [Accounts -> SUBSET Ids]
    BY <1>1, <1>21 DEF WriteBinding, AdminTypeOK, Job
  <2>4. UNCHANGED <<rows, next, stored, settings, table, bound, behind>>
    BY <1>21 DEF WriteBinding, memory
  <2>5. QED  BY <1>1, <2>2, <2>3, <2>4 DEF TypeInv, AdminTypeOK, Issued, Has
<1>22. ASSUME ListUpstreams(a)  PROVE TypeInv'
  <2> DEFINE j == [job[a] EXCEPT !.at = "swap", !.list = rows]
  <2>1. j \in Job /\ Known(j)
    BY <1>1 DEF Job, Known, Places, AdminTypeOK
  <2>2. QED  BY <1>1, <1>22, <2>1, Reading DEF ListUpstreams, AdminTypeOK
<1>23. ListFails(a) => TypeInv'
  BY <1>1, RebuiltType, Reading DEF ListFails, AdminTypeOK, Copies
<1>24. ASSUME SwapUpstreams(a)  PROVE TypeInv'
  <2>1. job' \in [Admins -> Job] /\ \A b \in Admins : Known(job'[b])
    BY <1>24, RebuiltType, Stepped DEF SwapUpstreams
  <2>2. table' \in Table /\ UniqueNames(table') /\ behind' \subseteq Copies
    BY <1>1, <1>24 DEF SwapUpstreams, AdminTypeOK, Job, Known
  <2>3. UNCHANGED <<rows, next, bindings, stored, settings, bound>>
    BY <1>24 DEF SwapUpstreams, disk
  <2>4. QED  BY <1>1, <2>1, <2>2, <2>3 DEF TypeInv, AdminTypeOK, Issued, Has
<1>25. ASSUME ReloadBindings(a)  PROVE TypeInv'
  <2>1. job' \in [Admins -> Job] /\ \A b \in Admins : Known(job'[b])
    BY <1>25, NoJobType, Stepped DEF ReloadBindings
  <2>2. bound' \in [Accounts -> SUBSET Ids] /\ behind' \subseteq Copies
    BY <1>1, <1>25 DEF ReloadBindings, AdminTypeOK
  <2>3. UNCHANGED <<rows, next, bindings, stored, settings, table>>
    BY <1>25 DEF ReloadBindings, disk
  <2>4. QED  BY <1>1, <2>1, <2>2, <2>3 DEF TypeInv, AdminTypeOK, Issued, Has
<1>26. ReloadFails(a) => TypeInv'
  BY <1>1, NoJobType, Reading DEF ReloadFails, AdminTypeOK, Copies
<1>27. QED
  BY <1>2, <1>3, <1>4, <1>5, <1>6, <1>7, <1>8, <1>9, <1>10, <1>11, <1>12, <1>13, <1>14,
     <1>15, <1>16, <1>17, <1>18, <1>19, <1>20, <1>21, <1>22, <1>23, <1>24, <1>25, <1>26
  DEF Handle

LEMMA AdminTypeStep == TypeInv /\ [AdminNext]_adminVars => TypeInv'
<1>1. TypeInv /\ UNCHANGED adminVars => TypeInv'
  BY DEF TypeInv, AdminTypeOK, Issued, Has, adminVars
<1>2. ASSUME TypeInv, Restart  PROVE TypeInv'
  BY <1>2, NoJobType DEF Restart, TypeInv, AdminTypeOK, Issued, Has, disk
<1>3. QED  BY <1>1, <1>2, HandleType DEF AdminNext

LEMMA TypeInit == AdminInit => TypeInv
BY ConstantTypes, NoJobType DEF AdminInit, TypeInv, AdminTypeOK, Issued, Has, NoTable

\* Types, and names of exits that are never used twice, for any number of
\* administrators at a time.
THEOREM AdminTypeCorrect == AdminSpec => []AdminTypeOK
<1>1. TypeInv => AdminTypeOK  BY DEF TypeInv
<1>2. QED  BY <1>1, TypeInit, AdminTypeStep, PTL DEF AdminSpec

-----------------------------------------------------------------------------
(* One administrator at a time *)

\* What a handler becomes, when nothing else changes, has to fit what there is.
LEMMA Quietly ==
  ASSUME TypeInv, NEW a \in Admins, NEW j, Becomes(a, j), Steady(j),
         UNCHANGED <<disk, memory, behind>>
  PROVE  Steady(job[a])'
<1>1. job'[a] = j  BY DEF TypeInv, AdminTypeOK, Becomes
<1>2. UNCHANGED <<rows, next, bindings, stored, settings, table, bound, behind>>
  BY DEF disk, memory
<1>3. QED
  BY <1>1, <1>2
  DEF Steady, StillTrue, IsDefault, DefaultExists, SettingsAgree, TableAgrees, BindingsAgree,
      Has, Usable, Named

LEMMA ReadingSteady ==
  ASSUME TypeInv, NEW a \in Admins, Steady(job[a]),
         \/ Refuse(a)
         \/ \E i \in Ids, n \in Names, on \in BOOLEAN : ReadForUpdate(a, i, n, on)
         \/ CheckUpdate(a) \/ Current(a)
         \/ \E i \in Ids : ReadForDelete(a, i)
         \/ CheckDelete(a)
         \/ \E i \in Ids : ReadForDefault(a, i)
         \/ \E n \in Names \cup {None}, o \in Offered : CheckSettings(a, n, o)
         \/ LoadSettings(a) \/ ReadForReset(a)
         \/ \E x \in Accounts, ids \in SUBSET Ids : CheckBinding(a, x, ids)
         \/ ListUpstreams(a)
  PROVE  Steady(job[a])'
<1>1. job[a] \in Job /\ Known(job[a]) /\ AdminTypeOK  BY DEF TypeInv, AdminTypeOK
<1>2. ASSUME Refuse(a)  PROVE Steady(job[a])'
  <2>1. job[a].at \notin {"current", "set", "load", "install", "replace", "list", "swap",
                          "rebind"}
    BY <1>2 DEF Refuse
  <2>2. Steady(NoJob)
    BY <2>1 DEF NoJob, Steady, StillTrue, SettingsAgree, TableAgrees, BindingsAgree
  <2>3. QED  BY <1>2, <2>2, Quietly DEF Refuse
<1>3. ASSUME NEW i \in Ids, NEW n \in Names, NEW on \in BOOLEAN, ReadForUpdate(a, i, n, on)
      PROVE  Steady(job[a])'
  <2> DEFINE j == [NoJob EXCEPT !.at = "edit", !.id = i, !.old = rows[i],
                                !.new = [name |-> n, on |-> on]]
  <2>1. Steady(j)
    BY <1>3
    DEF ReadForUpdate, At, NoJob, Steady, StillTrue, SettingsAgree, TableAgrees, BindingsAgree
  <2>2. QED  BY <1>3, <2>1, Quietly DEF ReadForUpdate
<1>4. ASSUME CheckUpdate(a)  PROVE Steady(job[a])'
  <2> DEFINE isDefault == job[a].old.name = settings.default
             j == [job[a] EXCEPT !.at = "update",
                     !.rename = isDefault /\ job[a].new.name # job[a].old.name]
  <2>1. Steady(j)
    BY <1>1, <1>4
    DEF CheckUpdate, At, Job, Steady, StillTrue, IsDefault, SettingsAgree, TableAgrees,
        BindingsAgree
  <2>2. QED  BY <1>4, <2>1, Quietly DEF CheckUpdate
<1>5. ASSUME Current(a)  PROVE Steady(job[a])'
  <2> DEFINE j == [NoJob EXCEPT !.at = "set",
                     !.snap = [settings EXCEPT !.default = job[a].new.name]]
             k == [NoJob EXCEPT !.at = "list", !.rebind = FALSE]
  <2>1. CASE job[a].rename => settings.default = job[a].old.name
    <3>1. Steady(j)
      BY <1>5
      DEF Current, At, NoJob, Steady, StillTrue, SettingsAgree, TableAgrees, BindingsAgree
    <3>2. QED  BY <1>5, <2>1, <3>1, Quietly DEF Current
  <2>2. CASE ~(job[a].rename => settings.default = job[a].old.name)
    <3>1. Steady(k)
      BY <1>5, <2>2
      DEF Current, At, NoJob, Steady, StillTrue, IsDefault, SettingsAgree, TableAgrees,
          BindingsAgree
    <3>2. QED  BY <1>5, <2>2, <3>1, Quietly DEF Current, Rebuild
  <2>3. QED  BY <2>1, <2>2
<1>6. ASSUME NEW i \in Ids, ReadForDelete(a, i)  PROVE Steady(job[a])'
  <2> DEFINE j == [NoJob EXCEPT !.at = "remove", !.id = i, !.snap = settings]
  <2>1. Steady(j)
    BY <1>6
    DEF ReadForDelete, At, NoJob, Steady, StillTrue, SettingsAgree, TableAgrees, BindingsAgree
  <2>2. QED  BY <1>6, <2>1, Quietly DEF ReadForDelete
<1>7. ASSUME CheckDelete(a)  PROVE Steady(job[a])'
  <2> DEFINE j == [job[a] EXCEPT !.at = "delete"]
  <2>1. Steady(j)
    BY <1>1, <1>7
    DEF CheckDelete, At, Job, Steady, StillTrue, SettingsAgree, TableAgrees, BindingsAgree
  <2>2. QED  BY <1>7, <2>1, Quietly DEF CheckDelete, Moves
<1>8. ASSUME NEW i \in Ids, ReadForDefault(a, i)  PROVE Steady(job[a])'
  <2> DEFINE j == [NoJob EXCEPT !.at = "choose", !.new = rows[i]]
  <2>1. Usable(rows, rows[i].name)
    BY <1>8 DEF ReadForDefault, Usable, Named
  <2>2. Steady(j)
    BY <1>8, <2>1
    DEF ReadForDefault, At, NoJob, Steady, StillTrue, SettingsAgree, TableAgrees,
        BindingsAgree
  <2>3. QED  BY <1>8, <2>2, Quietly DEF ReadForDefault
<1>9. ASSUME NEW n \in Names \cup {None}, NEW o \in Offered, CheckSettings(a, n, o)
      PROVE  Steady(job[a])'
  <2> DEFINE j == [NoJob EXCEPT !.at = "save", !.snap = Chosen(n, o)]
  <2>1. Chosen(n, o).default = n  BY DEF Chosen
  <2>2. Steady(j)
    BY <1>9, <2>1
    DEF CheckSettings, At, NoJob, Steady, StillTrue, SettingsAgree, TableAgrees, BindingsAgree
  <2>3. QED  BY <1>9, <2>2, Quietly DEF CheckSettings
<1>10. ASSUME LoadSettings(a)  PROVE Steady(job[a])'
  <2> DEFINE j == [NoJob EXCEPT !.at = "install", !.snap = stored]
  <2>1. Steady(j)
    BY <1>10
    DEF LoadSettings, At, NoJob, Steady, StillTrue, SettingsAgree, TableAgrees, BindingsAgree
  <2>2. QED  BY <1>10, <2>1, Quietly DEF LoadSettings
<1>11. ASSUME ReadForReset(a)  PROVE Steady(job[a])'
  <2> DEFINE j == [NoJob EXCEPT !.at = "reset", !.snap = settings]
  <2>1. Steady(j)
    BY <1>11
    DEF ReadForReset, At, NoJob, Steady, StillTrue, SettingsAgree, TableAgrees, BindingsAgree
  <2>2. QED  BY <1>11, <2>1, Quietly DEF ReadForReset
<1>12. ASSUME NEW x \in Accounts, NEW ids \in SUBSET Ids, CheckBinding(a, x, ids)
       PROVE  Steady(job[a])'
  <2> DEFINE j == [NoJob EXCEPT !.at = "bind", !.account = {x}, !.exits = ids]
  <2>1. Steady(j)
    BY <1>12
    DEF CheckBinding, At, NoJob, Steady, StillTrue, SettingsAgree, TableAgrees, BindingsAgree
  <2>2. QED  BY <1>12, <2>1, Quietly DEF CheckBinding
<1>13. ASSUME ListUpstreams(a)  PROVE Steady(job[a])'
  <2> DEFINE j == [job[a] EXCEPT !.at = "swap", !.list = rows]
  <2>1. Steady(j)
    BY <1>1, <1>13
    DEF ListUpstreams, At, Job, Steady, StillTrue, SettingsAgree, TableAgrees, BindingsAgree
  <2>2. QED  BY <1>13, <2>1, Quietly DEF ListUpstreams
<1>14. QED
  BY <1>2, <1>3, <1>4, <1>5, <1>6, <1>7, <1>8, <1>9, <1>10, <1>11, <1>12, <1>13

\* Usable is about the rows only.
LEMMA StillUsable ==
  ASSUME NEW n, Usable(rows, n), NEW t, \A i \in Named(rows, n) : t[i] = rows[i]
  PROVE  Usable(t, n)
BY DEF Usable, Named, Has

LEMMA WritingSteady ==
  ASSUME TypeInv, NEW a \in Admins, Steady(job[a]),
         \/ \E n \in Names, on \in BOOLEAN : CreateUpstream(a, n, on)
         \/ WriteUpdate(a) \/ DeleteUpstream(a) \/ WriteDefault(a)
         \/ SaveSettings(a) \/ SaveReset(a) \/ WriteBinding(a)
  PROVE  Steady(job[a])'
<1>1. job[a] \in Job /\ Known(job[a]) /\ AdminTypeOK /\ job \in [Admins -> Job]
  BY DEF TypeInv, AdminTypeOK
<1>2. ASSUME NEW j, Becomes(a, j)  PROVE job'[a] = j
  BY <1>1, <1>2 DEF Becomes
<1>3. ASSUME NEW rebind, Rebuild(a, rebind)
      PROVE  job'[a].at = "list" /\ job'[a].rebind = rebind
  BY <1>2, <1>3 DEF Rebuild, NoJob
<1>4. ASSUME NEW n \in Names, NEW on \in BOOLEAN, CreateUpstream(a, n, on)
      PROVE  Steady(job[a])'
  <2>1. /\ job'[a].at = "list" /\ ~job'[a].rebind /\ job[a].at = "idle"
        /\ rows' = [rows EXCEPT ![next] = [name |-> n, on |-> on]] /\ Named(rows, n) = {}
        /\ UNCHANGED <<bindings, stored, settings, table, bound, behind>>
    BY <1>3, <1>4 DEF CreateUpstream, At, memory
  <2>2. DefaultExists => DefaultExists'
    <3>1. SUFFICES ASSUME DefaultExists, stored.default # None
                   PROVE  Usable(rows', stored.default)
      BY <2>1 DEF DefaultExists
    <3>2. \A i \in Named(rows, stored.default) : rows'[i] = rows[i]
      BY <1>1, <2>1, AdminAssumption DEF TypeInv, AdminTypeOK, Table, Named, Issued
    <3>3. QED  BY <3>1, <3>2, StillUsable DEF DefaultExists
  <2>3. QED
    BY <2>1, <2>2
    DEF Steady, StillTrue, SettingsAgree, TableAgrees, BindingsAgree
<1>5. ASSUME WriteUpdate(a)  PROVE Steady(job[a])'
  <2> DEFINE j == job[a]
  <2>1. /\ j.at = "update" /\ j.new \in Row /\ j.id \in Ids /\ Has(rows, j.id)
        /\ rows[j.id] = j.old /\ j.old \in Row
        /\ j.rename = (IsDefault(j) /\ j.new.name # j.old.name)
        /\ IsDefault(j) /\ j.old.on => j.new.on
    BY <1>1, <1>5 DEF WriteUpdate, At, Known, Steady, StillTrue, Has, AdminTypeOK, Table
  <2>2. /\ rows' = [rows EXCEPT ![j.id] = j.new]
        /\ UNCHANGED <<bindings, settings, table, bound, behind>>
    BY <1>5, <2>1 DEF WriteUpdate, memory
  <2>3. "settings" \notin behind =>
          (stored.default # None => Usable(rows, stored.default)) /\ settings = stored
    BY <2>1 DEF Steady, SettingsAgree, DefaultExists
  <2>4. "bound" \notin behind => bound = bindings
    BY <2>1 DEF Steady, BindingsAgree
  <2>5. ASSUME "settings" \notin behind, IsDefault(j)
        PROVE  Usable(rows', j.new.name)
    <3>1. Usable(rows, j.old.name)
      BY <2>1, <2>3, <2>5, ExitAssumption DEF IsDefault, Row
    <3>2. j.old.on
      BY <1>1, <2>1, <3>1 DEF Usable, Named, AdminTypeOK, UniqueNames, Has
    <3>3. rows'[j.id] = j.new /\ j.new # Absent /\ j.new.on
      BY <1>1, <2>1, <2>2, <2>5, <3>2, ExitAssumption DEF AdminTypeOK, Table, Row
    <3>4. QED  BY <2>1, <3>3 DEF Usable, Named, Has
  <2>6. ASSUME "settings" \notin behind, ~IsDefault(j), stored.default # None
        PROVE  Usable(rows', stored.default)
    <3>1. Usable(rows, stored.default) /\ rows[j.id].name # stored.default
      BY <2>1, <2>3, <2>6 DEF IsDefault
    <3>2. \A i \in Named(rows, stored.default) : rows'[i] = rows[i]
      BY <1>1, <2>2, <3>1 DEF Named, AdminTypeOK, Table
    <3>3. QED  BY <3>1, <3>2, StillUsable
  <2>7. CASE j.rename
    <3>1. /\ stored' = [stored EXCEPT !.default = j.new.name]
          /\ job'[a] = [j EXCEPT !.at = "current"]
      BY <1>2, <1>5, <2>7 DEF WriteUpdate, Moves
    <3>2. job'[a].at = "current" /\ job'[a].new = j.new /\ job'[a].old = j.old
          /\ stored'.default = j.new.name
      BY <1>1, <3>1 DEF Job, AdminTypeOK, Snapshot
    <3>3. "settings" \notin behind =>
            DefaultExists' /\ stored' = [settings EXCEPT !.default = j.new.name]
      BY <2>1, <2>3, <2>5, <2>7, <3>1, <3>2 DEF DefaultExists
    <3>4. QED
      BY <2>1, <2>2, <2>4, <2>7, <3>2, <3>3
      DEF Steady, StillTrue, IsDefault, SettingsAgree, TableAgrees, BindingsAgree
  <2>8. CASE ~j.rename
    <3>1. stored' = stored /\ job'[a].at = "list" /\ ~job'[a].rebind
      BY <1>3, <1>5, <2>8 DEF WriteUpdate
    <3>2. "settings" \notin behind => DefaultExists'
      BY <2>1, <2>3, <2>5, <2>6, <2>8, <3>1 DEF DefaultExists, IsDefault
    <3>3. QED
      BY <2>2, <2>3, <2>4, <3>1, <3>2
      DEF Steady, StillTrue, SettingsAgree, TableAgrees, BindingsAgree
  <2>9. QED  BY <2>7, <2>8
<1>6. ASSUME DeleteUpstream(a)  PROVE Steady(job[a])'
  <2>1. /\ job'[a].at = "list" /\ job'[a].rebind /\ job[a].at = "delete"
        /\ rows' = [rows EXCEPT ![job[a].id] = Absent]
        /\ UNCHANGED <<stored, settings, table, bound, behind>>
    BY <1>3, <1>6 DEF DeleteUpstream, At, memory
  <2>2. rows[job[a].id].name # settings.default
    BY <2>1 DEF Steady, StillTrue
  <2>3. "settings" \notin behind => DefaultExists /\ settings = stored
    BY <2>1 DEF Steady, SettingsAgree
  <2>4. "settings" \notin behind => DefaultExists'
    <3>1. SUFFICES ASSUME "settings" \notin behind, stored.default # None
                   PROVE  Usable(rows', stored.default)
      BY <2>1 DEF DefaultExists
    <3>2. \A i \in Named(rows, stored.default) : rows'[i] = rows[i]
      BY <1>1, <2>1, <2>2, <2>3, <3>1 DEF Named, AdminTypeOK, Table
    <3>3. QED  BY <2>3, <3>1, <3>2, StillUsable DEF DefaultExists
  <2>5. QED
    BY <2>1, <2>3, <2>4 DEF Steady, StillTrue, SettingsAgree, TableAgrees, BindingsAgree
<1>7. ASSUME WriteDefault(a)  PROVE Steady(job[a])'
  <2>1. /\ job[a].at = "choose" /\ ~job[a].rename /\ Usable(rows, job[a].new.name)
        /\ job'[a] = [job[a] EXCEPT !.at = "current"]
        /\ stored' = [stored EXCEPT !.default = job[a].new.name]
        /\ UNCHANGED <<rows, bindings, settings, table, bound, behind>>
    BY <1>2, <1>7 DEF WriteDefault, At, Moves, memory, Steady, StillTrue
  <2>2. /\ job'[a].at = "current" /\ ~job'[a].rename /\ job'[a].new = job[a].new
        /\ stored'.default = job[a].new.name
    BY <1>1, <2>1 DEF Job, AdminTypeOK, Snapshot
  <2>3. DefaultExists'  BY <2>1, <2>2 DEF DefaultExists
  <2>4. "settings" \notin behind => stored' = [settings EXCEPT !.default = job[a].new.name]
    BY <2>1 DEF Steady, SettingsAgree
  <2>5. QED
    BY <2>1, <2>2, <2>3, <2>4
    DEF Steady, StillTrue, SettingsAgree, TableAgrees, BindingsAgree
<1>8. ASSUME SaveSettings(a)  PROVE Steady(job[a])'
  <2>1. /\ job[a].at = "save" /\ job'[a] = [job[a] EXCEPT !.at = "load"]
        /\ stored' = job[a].snap
        /\ UNCHANGED <<rows, bindings, settings, table, bound, behind>>
    BY <1>2, <1>8 DEF SaveSettings, At, Moves, memory
  <2>2. job'[a].at = "load"  BY <1>1, <2>1 DEF Job
  <2>3. DefaultExists'  BY <2>1 DEF Steady, StillTrue, DefaultExists
  <2>4. QED
    BY <2>1, <2>2, <2>3 DEF Steady, StillTrue, SettingsAgree, TableAgrees, BindingsAgree
<1>9. ASSUME SaveReset(a)  PROVE Steady(job[a])'
  <2>1. /\ job[a].at = "reset" /\ job'[a] = [job[a] EXCEPT !.at = "replace"]
        /\ stored' = job[a].snap /\ job[a].snap = settings
        /\ UNCHANGED <<rows, bindings, settings, table, bound, behind>>
    BY <1>2, <1>9 DEF SaveReset, At, Moves, memory, Steady, StillTrue
  <2>2. job'[a].at = "replace" /\ job'[a].snap = job[a].snap
    BY <1>1, <2>1 DEF Job
  <2>3. "settings" \notin behind => DefaultExists'
    BY <2>1 DEF Steady, SettingsAgree, DefaultExists
  <2>4. QED
    BY <2>1, <2>2, <2>3 DEF Steady, StillTrue, SettingsAgree, TableAgrees, BindingsAgree
<1>10. ASSUME WriteBinding(a)  PROVE Steady(job[a])'
  <2>1. /\ job[a].at = "bind" /\ job'[a] = [NoJob EXCEPT !.at = "rebind"]
        /\ UNCHANGED <<rows, stored, settings, table, bound, behind>>
    BY <1>2, <1>10 DEF WriteBinding, At, memory
  <2>2. job'[a].at = "rebind"  BY <2>1 DEF NoJob
  <2>3. "settings" \notin behind => DefaultExists' /\ settings = stored
    BY <2>1 DEF Steady, SettingsAgree, DefaultExists
  <2>4. QED
    BY <2>1, <2>2, <2>3 DEF Steady, StillTrue, SettingsAgree, TableAgrees, BindingsAgree
<1>11. QED  BY <1>4, <1>5, <1>6, <1>7, <1>8, <1>9, <1>10

LEMMA CopyingSteady ==
  ASSUME TypeInv, NEW a \in Admins, Steady(job[a]),
         \/ SetSettings(a) \/ LoadFails(a) \/ SetReset(a)
         \/ ListFails(a) \/ SwapUpstreams(a) \/ ReloadBindings(a) \/ ReloadFails(a)
  PROVE  Steady(job[a])'
<1>1. job[a] \in Job /\ AdminTypeOK /\ job \in [Admins -> Job]
  BY DEF TypeInv, AdminTypeOK
<1>2. ASSUME NEW j, Becomes(a, j)  PROVE job'[a] = j
  BY <1>1, <1>2 DEF Becomes
<1>3. NoJob.at = "idle"
  BY DEF NoJob
<1>4. /\ ~job[a].rebind => Rebuilt(a).at = "idle"
      /\ job[a].rebind => Rebuilt(a).at = "rebind"
  BY DEF NoJob, Rebuilt
<1>5. ASSUME SetSettings(a)  PROVE Steady(job[a])'
  <2>1. /\ job[a].at \in {"set", "install"} /\ job'[a] = [NoJob EXCEPT !.at = "list", !.rebind = FALSE]
        /\ settings' = job[a].snap
        /\ job[a].at = "set" => behind' = behind
        /\ behind \subseteq behind' \cup {"settings"} /\ behind' \subseteq behind
        /\ UNCHANGED <<rows, bindings, stored, table, bound>>
    BY <1>2, <1>5 DEF SetSettings, At, Rebuild, disk
  <2>2. job'[a].at = "list" /\ ~job'[a].rebind  BY <2>1 DEF NoJob
  <2>3. "settings" \notin behind' => DefaultExists' /\ settings' = stored
    BY <2>1 DEF Steady, StillTrue, SettingsAgree, DefaultExists
  <2>4. QED
    BY <2>1, <2>2, <2>3 DEF Steady, StillTrue, SettingsAgree, TableAgrees, BindingsAgree
<1>6. ASSUME LoadFails(a)  PROVE Steady(job[a])'
  <2>1. /\ job[a].at = "load" /\ job'[a].at = "idle" /\ behind' = behind \cup {"settings"}
        /\ UNCHANGED <<rows, bindings, stored, settings, table, bound>>
    BY <1>2, <1>3, <1>6 DEF LoadFails, At, disk, memory
  <2>2. QED
    BY <2>1 DEF Steady, StillTrue, SettingsAgree, TableAgrees, BindingsAgree
<1>7. ASSUME SetReset(a)  PROVE Steady(job[a])'
  <2>1. /\ job[a].at = "replace" /\ job'[a].at = "idle" /\ settings' = job[a].snap
        /\ UNCHANGED <<rows, bindings, stored, table, bound, behind>>
    BY <1>2, <1>3, <1>7 DEF SetReset, At, disk
  <2>2. "settings" \notin behind => DefaultExists' /\ settings' = stored
    BY <2>1 DEF Steady, StillTrue, SettingsAgree, DefaultExists
  <2>3. QED
    BY <2>1, <2>2 DEF Steady, StillTrue, SettingsAgree, TableAgrees, BindingsAgree
<1>8. ASSUME ListFails(a) \/ SwapUpstreams(a)  PROVE Steady(job[a])'
  <2>1. /\ job[a].at \in {"list", "swap"} /\ job'[a] = Rebuilt(a)
        /\ behind \subseteq behind' \cup {"table"} /\ behind' \subseteq behind \cup {"table"}
        /\ UNCHANGED <<rows, bindings, stored, settings, bound>>
    BY <1>2, <1>8 DEF ListFails, SwapUpstreams, At, disk, memory
  <2>2. "table" \notin behind' => table' = rows'
    BY <1>8 DEF ListFails, SwapUpstreams, At, disk, memory, Steady, StillTrue
  <2>3. "settings" \notin behind' => DefaultExists' /\ settings' = stored
    BY <2>1 DEF Steady, SettingsAgree, DefaultExists
  <2>4. "bound" \notin behind' /\ ~job[a].rebind => bound' = bindings
    BY <2>1 DEF Steady, BindingsAgree
  <2>5. (job'[a].at = "idle" /\ ~job[a].rebind) \/ job'[a].at = "rebind"
    BY <1>4, <2>1, <1>1 DEF Job
  <2>6. QED
    BY <2>1, <2>2, <2>3, <2>4, <2>5
    DEF Steady, StillTrue, SettingsAgree, TableAgrees, BindingsAgree
<1>9. ASSUME ReloadBindings(a) \/ ReloadFails(a)  PROVE Steady(job[a])'
  <2>1. /\ job[a].at = "rebind" /\ job'[a].at = "idle"
        /\ behind \subseteq behind' \cup {"bound"} /\ behind' \subseteq behind \cup {"bound"}
        /\ UNCHANGED <<rows, bindings, stored, settings, table>>
    BY <1>2, <1>3, <1>9 DEF ReloadBindings, ReloadFails, At, disk, memory
  <2>2. "bound" \notin behind' => bound' = bindings'
    BY <1>9 DEF ReloadBindings, ReloadFails, disk, memory
  <2>3. "settings" \notin behind' => DefaultExists' /\ settings' = stored
    BY <2>1 DEF Steady, SettingsAgree, DefaultExists
  <2>4. QED
    BY <2>1, <2>2, <2>3 DEF Steady, StillTrue, SettingsAgree, TableAgrees, BindingsAgree
<1>10. QED  BY <1>5, <1>6, <1>7, <1>8, <1>9

LEMMA RestartSteady ==
  ASSUME TypeInv, NEW a \in Admins, Steady(job[a]), Restart
  PROVE  Steady(job[a])'
<1>1. /\ job'[a].at = "idle" /\ behind' = behind \cap {"settings"}
      /\ settings' = stored /\ table' = rows /\ bound' = bindings
      /\ UNCHANGED <<rows, bindings, stored>>
  BY DEF Restart, NoJob, disk
<1>2. "settings" \notin behind' => DefaultExists'
  BY <1>1 DEF Steady, SettingsAgree, DefaultExists
<1>3. QED
  BY <1>1, <1>2 DEF Steady, StillTrue, SettingsAgree, TableAgrees, BindingsAgree

LEMMA InvInit == AdminInit => AdminInv
<1>1. ASSUME AdminInit, NEW a \in Admins  PROVE Steady(job[a])
  <2>1. /\ job[a].at = "idle" /\ stored.default = None
        /\ settings = stored /\ table = rows /\ bound = bindings
    BY <1>1 DEF AdminInit, NoJob, NoSnapshot
  <2>2. QED
    BY <2>1 DEF Steady, StillTrue, SettingsAgree, DefaultExists, TableAgrees, BindingsAgree
<1>2. QED  BY <1>1, TypeInit DEF AdminInv

LEMMA InvStep == AdminInv /\ [AdminNext]_adminVars => AdminInv'
<1> SUFFICES ASSUME AdminInv, [AdminNext]_adminVars, OneAdmin, NEW a \in Admins
             PROVE  Steady(job[a])'
  BY AdminTypeStep DEF AdminInv, OneAdmin
<1>1. TypeInv /\ Steady(job[a]) /\ \A b \in Admins : b = a
  BY DEF AdminInv, OneAdmin
<1>2. CASE UNCHANGED adminVars
  BY <1>1, <1>2
  DEF adminVars, Steady, StillTrue, IsDefault, SettingsAgree, DefaultExists, TableAgrees,
      BindingsAgree, Has, Usable, Named
<1>3. CASE Restart  BY <1>1, <1>3, RestartSteady
<1>4. CASE Handle(a)
  BY <1>1, <1>4, ReadingSteady, WritingSteady, CopyingSteady DEF Handle
<1>5. QED  BY <1>1, <1>2, <1>3, <1>4 DEF AdminNext

\* What handlers have read and what the copies hold, at every moment.
THEOREM AdminInvariant == AdminSpec => []AdminInv
BY InvInit, InvStep, PTL DEF AdminSpec

\* Requests of the admin API that come one after the other never leave the
\* stored default upstream without an exit it can use, for any exits, names and
\* settings, wherever a handler stops.
THEOREM DefaultStaysUsable == AdminSpec => []DefaultUsable
<1>1. AdminInv => DefaultUsable
  BY AdminAssumption DEF AdminInv, DefaultUsable, Steady, SettingsAgree, DefaultExists
<1>2. QED  BY <1>1, AdminInvariant, PTL

\* They leave every copy as a restart would restore it, but for a reload that
\* failed.
THEOREM CopiesEndUpEqual == AdminSpec => []CopiesAgree
<1>1. ASSUME AdminInv, OneAdmin, Quiet
      PROVE  /\ "settings" \notin behind => settings = stored
             /\ "table" \notin behind => table = rows
             /\ "bound" \notin behind => bound = bindings
  <2>1. PICK a \in Admins : job[a] = NoJob  BY <1>1, AdminAssumption DEF Quiet
  <2>2. Steady(job[a]) /\ job[a].at = "idle"  BY <1>1, <2>1 DEF AdminInv, NoJob
  <2>3. QED  BY <2>2 DEF Steady, SettingsAgree, TableAgrees, BindingsAgree
<1>2. AdminInv => CopiesAgree  BY <1>1 DEF CopiesAgree
<1>3. QED  BY <1>2, AdminInvariant, PTL

-----------------------------------------------------------------------------
(* Ids that are still to be given *)

\* A handler knows nothing of exit i,
Unaware(j, i) == i \notin j.exits /\ ~Has(j.list, i)

\* neither do the tables and the copies.
Unused(i) ==
  /\ ~Has(rows, i) /\ ~Has(table, i)
  /\ \A x \in Accounts : i \notin bindings[x] \cup bound[x]

LEMMA NoJobUnaware == ASSUME NEW i \in Ids  PROVE Unaware(NoJob, i)
BY DEF Unaware, NoJob, NoTable, Has

\* A step of one handler tells neither it nor the tables of an exit that does not exist
\* after it.
LEMMA FreshHandle ==
  ASSUME TypeInv, NEW a \in Admins, Handle(a), NEW i \in Ids, i >= next',
         i >= next => Unused(i) /\ Unaware(job[a], i)
  PROVE  i >= next /\ Unused(i)' /\ Unaware(job'[a], i)
<1>1. /\ AdminTypeOK /\ job \in [Admins -> Job] /\ job[a] \in Job /\ next \in Nat /\ i \in Nat
      /\ rows \in Table /\ bindings \in [Accounts -> SUBSET Ids]
  BY AdminAssumption DEF TypeInv, AdminTypeOK
<1>2. ASSUME NEW j, Becomes(a, j)  PROVE job'[a] = j
  BY <1>1, <1>2 DEF Becomes
<1>3. CASE \E n \in Names, on \in BOOLEAN : CreateUpstream(a, n, on)
  <2>1. PICK n \in Names, on \in BOOLEAN : CreateUpstream(a, n, on)  BY <1>3
  <2>2. /\ next' = next + 1 /\ rows' = [rows EXCEPT ![next] = [name |-> n, on |-> on]]
        /\ job'[a] = [NoJob EXCEPT !.at = "list", !.rebind = FALSE]
        /\ UNCHANGED <<bindings, settings, table, bound>>
    BY <1>2, <2>1 DEF CreateUpstream, Rebuild, memory
  <2>3. i >= next /\ i # next  BY <1>1, <2>2
  <2>4. Unaware(job'[a], i)  BY <2>2, NoJobUnaware DEF Unaware, NoJob
  <2>5. Unused(i)'  BY <1>1, <2>2, <2>3 DEF Unused, Has, Table
  <2>6. QED  BY <2>3, <2>4, <2>5
<1>4. CASE next' = next
  <2>1. i >= next /\ Unused(i) /\ Unaware(job[a], i)  BY <1>4
  <2>2. UNCHANGED <<rows, bindings, memory>> /\ Unaware(job'[a], i) => Unused(i)'
    BY <2>1 DEF Unused, memory
  <2>3. ASSUME \/ Refuse(a) \/ LoadSettings(a) \/ ReadForReset(a) \/ LoadFails(a)
               \/ WriteDefault(a) \/ SaveSettings(a) \/ SaveReset(a) \/ CheckDelete(a)
               \/ CheckUpdate(a) \/ Current(a)
               \/ \E k \in Ids : ReadForDelete(a, k)
               \/ \E k \in Ids : ReadForDefault(a, k)
               \/ \E k \in Ids, n \in Names, on \in BOOLEAN : ReadForUpdate(a, k, n, on)
               \/ \E n \in Names \cup {None}, o \in Offered : CheckSettings(a, n, o)
        PROVE  Unused(i)' /\ Unaware(job'[a], i)
    <3>1. UNCHANGED <<rows, bindings, settings, table, bound>>
      BY <2>3 DEF Refuse, LoadSettings, ReadForReset, LoadFails, WriteDefault, SaveSettings,
                  SaveReset, CheckDelete, CheckUpdate, Current, ReadForDelete, ReadForDefault,
                  ReadForUpdate, CheckSettings, disk, memory
    <3>2. CASE WriteDefault(a) \/ SaveSettings(a) \/ SaveReset(a) \/ CheckDelete(a)
                 \/ CheckUpdate(a)
      <4>1. job'[a].exits = job[a].exits /\ job'[a].list = job[a].list
        BY <1>1, <1>2, <3>2 DEF WriteDefault, SaveSettings, SaveReset, CheckDelete, CheckUpdate,
                                Moves, Job
      <4>2. QED  BY <2>1, <3>1, <4>1 DEF Unused, Unaware
    <3>3. CASE ~(WriteDefault(a) \/ SaveSettings(a) \/ SaveReset(a) \/ CheckDelete(a)
                   \/ CheckUpdate(a))
      <4> DEFINE New(j) == j.exits = NoJob.exits /\ j.list = NoJob.list
      <4>1. /\ \A k \in Ids : ReadForDelete(a, k) => New(job'[a])
            /\ \A k \in Ids : ReadForDefault(a, k) => New(job'[a])
        BY <1>2 DEF ReadForDelete, ReadForDefault, NoJob
      <4>2. \A k \in Ids, n \in Names, on \in BOOLEAN :
              ReadForUpdate(a, k, n, on) => New(job'[a])
        BY <1>2 DEF ReadForUpdate, NoJob
      <4>3. \A n \in Names \cup {None}, o \in Offered : CheckSettings(a, n, o) => New(job'[a])
        BY <1>2 DEF CheckSettings, NoJob
      <4>4. Refuse(a) \/ LoadSettings(a) \/ ReadForReset(a) \/ LoadFails(a) \/ Current(a)
              => New(job'[a])
        BY <1>2 DEF Refuse, LoadSettings, ReadForReset, LoadFails, Current, Rebuild, NoJob
      <4>5. New(job'[a])  BY <2>3, <3>3, <4>1, <4>2, <4>3, <4>4
      <4>6. QED  BY <2>1, <3>1, <4>5, NoJobUnaware DEF Unused, Unaware
    <3>4. QED  BY <3>2, <3>3
  <2>4. ASSUME NEW x \in Accounts, NEW ids \in SUBSET Ids, CheckBinding(a, x, ids)
        PROVE  Unused(i)' /\ Unaware(job'[a], i)
    <3>1. i \notin ids /\ UNCHANGED <<rows, bindings, settings, table, bound>>
      BY <2>1, <2>4 DEF CheckBinding, Unused, disk, memory
    <3>2. job'[a] = [NoJob EXCEPT !.at = "bind", !.account = {x}, !.exits = ids]
      BY <1>2, <2>4 DEF CheckBinding
    <3>3. Unaware(job'[a], i)  BY <3>1, <3>2 DEF NoJob, NoTable, Unaware, Has
    <3>4. QED  BY <2>1, <3>1, <3>3 DEF Unused
  <2>5. ASSUME ListUpstreams(a) \/ ListFails(a)
        PROVE  Unused(i)' /\ Unaware(job'[a], i)
    <3>1. UNCHANGED <<rows, bindings, settings, table, bound>>
      BY <2>5 DEF ListUpstreams, ListFails, disk, memory
    <3>2. Unaware([job[a] EXCEPT !.at = "swap", !.list = rows], i)
      BY <1>1, <2>1 DEF Unaware, Unused, Job
    <3>3. Unaware(Rebuilt(a), i)  BY NoJobUnaware DEF Rebuilt, NoJob, Unaware
    <3>4. Unaware(job'[a], i)
      BY <1>2, <2>5, <3>2, <3>3 DEF ListUpstreams, ListFails
    <3>5. QED  BY <2>1, <3>1, <3>4 DEF Unused
  <2>6. ASSUME WriteUpdate(a)  PROVE Unused(i)' /\ Unaware(job'[a], i)
    <3>1. /\ UNCHANGED <<bindings, settings, table, bound>>
          /\ rows' = rows \/ (Has(rows, job[a].id) /\ rows' = [rows EXCEPT ![job[a].id] = job[a].new])
      BY <2>6 DEF WriteUpdate, memory
    <3>2. ~Has(rows', i)  BY <1>1, <2>1, <3>1 DEF Unused, Has, Table
    <3>3. Unaware(job'[a], i)
      BY <1>1, <1>2, <2>1, <2>6, NoJobUnaware
      DEF WriteUpdate, Moves, Rebuild, Unaware, Job, NoJob
    <3>4. QED  BY <2>1, <3>1, <3>2, <3>3 DEF Unused
  <2>7. ASSUME DeleteUpstream(a)  PROVE Unused(i)' /\ Unaware(job'[a], i)
    <3>1. /\ rows' = [rows EXCEPT ![job[a].id] = Absent]
          /\ bindings' = [x \in Accounts |-> bindings[x] \ {job[a].id}]
          /\ job'[a] = [NoJob EXCEPT !.at = "list", !.rebind = TRUE]
          /\ UNCHANGED <<settings, table, bound>>
      BY <1>2, <2>7 DEF DeleteUpstream, Rebuild, memory
    <3>2. ~Has(rows', i)  BY <1>1, <2>1, <3>1 DEF Unused, Has, Table
    <3>3. QED  BY <2>1, <3>1, <3>2, NoJobUnaware DEF Unused, Unaware, NoJob
  <2>8. ASSUME WriteBinding(a)  PROVE Unused(i)' /\ Unaware(job'[a], i)
    <3>1. /\ bindings' = [x \in Accounts |-> IF x \in job[a].account THEN job[a].exits
                                                                     ELSE bindings[x]]
          /\ job'[a] = [NoJob EXCEPT !.at = "rebind"]
          /\ UNCHANGED <<rows, settings, table, bound>>
      BY <1>2, <2>8 DEF WriteBinding, memory
    <3>2. QED  BY <2>1, <3>1, NoJobUnaware DEF Unused, Unaware, NoJob
  <2>9. ASSUME SetSettings(a) \/ SetReset(a)  PROVE Unused(i)' /\ Unaware(job'[a], i)
    <3>1. UNCHANGED <<rows, bindings, table, bound>>
      BY <2>9 DEF SetSettings, SetReset, disk
    <3>2. Unaware(job'[a], i)
      BY <1>2, <2>9, NoJobUnaware DEF SetSettings, SetReset, Rebuild, Unaware, NoJob
    <3>3. QED  BY <2>1, <3>1, <3>2 DEF Unused
  <2>10. ASSUME SwapUpstreams(a)  PROVE Unused(i)' /\ Unaware(job'[a], i)
    <3>1. table' = job[a].list /\ job'[a] = Rebuilt(a) /\ UNCHANGED <<rows, bindings, bound>>
      BY <1>2, <2>10 DEF SwapUpstreams, disk
    <3>2. Unaware(job'[a], i)  BY <3>1, NoJobUnaware DEF Rebuilt, Unaware, NoJob
    <3>3. QED  BY <2>1, <3>1, <3>2 DEF Unused, Unaware
  <2>11. ASSUME ReloadBindings(a) \/ ReloadFails(a)
         PROVE  Unused(i)' /\ Unaware(job'[a], i)
    <3>1. /\ UNCHANGED <<rows, bindings, table>> /\ job'[a] = NoJob
          /\ bound' = bindings \/ bound' = bound
      BY <1>2, <2>11 DEF ReloadBindings, ReloadFails, disk, memory
    <3>2. QED  BY <2>1, <3>1, NoJobUnaware DEF Unused
  <2>12. QED
    BY <2>1, <2>3, <2>4, <2>5, <2>6, <2>7, <2>8, <2>9, <2>10, <2>11, <1>3, <1>4 DEF Handle
<1>5. ~(\E n \in Names, on \in BOOLEAN : CreateUpstream(a, n, on)) => next' = next
  BY DEF Handle, Refuse, LoadSettings, ReadForReset, LoadFails, WriteDefault, SaveSettings,
         SaveReset, CheckDelete, CheckUpdate, Current, ReadForDelete, ReadForDefault,
         ReadForUpdate, CheckSettings, CheckBinding, ListUpstreams, ListFails, WriteUpdate,
         DeleteUpstream, WriteBinding, SetSettings, SetReset, SwapUpstreams, ReloadBindings,
         ReloadFails, disk
<1>6. QED  BY <1>3, <1>4, <1>5

LEMMA OthersIdle ==
  ASSUME TypeInv, NEW a \in Admins, Handle(a), NEW b \in Admins, b # a
  PROVE  job'[b] = job[b]
<1>1. \E j : Becomes(a, j)
  BY DEF Handle, Refuse, LoadSettings, ReadForReset, LoadFails, WriteDefault, SaveSettings,
         SaveReset, CheckDelete, CheckUpdate, Current, ReadForDelete, ReadForDefault,
         ReadForUpdate, CheckSettings, CheckBinding, ListUpstreams, ListFails, WriteUpdate,
         DeleteUpstream, WriteBinding, SetSettings, SetReset, SwapUpstreams, ReloadBindings,
         ReloadFails, CreateUpstream, Moves, Rebuild
<1>2. QED  BY <1>1 DEF Becomes, TypeInv, AdminTypeOK

\* The id of an exit that is still to be created means nothing to the tables, the
\* copies and the handlers, for any number of administrators at a time.
THEOREM NoIdReused == AdminSpec => []FreshIds
<1> DEFINE Fresh(i) == Unused(i) /\ \A a \in Admins : Unaware(job[a], i)
           Inv == \A i \in Ids : i >= next => Fresh(i)
<1>1. ASSUME AdminInit  PROVE Inv
  BY <1>1 DEF AdminInit, Unused, Unaware, NoJob, NoTable, Has
<1>2. ASSUME TypeInv, Inv, [AdminNext]_adminVars  PROVE Inv'
  <2>1. CASE UNCHANGED adminVars
    BY <1>2, <2>1 DEF adminVars, Unused, Unaware, Has
  <2>2. CASE Restart
    BY <1>2, <2>2 DEF Restart, disk, Unused, Unaware, NoJob, NoTable, Has
  <2>3. ASSUME NEW a \in Admins, Handle(a), NEW i \in Ids, i >= next'  PROVE Fresh(i)'
    <3>1. i >= next /\ Unused(i)' /\ Unaware(job'[a], i)  BY <1>2, <2>3, FreshHandle
    <3>2. \A b \in Admins : b # a => Unaware(job'[b], i)
      BY <1>2, <2>3, <3>1, OthersIdle
    <3>3. QED  BY <3>1, <3>2
  <2>4. QED  BY <1>2, <2>1, <2>2, <2>3 DEF AdminNext
<1>3. Inv => FreshIds
  BY DEF FreshIds, Unused, Unaware
<1>4. AdminSpec => []TypeInv
  BY TypeInit, AdminTypeStep, PTL DEF AdminSpec
<1>5. QED  BY <1>1, <1>2, <1>3, <1>4, PTL DEF AdminSpec

(***************************************************************************)
(* Requests                                                                *)
(***************************************************************************)

(***************************************************************************)
(* The invariant relates what a request has read and decided to what it    *)
(* would have been allowed: everything it has read was in force while it   *)
(* was under way.                                                          *)
(***************************************************************************)
Between == {"bound", "pick", "default"}
Busy == {"resolve", "bound", "pick", "default", "dial"}

\* The settings that r holds were in force.
Held(r, m) ==
  r.at \in Busy =>
    /\ r.snap.default = None => m.direct
    /\ r.who = Nobody /\ r.snap.policy = "direct" => m.direct
    /\ ~r.snap.block => m.local

\* So were the bindings of its account.
HeldBinding(r, m) ==
  /\ r.at = "pick" => r.who \in Accounts /\ r.exits \subseteq m.exits
  /\ r.at = "default" => r.who \notin Accounts \/ m.unbound

\* A target that goes on under the block has a checked answer.
Checked(r) == r.at \in Between \cup {"dial"} /\ r.snap.block => r.checked = "public"

\* The ways that the promises leave.
Promised(r, m) ==
  r.at \in {"dial", "done"} =>
    /\ r.way = Direct => m.direct \/ (m.local /\ r.target = "private")
    /\ \/ r.way \in m.exits \/ r.who \notin Accounts \/ m.unbound
       \/ r.way = Direct /\ m.local /\ r.target = "private"
    /\ r.at = "done" /\ r.reached = "private" => m.local

Good(r, m) ==
  /\ r.at # "idle" => m.access
  /\ Held(r, m) /\ HeldBinding(r, m) /\ Checked(r) /\ Promised(r, m)

RequestInv == RoutingTypeOK /\ \A q \in Requests : Good(req[q], may[q])

-----------------------------------------------------------------------------
(* Types *)

LEMMA NoSnapshotType == NoSnapshot \in Snapshot
BY DEF NoSnapshot, Snapshot

LEMMA NoRequestType == NoRequest \in Request /\ NoMay \in May
BY ExitAssumption DEF NoRequest, Request, NoMay, May, NoSnapshot, Snapshot, Identities, Ways

LEMMA AllowsType ==
  ASSUME NEW r \in Request, NEW s \in Snapshot, NEW b \in [Accounts -> SUBSET Ids]
  PROVE  Allows(r, s, b) \in May
BY DEF Allows, May, Request, Snapshot

LEMMA OrType ==
  ASSUME NEW m \in May, NEW n \in May
  PROVE  Or(m, n) \in May
BY DEF Or, May

LEMMA EndedType ==
  ASSUME RoutingTypeOK, NEW q \in Requests
  PROVE  Ended(q) \in Request
<1>1. req[q] \in Request  BY DEF RoutingTypeOK
<1>2. CASE req[q].tunnel = "none"  BY <1>2, NoRequestType DEF Ended
<1>3. CASE req[q].tunnel # "none"
  BY <1>1, <1>3, NoRequestType DEF Ended, Request
<1>4. QED  BY <1>2, <1>3

\* One step of a request leaves it a request and changes nothing else.
LEMMA ServeType ==
  ASSUME RoutingTypeOK, NEW q \in Requests, Serve(q)
  PROVE  /\ req' \in [Requests -> Request]
         /\ \A p \in Requests : p # q => req'[p] = req[p]
         /\ UNCHANGED memory
<1>1. req[q] \in Request /\ req \in [Requests -> Request]  BY DEF RoutingTypeOK
<1>2. ASSUME NEW r \in Request, Turns(q, r)
      PROVE  /\ req' \in [Requests -> Request]
             /\ \A p \in Requests : p # q => req'[p] = req[p]
             /\ UNCHANGED memory
  BY <1>1, <1>2 DEF Turns
<1>3. settings \in Snapshot  BY DEF RoutingTypeOK
<1>4. ASSUME NEW way \in Ways, Leaves(q, way)
      PROVE  \E r \in Request : Turns(q, r)
  BY <1>1, <1>4 DEF Leaves, Request
<1>5. Fails(q) => \E r \in Request : Turns(q, r)
  BY EndedType DEF Fails
<1>6. \E r \in Request : Turns(q, r)
  <2>1. ASSUME NEW host \in Targets, Connect(q, host)
        PROVE  \E r \in Request : Turns(q, r)
    BY <2>1, NoRequestType DEF Connect, Request
  <2>2. ASSUME NEW host \in Targets, NEW who \in Identities, Forward(q, host, who)
        PROVE  \E r \in Request : Turns(q, r)
    BY <2>2, <1>1, <1>3 DEF Forward, Request
  <2>3. BlindTunnel(q) => \E r \in Request : Turns(q, r)
    BY <1>1, <1>3 DEF BlindTunnel, Request
  <2>4. Close(q) => \E r \in Request : Turns(q, r)
    BY NoRequestType DEF Close
  <2>5. ResolveBlocked(q) => \E r \in Request : Turns(q, r)
    BY <1>5 DEF ResolveBlocked
  <2>6. ResolveLocal(q) => \E r \in Request : Turns(q, r)
    BY <1>4 DEF ResolveLocal, Ways
  <2>7. ResolvePublic(q) => \E r \in Request : Turns(q, r)
    BY <1>1 DEF ResolvePublic, Request, Ways
  <2>8. ReadBinding(q) => \E r \in Request : Turns(q, r)
    BY <1>1 DEF ReadBinding, Request, RoutingTypeOK
  <2>9. PickBound(q) => \E r \in Request : Turns(q, r)
    BY <1>1, <1>4, <1>5 DEF PickBound, Candidates, Request, Ways
  <2>10. PickDefault(q) => \E r \in Request : Turns(q, r)
    BY <1>4, <1>5 DEF PickDefault, Named, Ways
  <2>11. InjectFails(q) => \E r \in Request : Turns(q, r)
    BY <1>5 DEF InjectFails
  <2>12. Dial(q) => \E r \in Request : Turns(q, r)
    <3>1. Dial(q) => Reachable(q) \subseteq Answers \cup {"none"}
      BY <1>1, RoutingAssumption DEF Dial, Reachable, Lookups, Answers, Request
    <3>2. QED  BY <1>1, <3>1, NoSnapshotType DEF Dial, Request
  <2>13. Reuse(q) => \E r \in Request : Turns(q, r)
    BY <1>1, NoSnapshotType DEF Reuse, Request
  <2>14. DialFails(q) => \E r \in Request : Turns(q, r)
    BY <1>5 DEF DialFails
  <2>15. Finish(q) => \E r \in Request : Turns(q, r)
    BY EndedType DEF Finish
  <2>16. QED
    BY <2>1, <2>2, <2>3, <2>4, <2>5, <2>6, <2>7, <2>8, <2>9, <2>10, <2>11, <2>12, <2>13,
       <2>14, <2>15 DEF Serve
<1>7. QED  BY <1>2, <1>6

LEMMA MayType ==
  ASSUME RoutingTypeOK, Remember, settings' \in Snapshot, bound' \in [Accounts -> SUBSET Ids],
         req' \in [Requests -> Request]
  PROVE  may' \in [Requests -> May]
<1>1. SUFFICES ASSUME NEW q \in Requests  PROVE Recalled(q) \in May
  BY DEF Remember
<1>2. may[q] \in May /\ req'[q] \in Request  BY DEF RoutingTypeOK
<1>3. [NoMay EXCEPT !.access = may[q].access] \in May
  BY <1>2, NoRequestType DEF May
<1>4. [NoMay EXCEPT !.access = may[q].access \/ settings'.allow] \in May
  BY <1>2, NoRequestType DEF May, Snapshot
<1>5. Allows(req'[q], settings', bound') \in May  BY <1>2, AllowsType
<1>6. Or(may[q], Allows(req'[q], settings', bound')) \in May  BY <1>2, <1>5, OrType
<1>7. Or([NoMay EXCEPT !.access = may[q].access], Allows(req'[q], settings', bound')) \in May
  BY <1>3, <1>5, OrType
<1>8. QED  BY <1>2, <1>4, <1>6, <1>7, NoRequestType DEF Recalled

LEMMA RoutingTypeStep == RoutingTypeOK /\ [RoutingNext]_routingVars => RoutingTypeOK'
<1>1. SUFFICES ASSUME RoutingTypeOK, RoutingNext  PROVE RoutingTypeOK'
  BY DEF RoutingTypeOK, routingVars
<1>2. /\ settings' \in Snapshot /\ table' \in Table /\ bound' \in [Accounts -> SUBSET Ids]
      /\ req' \in [Requests -> Request]
  <2>1. CASE \E q \in Requests : Serve(q)
    BY <2>1, <1>1, ServeType DEF RoutingTypeOK, memory
  <2>2. CASE SettingsChange
    <3>1. ASSUME NEW n \in Names \cup {None}, NEW o \in Offered
          PROVE  Chosen(n, o) \in Snapshot
      BY ExitAssumption DEF Chosen, Snapshot
    <3>2. QED  BY <2>2, <3>1, <1>1 DEF SettingsChange, RoutingTypeOK
  <2>3. CASE UpstreamsChange
    BY <2>3, <1>1 DEF UpstreamsChange, Tables, RoutingTypeOK
  <2>4. CASE BindingsChange
    BY <2>4, <1>1 DEF BindingsChange, RoutingTypeOK
  <2>5. QED  BY <1>1, <2>1, <2>2, <2>3, <2>4 DEF RoutingNext
<1>3. Remember  BY <1>1 DEF RoutingNext
<1>4. may' \in [Requests -> May]  BY <1>1, <1>2, <1>3, MayType
<1>5. QED  BY <1>2, <1>4 DEF RoutingTypeOK

\* The parts of the state have their types.
THEOREM RoutingTypeCorrect == RoutingSpec => []RoutingTypeOK
<1>1. RoutingInit => RoutingTypeOK
  BY NoRequestType, NoSnapshotType DEF RoutingInit, RoutingTypeOK, NoTable, Table
<1>2. QED  BY <1>1, RoutingTypeStep, PTL DEF RoutingSpec

-----------------------------------------------------------------------------
(* What a request may do only grows while it is under way. *)

LEMMA Monotone ==
  ASSUME NEW r, NEW m \in May, NEW n \in May, Good(r, m)
  PROVE  Good(r, Or(m, n))
BY DEF Good, Held, HeldBinding, Checked, Promised, Or, May

\* A request that nobody works on stays good, whatever changes around it.
LEMMA Untouched ==
  ASSUME RequestInv, RoutingTypeOK', NEW q \in Requests, req'[q] = req[q]
  PROVE  Good(req[q], Recalled(q))
<1>1. may[q] \in May /\ Good(req[q], may[q]) /\ req[q] \in Request  BY DEF RequestInv, RoutingTypeOK
<1>2. CASE req[q].at = "idle"
  BY <1>2 DEF Good, Held, HeldBinding, Checked, Promised, Busy, Between
<1>3. CASE req[q].at \in {"tunnel", "mitm"}
  BY <1>1, <1>3 DEF Good, Held, HeldBinding, Checked, Promised, Busy, Between, Recalled,
                    NoMay
<1>4. CASE req[q].at = "done"
  BY <1>1, <1>4 DEF Recalled, In
<1>5. CASE req[q].at \in Busy
  <2>1. Allows(req'[q], settings', bound') \in May
    BY AllowsType DEF RoutingTypeOK
  <2>2. Recalled(q) = Or(may[q], Allows(req'[q], settings', bound'))
    BY <1>5 DEF Recalled, Under, In, Busy
  <2>3. QED  BY <1>1, <2>1, <2>2, Monotone
<1>6. QED  BY <1>1, <1>2, <1>3, <1>4, <1>5 DEF Request, Busy

\* A request that ends, or gives up, is good: no promise is about it.
LEMMA EndedGood ==
  ASSUME RequestInv, NEW q \in Requests, req[q].at # "idle", req'[q] = Ended(q)
  PROVE  Good(req'[q], Recalled(q))
<1>1. may[q] \in May /\ may[q].access  BY DEF RequestInv, RoutingTypeOK, Good
<1>2. CASE req[q].tunnel = "none"
  BY <1>2 DEF Ended, NoRequest, Good, Held, HeldBinding, Checked, Promised, Busy, Between
<1>3. CASE req[q].tunnel # "none"
  <2>1. req'[q].at = "mitm"  BY <1>3 DEF Ended, NoRequest
  <2>2. Recalled(q).access  BY <1>1, <2>1 DEF Recalled, NoMay
  <2>3. QED
    BY <2>1, <2>2 DEF Good, Held, HeldBinding, Checked, Promised, Busy, Between
<1>4. QED  BY <1>2, <1>3

\* What a request reads while it is busy is allowed by what is in force.
LEMMA Taken ==
  ASSUME RequestInv, NEW q \in Requests, UNCHANGED memory, RoutingTypeOK',
         req[q].at \in Busy, req'[q].at \in Busy \cup {"done"}
  PROVE  LET n == Allows(req'[q], settings, bound)
         IN  n \in May /\ Recalled(q) = Or(may[q], n)
<1>1. /\ req'[q] \in Request /\ settings \in Snapshot /\ bound \in [Accounts -> SUBSET Ids]
      /\ settings' = settings /\ bound' = bound
  BY DEF RequestInv, RoutingTypeOK, memory
<1>2. Allows(req'[q], settings, bound) \in May  BY <1>1, AllowsType
<1>3. Recalled(q) = Or(may[q], Allows(req'[q], settings', bound'))
  BY DEF Recalled, Under, In, Busy
<1>4. QED  BY <1>1, <1>2, <1>3

\* A request that takes the settings is good: they are in force.
LEMMA Taking ==
  ASSUME RequestInv, NEW q \in Requests, UNCHANGED memory, RoutingTypeOK', req[q].at \notin Busy,
         req'[q].at = "resolve", req'[q].snap = settings,
         may[q].access \/ settings.allow
  PROVE  Good(req'[q], Recalled(q))
<1>1. may[q] \in May /\ req'[q] \in Request  BY DEF RequestInv, RoutingTypeOK
<1> DEFINE n == Allows(req'[q], settings, bound)
<1>2. Recalled(q) = Or([NoMay EXCEPT !.access = may[q].access], n)
  <2>1. settings' = settings /\ bound' = bound  BY DEF memory
  <2>2. Recalled(q) = Or([NoMay EXCEPT !.access = may[q].access],
                         Allows(req'[q], settings', bound'))
    BY DEF Recalled, Under, In, Busy
  <2>3. QED  BY <2>1, <2>2
<1>3. /\ Recalled(q).access
      /\ settings.default = None => Recalled(q).direct
      /\ req'[q].who = Nobody /\ settings.policy = "direct" => Recalled(q).direct
      /\ ~settings.block => Recalled(q).local
  <2> DEFINE old == [NoMay EXCEPT !.access = may[q].access]
  <2>1. old.access = may[q].access  BY DEF NoMay
  <2>2. /\ n.access = settings.allow
        /\ n.direct =
             (settings.default = None \/ (req'[q].who = Nobody /\ settings.policy = "direct"))
        /\ n.local = ~settings.block
    BY DEF Allows
  <2>3. /\ Recalled(q).access = (old.access \/ n.access)
        /\ Recalled(q).direct = (old.direct \/ n.direct)
        /\ Recalled(q).local = (old.local \/ n.local)
    BY <1>2 DEF Or
  <2>4. QED  BY <2>1, <2>2, <2>3
<1>4. QED
  BY <1>3 DEF Good, Held, HeldBinding, Checked, Promised, Busy, Between

\* Leaving through a way that the request may take.
LEMMA Leaving ==
  ASSUME RequestInv, NEW q \in Requests, UNCHANGED memory, RoutingTypeOK',
         req[q].at \in Busy, NEW way \in Ways, Leaves(q, way),
         req[q].snap.block => req[q].checked = "public",
         way = Direct => may[q].direct \/ (may[q].local /\ req[q].target = "private"),
         \/ way \in may[q].exits \/ req[q].who \notin Accounts \/ may[q].unbound
         \/ way = Direct /\ may[q].local /\ req[q].target = "private"
  PROVE  Good(req'[q], Recalled(q))
<1>1. /\ req[q] \in Request /\ may[q] \in May /\ Good(req[q], may[q])
      /\ req \in [Requests -> Request]
  BY DEF RequestInv, RoutingTypeOK
<1>2. req'[q] = [req[q] EXCEPT !.at = "dial", !.exits = {}, !.way = way]
  BY <1>1 DEF Leaves, Turns
<1>3. Good(req'[q], may[q])
  BY <1>1, <1>2 DEF Good, Held, HeldBinding, Checked, Promised, Busy, Between, Request
<1>4. req'[q].at = "dial"  BY <1>1, <1>2 DEF Request
<1> DEFINE n == Allows(req'[q], settings, bound)
<1>5. n \in May /\ Recalled(q) = Or(may[q], n)  BY <1>4, Taken DEF Busy
<1>6. QED  BY <1>1, <1>3, <1>5, Monotone

-----------------------------------------------------------------------------
(* Every step of a request leaves it good. *)

LEMMA Served ==
  ASSUME RequestInv, RoutingTypeOK', NEW q \in Requests, Serve(q)
  PROVE  Good(req'[q], Recalled(q))
<1>1. /\ req[q] \in Request /\ may[q] \in May /\ Good(req[q], may[q])
      /\ req \in [Requests -> Request] /\ RoutingTypeOK
  BY DEF RequestInv, RoutingTypeOK
<1>2. UNCHANGED memory  BY <1>1, ServeType
<1>3. ASSUME NEW r, Turns(q, r)  PROVE req'[q] = r
  BY <1>1, <1>3 DEF Turns
<1>4. ASSUME Fails(q), req[q].at # "idle"  PROVE Good(req'[q], Recalled(q))
  BY <1>3, <1>4, EndedGood DEF Fails
<1>5. ASSUME NEW host \in Targets, Connect(q, host)
      PROVE  Good(req'[q], Recalled(q))
  <2>1. req'[q].at = "tunnel" /\ settings'.allow
    <3>1. settings' = settings  BY <1>2 DEF memory
    <3>2. settings.allow  BY <1>5 DEF Connect
    <3>3. req'[q] = [NoRequest EXCEPT !.at = "tunnel", !.tunnel = host,
                       !.pin = IF settings.block THEN "public" ELSE "none"]
      BY <1>3, <1>5 DEF Connect
    <3>4. req'[q].at = "tunnel"  BY <3>3 DEF NoRequest
    <3>5. QED  BY <3>1, <3>2, <3>4
  <2>2. Recalled(q).access  BY <1>1, <2>1 DEF Recalled, NoMay
  <2>3. QED
    BY <2>1, <2>2 DEF Good, Held, HeldBinding, Checked, Promised, Busy, Between
<1>6. ASSUME NEW host \in Targets, NEW who \in Identities, Forward(q, host, who)
      PROVE  Good(req'[q], Recalled(q))
  <2>1. req[q].at \notin Busy /\ settings.allow
    BY <1>6 DEF Forward, InTunnel, In, Busy
  <2>2. req'[q].at = "resolve" /\ req'[q].snap = settings
    BY <1>1, <1>3, <1>6 DEF Forward, Request
  <2>3. QED  BY <1>2, <2>1, <2>2, Taking
<1>7. ASSUME BlindTunnel(q)  PROVE Good(req'[q], Recalled(q))
  <2>1. req[q].at \notin Busy /\ may[q].access
    BY <1>1, <1>7 DEF BlindTunnel, In, Busy, Good
  <2>2. req'[q].at = "resolve" /\ req'[q].snap = settings
    BY <1>1, <1>3, <1>7 DEF BlindTunnel, Request
  <2>3. QED  BY <1>2, <2>1, <2>2, Taking
<1>8. ASSUME Close(q)  PROVE Good(req'[q], Recalled(q))
  <2>1. req'[q].at = "idle"  BY <1>3, <1>8 DEF Close, NoRequest
  <2>2. QED  BY <2>1 DEF Good, Held, HeldBinding, Checked, Promised, Busy, Between
<1>9. ResolveBlocked(q) => Good(req'[q], Recalled(q))
  BY <1>4 DEF ResolveBlocked, In
<1>10. ASSUME ResolveLocal(q)  PROVE Good(req'[q], Recalled(q))
  <2>1. req[q].at \in Busy /\ ~req[q].snap.block /\ req[q].target = "private"
    BY <1>10 DEF ResolveLocal, In, Busy
  <2>2. may[q].local  BY <1>1, <2>1 DEF Good, Held
  <2>3. QED  BY <1>2, <1>10, <2>1, <2>2, Leaving DEF ResolveLocal, Ways
<1>11. ASSUME ResolvePublic(q)  PROVE Good(req'[q], Recalled(q))
  <2> DEFINE r == [req[q] EXCEPT !.checked = IF req[q].snap.block THEN "public" ELSE "none"]
  <2>1. req[q].at \in Busy  BY <1>11 DEF ResolvePublic, In, Busy
  <2>2. req'[q] = IF NoIdentityDirect(q)
                    THEN [r EXCEPT !.at = "dial", !.way = Direct] ELSE [r EXCEPT !.at = "bound"]
    BY <1>3, <1>11 DEF ResolvePublic
  <2>3. NoIdentityDirect(q) => may[q].direct /\ req[q].who \notin Accounts
    BY <1>1, <2>1, RoutingAssumption DEF NoIdentityDirect, Good, Held
  <2>4. req'[q].at \in Busy  BY <1>1, <2>2 DEF Busy, Request
  <2>5. Good(req'[q], may[q])
    <3>1. CASE NoIdentityDirect(q)
      BY <1>1, <2>1, <2>2, <2>3, <3>1
      DEF Good, Held, HeldBinding, Checked, Promised, Busy, Between, Request
    <3>2. CASE ~NoIdentityDirect(q)
      BY <1>1, <2>1, <2>2, <3>2
      DEF Good, Held, HeldBinding, Checked, Promised, Busy, Between, Request
    <3>3. QED  BY <3>1, <3>2
  <2>6. QED  BY <1>1, <1>2, <2>1, <2>4, <2>5, Taken, Monotone
<1>12. ASSUME ReadBinding(q)  PROVE Good(req'[q], Recalled(q))
  <2> DEFINE exits == IF req[q].who \in Accounts THEN bound[req[q].who] ELSE {}
             n == Allows(req'[q], settings, bound)
  <2>1. req[q].at = "bound"  BY <1>12 DEF ReadBinding, In
  <2>2. req'[q] = [req[q] EXCEPT !.exits = exits,
                                 !.at = IF exits = {} THEN "default" ELSE "pick"]
    BY <1>3, <1>12 DEF ReadBinding
  <2>3. req'[q].at \in {"default", "pick"} /\ req'[q].who = req[q].who
    BY <1>1, <2>2 DEF Request
  <2>4. n \in May /\ Recalled(q) = Or(may[q], n)
    BY <1>2, <2>1, <2>3, Taken DEF Busy
  <2>5. /\ exits = {} => req[q].who \notin Accounts \/ n.unbound
        /\ exits # {} => req[q].who \in Accounts /\ n.exits = exits
    BY <2>3 DEF Allows
  <2>6. /\ exits = {} => req[q].who \notin Accounts \/ Recalled(q).unbound
        /\ exits # {} => req[q].who \in Accounts /\ exits \subseteq Recalled(q).exits
        /\ Recalled(q).access /\ Held(req[q], Recalled(q))
    BY <1>1, <2>1, <2>4, <2>5 DEF Or, Good, Held, May
  <2>7. QED
    BY <1>1, <2>1, <2>2, <2>6
    DEF Good, Held, HeldBinding, Checked, Promised, Busy, Between, Request
<1>13. ASSUME PickBound(q)  PROVE Good(req'[q], Recalled(q))
  <2>1. req[q].at = "pick"  BY <1>13 DEF PickBound, In
  <2>2. ASSUME NEW i \in Candidates(q), Leaves(q, i)
        PROVE  Good(req'[q], Recalled(q))
    <3>1. i \in may[q].exits /\ i \in Ids
      BY <1>1, <2>1, <2>2 DEF Candidates, Good, HeldBinding, May
    <3>2. i \in Ways /\ i # Direct  BY <3>1, RoutingAssumption DEF Ways
    <3>3. req[q].snap.block => req[q].checked = "public"
      BY <1>1, <2>1 DEF Good, Checked, Between
    <3>4. QED  BY <1>2, <2>1, <2>2, <3>1, <3>2, <3>3, Leaving DEF Busy
  <2>3. QED  BY <1>4, <1>13, <2>1, <2>2 DEF PickBound
<1>14. ASSUME PickDefault(q)  PROVE Good(req'[q], Recalled(q))
  <2>1. req[q].at = "default"  BY <1>14 DEF PickDefault, In
  <2>2. ASSUME NEW way \in Ways, Leaves(q, way), way = Direct => req[q].snap.default = None
        PROVE  Good(req'[q], Recalled(q))
    <3>1. /\ req[q].snap.block => req[q].checked = "public"
          /\ req[q].who \notin Accounts \/ may[q].unbound
          /\ way = Direct => may[q].direct
      BY <1>1, <2>1, <2>2 DEF Good, Checked, Held, HeldBinding, Between, Busy
    <3>2. QED  BY <1>2, <2>1, <2>2, <3>1, Leaving DEF Busy
  <2>3. ASSUME NEW i \in Named(table, req[q].snap.default), Leaves(q, i)
        PROVE  Good(req'[q], Recalled(q))
    BY <2>2, <2>3, RoutingAssumption DEF Named, Ways
  <2>4. ASSUME Leaves(q, Direct), req[q].snap.default = None
        PROVE  Good(req'[q], Recalled(q))
    BY <2>2, <2>4 DEF Ways
  <2>5. QED  BY <1>4, <1>14, <2>1, <2>3, <2>4 DEF PickDefault
<1>15. InjectFails(q) => Good(req'[q], Recalled(q))
  BY <1>4 DEF InjectFails, In
<1>16. ASSUME NEW address, req[q].at = "dial",
              req'[q] = [req[q] EXCEPT !.at = "done", !.snap = NoSnapshot, !.checked = "none",
                                       !.reached = address],
              address = "private" => may[q].local
       PROVE  Good(req'[q], Recalled(q))
  <2>1. req'[q].at = "done"  BY <1>1, <1>16 DEF Request
  <2>2. Good(req'[q], may[q])
    BY <1>1, <1>16 DEF Good, Held, HeldBinding, Checked, Promised, Busy, Between, Request
  <2> DEFINE n == Allows(req'[q], settings, bound)
  <2>3. n \in May /\ Recalled(q) = Or(may[q], n)
    BY <1>2, <1>16, <2>1, Taken DEF Busy
  <2>4. QED  BY <1>1, <2>2, <2>3, Monotone
<1>17. ASSUME Dial(q)  PROVE Good(req'[q], Recalled(q))
  <2>1. PICK address \in Reachable(q) :
          req'[q] = [req[q] EXCEPT !.at = "done", !.snap = NoSnapshot, !.checked = "none",
                       !.reached = IF req[q].way = Direct THEN address ELSE "none"]
    BY <1>3, <1>17 DEF Dial
  <2>2. req[q].at = "dial"  BY <1>17 DEF Dial, In
  <2>3. address = "private" => may[q].local
    BY <1>1, <2>1, <2>2 DEF Reachable, Good, Checked, Held, Between, Busy, Request, Snapshot
  <2>4. QED  BY <1>16, <2>1, <2>2, <2>3
<1>18. ASSUME Reuse(q)  PROVE Good(req'[q], Recalled(q))
  BY <1>3, <1>16, <1>18 DEF Reuse, In
<1>19. DialFails(q) => Good(req'[q], Recalled(q))
  BY <1>4 DEF DialFails, In
<1>20. ASSUME Finish(q)  PROVE Good(req'[q], Recalled(q))
  BY <1>3, <1>20, EndedGood DEF Finish, In
<1>21. QED
  BY <1>5, <1>6, <1>7, <1>8, <1>9, <1>10, <1>11, <1>12, <1>13, <1>14, <1>15, <1>17, <1>18,
     <1>19, <1>20 DEF Serve

LEMMA RequestInit == RoutingInit => RequestInv
<1>1. ASSUME RoutingInit  PROVE RoutingTypeOK
  BY <1>1, NoRequestType, NoSnapshotType DEF RoutingInit, RoutingTypeOK, NoTable, Table
<1>2. ASSUME RoutingInit, NEW q \in Requests  PROVE Good(req[q], may[q])
  BY <1>2 DEF RoutingInit, NoRequest, Good, Held, HeldBinding, Checked, Promised, Busy, Between
<1>3. QED  BY <1>1, <1>2 DEF RequestInv

\* Requests stay good whoever takes a step, a request or somebody who changes the copies.
LEMMA RequestStep ==
  ASSUME RequestInv, RoutingTypeOK', Remember, (\E p \in Requests : Serve(p)) \/ UNCHANGED req
  PROVE  RequestInv'
<1>1. SUFFICES ASSUME NEW q \in Requests  PROVE Good(req'[q], Recalled(q))
  BY DEF RequestInv, Remember
<1>2. CASE Serve(q)  BY <1>2, Served
<1>3. CASE ~Serve(q)
  <2>1. ASSUME NEW p \in Requests, Serve(p)  PROVE req'[q] = req[q]
    BY <1>3, <2>1, ServeType DEF RequestInv
  <2>2. req'[q] = req[q]  BY <2>1
  <2>3. QED  BY <2>2, Untouched
<1>4. QED  BY <1>2, <1>3

\* Everything that a request holds was in force since it took its settings.
THEOREM RequestInvariant == RoutingSpec => []RequestInv
<1>1. RequestInv /\ [RoutingNext]_routingVars => RequestInv'
  <2>1. CASE UNCHANGED routingVars
    BY <2>1 DEF RequestInv, RoutingTypeOK, routingVars
  <2>2. CASE RequestInv /\ RoutingNext
    <3>1. RoutingTypeOK' /\ Remember  BY <2>2, RoutingTypeStep DEF RequestInv, RoutingNext
    <3>2. (\E p \in Requests : Serve(p)) \/ UNCHANGED req
      BY <2>2 DEF RoutingNext, SettingsChange, UpstreamsChange, BindingsChange
    <3>3. QED  BY <2>2, <3>1, <3>2, RequestStep
  <2>3. QED  BY <2>1, <2>2
<1>2. QED  BY RequestInit, <1>1, PTL DEF RoutingSpec

LEMMA Promises == RequestInv => FailClosed /\ BoundStays /\ PublicOnly /\ AccessAllowed
BY DEF RequestInv, Good, Promised, FailClosed, BoundStays, PublicOnly, AccessAllowed, Out, In

\* No failure turns into a direct connection.
THEOREM NeverFallsBack == RoutingSpec => []FailClosed
BY Promises, RequestInvariant, PTL

\* A bound account leaves through an exit it is bound to, or not at all.
THEOREM BoundAccountsStay == RoutingSpec => []BoundStays
BY Promises, RequestInvariant, PTL

\* Blocked private addresses are not connected to, whatever name servers answer.
THEOREM PrivateStaysClosed == RoutingSpec => []PublicOnly
BY Promises, RequestInvariant, PTL

\* The access list has let through whatever leaves.
THEOREM AccessChecked == RoutingSpec => []AccessAllowed
BY Promises, RequestInvariant, PTL

(***************************************************************************)
(* The gateway: administrators are the only ones who change what requests  *)
(* read, and a restart restores it.                                        *)
(***************************************************************************)

GatewayInv == AdminInv /\ RequestInv

\* To an administrator a request is a step that does nothing.
LEMMA AdminSide == RoutingTypeOK /\ [Next]_vars => [AdminNext]_adminVars
<1> SUFFICES ASSUME RoutingTypeOK, [Next]_vars  PROVE [AdminNext]_adminVars
  OBVIOUS
<1>1. UNCHANGED vars => UNCHANGED adminVars
  BY DEF vars, administration, memory, adminVars
<1>2. ServeRequest => UNCHANGED adminVars
  BY ServeType DEF ServeRequest, administration, memory, adminVars
<1>3. Administer \/ Reboot => AdminNext
  BY DEF Administer, Reboot, AdminNext
<1>4. QED  BY <1>1, <1>2, <1>3 DEF Next

\* To requests an administrator is somebody who changes the copies, and after a restart
\* there are none.
LEMMA RequestSide == RequestInv /\ TypeInv' /\ [Next]_vars => RequestInv'
<1> SUFFICES ASSUME RequestInv, TypeInv', [Next]_vars  PROVE RequestInv'
  OBVIOUS
<1>1. settings' \in Snapshot /\ table' \in Table /\ bound' \in [Accounts -> SUBSET Ids]
  BY DEF TypeInv, AdminTypeOK
<1>2. RoutingTypeOK  BY DEF RequestInv
<1>3. CASE UNCHANGED vars
  BY <1>3 DEF RequestInv, RoutingTypeOK, vars, memory
<1>4. CASE ServeRequest \/ Administer
  <2>1. Remember /\ ((\E p \in Requests : Serve(p)) \/ UNCHANGED req)
    BY <1>4 DEF ServeRequest, Administer
  <2>2. req' \in [Requests -> Request]
    BY <1>2, <2>1, ServeType DEF RoutingTypeOK
  <2>3. RoutingTypeOK'
    <3>1. may' \in [Requests -> May]  BY <1>1, <1>2, <2>1, <2>2, MayType
    <3>2. QED  BY <1>1, <2>2, <3>1 DEF RoutingTypeOK
  <2>4. QED  BY <2>1, <2>3, RequestStep
<1>5. CASE Reboot
  <2>1. \A q \in Requests : req'[q] = NoRequest /\ may'[q] = NoMay
    BY <1>5 DEF Reboot
  <2>2. RoutingTypeOK'  BY <1>1, <1>5, NoRequestType DEF Reboot, RoutingTypeOK
  <2>3. Good(NoRequest, NoMay)
    BY DEF NoRequest, Good, Held, HeldBinding, Checked, Promised, Busy, Between
  <2>4. QED  BY <2>1, <2>2, <2>3 DEF RequestInv
<1>6. QED  BY <1>3, <1>4, <1>5 DEF Next

\* What both sides keep true, they keep true together.
THEOREM GatewayInvariant == Spec => []GatewayInv
<1>1. Init => GatewayInv
  BY InvInit, RequestInit DEF Init, GatewayInv
<1>2. GatewayInv /\ [Next]_vars => GatewayInv'
  <2>1. GatewayInv /\ [Next]_vars => AdminInv'
    BY AdminSide, InvStep DEF GatewayInv, RequestInv
  <2>2. AdminInv' => TypeInv'  BY DEF AdminInv
  <2>3. QED  BY <2>1, <2>2, RequestSide DEF GatewayInv
<1>3. QED  BY <1>1, <1>2, PTL DEF Spec

\* The gateway implements the administration of exits: requests never disturb it.
THEOREM Administers == Spec => AdminSpec
<1>1. Init => AdminInit  BY DEF Init
<1>2. GatewayInv /\ [Next]_vars => [AdminNext]_adminVars
  BY AdminSide DEF GatewayInv, RequestInv
<1>3. QED  BY <1>1, <1>2, GatewayInvariant, PTL DEF Spec, AdminSpec

\* So the promises to administrators hold while requests are served,
THEOREM AdminPromises == Spec => [](DefaultUsable /\ CopiesAgree /\ FreshIds)
BY Administers, DefaultStaysUsable, CopiesEndUpEqual, NoIdReused, PTL

\* and the promises to requests hold while any number of administrators rename, disable
\* and delete their exits, save settings, reset the salt, replace their bindings and fail
\* in between, and through restarts.
THEOREM RequestPromises == Spec => [](FailClosed /\ BoundStays /\ PublicOnly /\ AccessAllowed)
<1>1. GatewayInv => FailClosed /\ BoundStays /\ PublicOnly /\ AccessAllowed
  BY Promises DEF GatewayInv
<1>2. QED  BY <1>1, GatewayInvariant, PTL

\* What a request knows of exits comes from the copies: its binding, and the exits that
\* the upstream table has.
LEMMA Choosing ==
  ASSUME RoutingTypeOK, NEW q \in Requests, Serve(q)
  PROVE  /\ \/ req'[q].exits \subseteq req[q].exits
            \/ \E x \in Accounts : req'[q].exits = bound[x]
         /\ req'[q].way \in {req[q].way, Direct, Nowhere} \/ Has(table, req'[q].way)
<1>1. req[q] \in Request /\ req \in [Requests -> Request]  BY DEF RoutingTypeOK
<1>2. ASSUME NEW r, Turns(q, r)  PROVE req'[q] = r
  BY <1>1, <1>2 DEF Turns
<1>3. ASSUME NEW way, Leaves(q, way), way = Direct \/ Has(table, way)
      PROVE  /\ req'[q].exits \subseteq req[q].exits
             /\ req'[q].way \in {req[q].way, Direct, Nowhere} \/ Has(table, req'[q].way)
  <2>1. req'[q] = [req[q] EXCEPT !.at = "dial", !.exits = {}, !.way = way]
    BY <1>2, <1>3 DEF Leaves
  <2>2. req'[q].exits = {} /\ req'[q].way = way  BY <1>1, <2>1 DEF Request
  <2>3. QED  BY <1>3, <2>2
<1>4. Ended(q).exits = {} /\ Ended(q).way = Nowhere  BY DEF Ended, NoRequest
<1>5. ASSUME Fails(q)  PROVE req'[q].exits = {} /\ req'[q].way = Nowhere
  BY <1>2, <1>4, <1>5 DEF Fails
<1>6. ASSUME \/ \E host \in Targets : Connect(q, host)
             \/ Close(q) \/ Finish(q)
      PROVE  req'[q].exits = {} /\ req'[q].way = Nowhere
  <2>1. ASSUME NEW host \in Targets, Connect(q, host)
        PROVE  req'[q].exits = {} /\ req'[q].way = Nowhere
    BY <1>2, <2>1 DEF Connect, NoRequest
  <2>2. Close(q) \/ Finish(q) => req'[q].exits = {} /\ req'[q].way = Nowhere
    BY <1>2, <1>4 DEF Close, Finish, NoRequest
  <2>3. QED  BY <1>6, <2>1, <2>2
<1>7. ASSUME \/ \E host \in Targets, who \in Identities : Forward(q, host, who)
             \/ BlindTunnel(q) \/ Dial(q) \/ Reuse(q)
      PROVE  req'[q].exits = req[q].exits /\ req'[q].way = req[q].way
  <2>1. ASSUME NEW host \in Targets, NEW who \in Identities, Forward(q, host, who)
        PROVE  req'[q].exits = req[q].exits /\ req'[q].way = req[q].way
    BY <1>1, <1>2, <2>1 DEF Forward, Request
  <2>2. BlindTunnel(q) => req'[q].exits = req[q].exits /\ req'[q].way = req[q].way
    BY <1>1, <1>2 DEF BlindTunnel, Request
  <2>3. Dial(q) => req'[q].exits = req[q].exits /\ req'[q].way = req[q].way
    BY <1>1, <1>2 DEF Dial, Request
  <2>4. Reuse(q) => req'[q].exits = req[q].exits /\ req'[q].way = req[q].way
    BY <1>1, <1>2 DEF Reuse, Request
  <2>5. QED  BY <1>7, <2>1, <2>2, <2>3, <2>4
<1>8. ASSUME ResolvePublic(q)
      PROVE  req'[q].exits = req[q].exits /\ req'[q].way \in {req[q].way, Direct}
  BY <1>1, <1>2, <1>8 DEF ResolvePublic, Request
<1>9. ASSUME ReadBinding(q)
      PROVE  /\ req'[q].exits = {} \/ \E x \in Accounts : req'[q].exits = bound[x]
             /\ req'[q].way = req[q].way
  <2> DEFINE exits == IF req[q].who \in Accounts THEN bound[req[q].who] ELSE {}
  <2>1. req'[q] = [req[q] EXCEPT !.exits = exits,
                                 !.at = IF exits = {} THEN "default" ELSE "pick"]
    BY <1>2, <1>9 DEF ReadBinding
  <2>2. req'[q].exits = exits /\ req'[q].way = req[q].way  BY <1>1, <2>1 DEF Request
  <2>3. QED  BY <2>2
<1>10. CASE ResolveLocal(q) \/ PickBound(q) \/ PickDefault(q)
  BY <1>3, <1>5, <1>10 DEF ResolveLocal, PickBound, Candidates, PickDefault, Named
<1>11. CASE ResolveBlocked(q) \/ InjectFails(q) \/ DialFails(q)
  BY <1>5, <1>11 DEF ResolveBlocked, InjectFails, DialFails
<1>12. QED  BY <1>5, <1>6, <1>7, <1>8, <1>9, <1>10, <1>11 DEF Serve

\* A request never leaves through an exit that was created after the one it had read.
THEOREM RequestsKnowNoNewExit == Spec => []NewToRequests
<1> DEFINE Inv == FreshIds /\ TypeInv /\ RoutingTypeOK
<1>1. Init => NewToRequests
  <2>1. Init => \A q \in Requests : req[q] = NoRequest  BY DEF Init, RoutingInit
  <2>2. QED  BY <2>1, RoutingAssumption DEF NewToRequests, NoRequest
<1>2. ASSUME Inv, NewToRequests, [Next]_vars, NEW i \in Ids, NEW q \in Requests, i >= next'
      PROVE  i \notin req'[q].exits /\ req'[q].way # i
  <2>1. i # Direct /\ i # Nowhere  BY RoutingAssumption
  <2>2. CASE UNCHANGED vars
    BY <1>2, <2>2 DEF NewToRequests, vars, administration
  <2>3. CASE ServeRequest
    <3>1. next' = next  BY <2>3 DEF ServeRequest, administration
    <3>2. /\ i \notin req[q].exits /\ req[q].way # i /\ ~Has(table, i)
          /\ \A x \in Accounts : i \notin bound[x]
      BY <1>2, <3>1 DEF NewToRequests, FreshIds
    <3>3. CASE Serve(q)  BY <1>2, <2>1, <3>2, <3>3, Choosing
    <3>4. CASE ~Serve(q)
      <4>1. req'[q] = req[q]  BY <1>2, <2>3, <3>4, ServeType DEF ServeRequest
      <4>2. QED  BY <3>2, <4>1
    <3>5. QED  BY <3>3, <3>4
  <2>4. CASE Administer
    <3>1. PICK a \in Admins : Handle(a)  BY <2>4 DEF Administer
    <3>2. i >= next => Unused(i) /\ Unaware(job[a], i)
      BY <1>2 DEF FreshIds, Unused, Unaware
    <3>3. i >= next  BY <1>2, <3>1, <3>2, FreshHandle
    <3>4. QED  BY <1>2, <2>4, <3>3 DEF NewToRequests, Administer
  <2>5. CASE Reboot
    BY <2>1, <2>5 DEF Reboot, NoRequest
  <2>6. QED  BY <1>2, <2>2, <2>3, <2>4, <2>5 DEF Next
<1>3. Spec => []Inv
  <2>1. GatewayInv => TypeInv /\ RoutingTypeOK  BY DEF GatewayInv, AdminInv, RequestInv
  <2>2. QED  BY <2>1, GatewayInvariant, AdminPromises, PTL
<1>4. Inv /\ NewToRequests /\ [Next]_vars => NewToRequests'
  BY <1>2 DEF NewToRequests
<1>5. QED  BY <1>1, <1>3, <1>4, PTL DEF Spec

\* Between two changes, a request that is left to the default in force finds it.
THEOREM DefaultIsFound == Spec => []DefaultFound
<1>1. ASSUME AdminInv, OneAdmin, Quiet, behind = {}, settings.default # None
      PROVE  Usable(table, settings.default)
  <2>1. PICK a \in Admins : job[a] = NoJob  BY <1>1, AdminAssumption DEF Quiet
  <2>2. Steady(job[a]) /\ job[a].at = "idle"  BY <1>1, <2>1 DEF AdminInv, NoJob
  <2>3. settings = stored /\ table = rows /\ DefaultExists
    BY <1>1, <2>2 DEF Steady, SettingsAgree, TableAgrees
  <2>4. QED  BY <1>1, <2>3 DEF DefaultExists
<1>2. GatewayInv => DefaultFound
  BY <1>1 DEF GatewayInv, DefaultFound
<1>3. QED  BY <1>2, GatewayInvariant, PTL
=============================================================================
