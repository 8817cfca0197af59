------------------------------ MODULE Gateway ------------------------------
(***************************************************************************)
(* Requests (Routing) and administrators (ExitAdmin) over the same copies  *)
(* of settings, exits and bindings. Where Routing lets the copies change   *)
(* to anything, here the handlers of the admin API change them, and a      *)
(* restart, which ends all requests, restores them.                        *)
(***************************************************************************)
EXTENDS ExitAdmin, Routing

administration == <<rows, next, bindings, stored, job, behind>>
vars == <<memory, administration, req, may>>

Init == AdminInit /\ RoutingInit

ServeRequest ==
  /\ \E q \in Requests : Serve(q)
  /\ Remember
  /\ UNCHANGED administration

Administer ==
  /\ \E a \in Admins : Handle(a)
  /\ UNCHANGED req
  /\ Remember

\* The connections of clients end with the process.
Reboot ==
  /\ Restart
  /\ req' = [q \in Requests |-> NoRequest]
  /\ may' = [q \in Requests |-> NoMay]

Next == ServeRequest \/ Administer \/ Reboot

Spec == Init /\ [][Next]_vars

-----------------------------------------------------------------------------
(* Properties *)

\* A request knows no exit that is still to be created: whoever deletes an exit and
\* creates another does not lead a request that has read an old table into the new one.
NewToRequests ==
  \A i \in Ids, q \in Requests : i >= next => i \notin req[q].exits /\ req[q].way # i

\* Between two changes of one administrator at a time, a request that is left to the
\* default exit of the settings in force finds it in the upstream table: only changes
\* that are under way, and reloads that failed, turn the default into an error.
DefaultFound ==
  OneAdmin /\ Quiet /\ behind = {} =>
    \A q \in Requests :
      In(q, "default") /\ req[q].snap.default \in {settings.default} \ {None} =>
        Usable(table, req[q].snap.default)
=============================================================================
