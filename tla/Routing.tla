------------------------------ MODULE Routing ------------------------------
(***************************************************************************)
(* Requests on the ingress port (internal/server/ingress.go): absolute     *)
(* requests and CONNECT, whose tunnel carries decrypted requests (MITM) or *)
(* bytes of another protocol (blind tunnel). A request reads the settings  *)
(* once, then looks its host up, then reads the bindings, then the         *)
(* upstream table, and then connects; in between all of them are swapped   *)
(* for others. Any others: what administrators write is in ExitAdmin.      *)
(*                                                                         *)
(* Which exit a bound account gets among several (random or by rendezvous  *)
(* hashing) is a free choice among the candidates.                         *)
(***************************************************************************)
EXTENDS Exits

CONSTANTS
  Requests,   \* connections to the ingress port
  Targets,    \* hosts: "public" and "private" addresses, "name" for a host name
  Nobody,     \* no identity was found in a request
  Direct,     \* the connection that uses no exit
  Nowhere     \* no connection

ASSUME RoutingAssumption ==
  /\ Nobody \notin Accounts
  /\ Direct # Nowhere /\ {Direct, Nowhere} \cap Ids = {}
  /\ Targets \subseteq {"public", "private", "name"}

VARIABLES
  req,        \* req[q]: where a request is and what it has read
  may         \* history: may[q], what the settings and bindings in force since q took
              \* its settings would have allowed it

routingVars == <<settings, table, bound, req, may>>

Identities == Accounts \cup {Nobody}
Answers == {"public", "private"}
Ways == Ids \cup {Direct, Nowhere}

\* tunnel and pin: the host of its CONNECT, and what that resolved to if it was
\* checked; target, who: its host and its identity; blind: it is a blind tunnel;
\* checked: the same answer for the target; exits: the exits that account is bound
\* to; way: how it connects; reached: the address of a direct connection, "idle" for
\* a connection that an earlier request has left open.
Request == [at : {"idle", "tunnel", "mitm", "resolve", "bound", "pick", "default", "dial",
                  "done"},
            tunnel : Targets \cup {"none"}, pin : {"public", "none"},
            snap : Snapshot, target : Targets \cup {"none"}, blind : BOOLEAN,
            checked : {"public", "none"}, who : Identities, exits : SUBSET Ids, way : Ways,
            reached : Answers \cup {"idle", "none"}]

NoRequest == [at |-> "idle", tunnel |-> "none", pin |-> "none", snap |-> NoSnapshot,
              target |-> "none", blind |-> FALSE, checked |-> "none", who |-> Nobody,
              exits |-> {}, way |-> Nowhere, reached |-> "none"]

May == [access : BOOLEAN, direct : BOOLEAN, local : BOOLEAN, unbound : BOOLEAN,
        exits : SUBSET Ids]
NoMay == [access |-> FALSE, direct |-> FALSE, local |-> FALSE, unbound |-> FALSE,
          exits |-> {}]

RoutingTypeOK ==
  /\ settings \in Snapshot
  /\ table \in Table
  /\ bound \in [Accounts -> SUBSET Ids]
  /\ req \in [Requests -> Request]
  /\ may \in [Requests -> May]

RoutingInit ==
  /\ settings = NoSnapshot /\ table = NoTable /\ bound = [x \in Accounts |-> {}]
  /\ req = [q \in Requests |-> NoRequest]
  /\ may = [q \in Requests |-> NoMay]

-----------------------------------------------------------------------------
In(q, place) == req[q].at = place
Turns(q, r) == req' = [req EXCEPT ![q] = r] /\ UNCHANGED memory

\* What a host name resolves to is up to its DNS server, at every lookup.
Lookups(host) == IF host = "name" THEN Answers ELSE {host}

\* The answer of publicTargetIPs: the checked one of the context, or a new one.
Resolved(q) ==
  IF req[q].checked # "none" THEN {req[q].checked} ELSE Lookups(req[q].target)

\* The end of a request that does not connect, or is over.
Ended(q) ==
  IF req[q].tunnel = "none" THEN NoRequest
  ELSE [NoRequest EXCEPT !.at = "mitm", !.tunnel = req[q].tunnel, !.pin = req[q].pin]

\* handleConnect: the ACL, and a first lookup if private targets are blocked.
Connect(q, host) ==
  /\ In(q, "idle") /\ settings.allow
  /\ settings.block => "public" \in Lookups(host)
  /\ Turns(q, [NoRequest EXCEPT !.at = "tunnel", !.tunnel = host,
                 !.pin = IF settings.block THEN "public" ELSE "none"])

\* A tunnel in which nothing is under way, before its first byte or between two
\* decrypted requests.
InTunnel(q) == In(q, "tunnel") \/ In(q, "mitm")

\* (mutant: forward does not ask the ACL)
Forward_Wrong(q, host, who) ==
  /\ In(q, "idle") \/ InTunnel(q)
  /\ Turns(q, [req[q] EXCEPT !.at = "resolve", !.snap = settings, !.target = host, !.who = who,
                 !.checked = IF host = req[q].tunnel THEN req[q].pin ELSE "none"])

\* forward: an absolute request, or one from a tunnel with its own Host and new
\* settings. The checked answer of the tunnel holds for the same host only.
Forward(q, host, who) ==
  /\ In(q, "idle") \/ InTunnel(q)
  /\ settings.allow
  /\ Turns(q, [req[q] EXCEPT !.at = "resolve", !.snap = settings, !.target = host, !.who = who,
                 !.checked = IF host = req[q].tunnel THEN req[q].pin ELSE "none"])

\* blindTunnel: new settings, no identity, and no second look at the ACL.
BlindTunnel(q) ==
  /\ In(q, "tunnel")
  /\ Turns(q, [req[q] EXCEPT !.at = "resolve", !.snap = settings, !.target = req[q].tunnel,
                 !.blind = TRUE, !.checked = req[q].pin, !.tunnel = "none", !.pin = "none"])

Close(q) ==
  /\ InTunnel(q)
  /\ Turns(q, NoRequest)

-----------------------------------------------------------------------------
(* resolveOutboundDetailed *)

Fails(q) == Turns(q, Ended(q))
Leaves(q, way) == Turns(q, [req[q] EXCEPT !.at = "dial", !.exits = {}, !.way = way])

NoIdentityDirect(q) == req[q].who = Nobody /\ req[q].snap.policy = "direct"

\* Private targets are refused, or connected to directly.
ResolveBlocked(q) ==
  /\ In(q, "resolve") /\ req[q].snap.block
  /\ "private" \in Resolved(q)
  /\ Fails(q)

ResolveLocal(q) ==
  /\ In(q, "resolve") /\ ~req[q].snap.block /\ req[q].target = "private"
  /\ Leaves(q, Direct)

\* Other targets go direct by policy or on to the bindings, with the checked
\* answer in their context.
ResolvePublic(q) ==
  /\ In(q, "resolve")
  /\ IF req[q].snap.block THEN "public" \in Resolved(q)
                          ELSE req[q].target # "private"
  /\ LET r == [req[q] EXCEPT !.checked = IF req[q].snap.block THEN "public" ELSE "none"]
     IN Turns(q, IF NoIdentityDirect(q) THEN [r EXCEPT !.at = "dial", !.way = Direct]
                                        ELSE [r EXCEPT !.at = "bound"])

\* selectBoundEgress reads the bindings,
ReadBinding(q) ==
  /\ In(q, "bound")
  /\ LET exits == IF req[q].who \in Accounts THEN bound[req[q].who] ELSE {}
     IN Turns(q, [req[q] EXCEPT !.exits = exits,
                    !.at = IF exits = {} THEN "default" ELSE "pick"])

Candidates(q) == {i \in req[q].exits : Has(table, i) /\ table[i].on}

\* (mutant: an account whose exits are gone takes the default)
PickBound_Wrong(q) ==
  /\ In(q, "pick")
  /\ IF Candidates(q) = {} THEN Turns(q, [req[q] EXCEPT !.at = "default"])
                           ELSE \E i \in Candidates(q) : Leaves(q, i)

\* then the upstream table. A bound account without a usable exit fails.
PickBound(q) ==
  /\ In(q, "pick")
  /\ IF Candidates(q) = {} THEN Fails(q)
                           ELSE \E i \in Candidates(q) : Leaves(q, i)

\* (mutant: a default that is not in the table is no default)
PickDefault_Wrong(q) ==
  /\ In(q, "default")
  /\ IF Usable(table, req[q].snap.default)
       THEN \E i \in Named(table, req[q].snap.default) : Leaves(q, i)
       ELSE Leaves(q, Direct)

\* The default exit; direct only if there is no default.
PickDefault(q) ==
  /\ In(q, "default")
  /\ IF Usable(table, req[q].snap.default)
       THEN \E i \in Named(table, req[q].snap.default) : Leaves(q, i)
       ELSE IF req[q].snap.default = None THEN Leaves(q, Direct) ELSE Fails(q)

\* The injector of an exit is missing or fails.
InjectFails(q) ==
  /\ In(q, "dial") /\ req[q].way \in Ids
  /\ Fails(q)

-----------------------------------------------------------------------------
(* RoundTrip, dialViaUpstream and dialPublicTarget *)

\* (mutant: a checked target is looked up again)
Reachable_Wrong(q) == Lookups(req[q].target)

\* A direct connection goes to the address that was checked, or wherever the
\* host resolves to now.
Reachable(q) == IF req[q].snap.block THEN {req[q].checked} ELSE Lookups(req[q].target)

Dial(q) ==
  /\ In(q, "dial")
  /\ \E address \in Reachable(q) :
       Turns(q, [req[q] EXCEPT !.at = "done", !.snap = NoSnapshot, !.checked = "none",
                   !.reached = IF req[q].way = Direct THEN address ELSE "none"])

\* The transport has a connection to this host that an earlier request opened, under
\* the settings of that request. A blind tunnel has a connection of its own.
Reuse(q) ==
  /\ In(q, "dial") /\ req[q].way = Direct /\ ~req[q].blind
  /\ Turns(q, [req[q] EXCEPT !.at = "done", !.snap = NoSnapshot, !.checked = "none",
                 !.reached = "idle"])

DialFails(q) ==
  /\ In(q, "dial")
  /\ Fails(q)

Finish(q) ==
  /\ In(q, "done")
  /\ Turns(q, Ended(q))

Serve(q) ==
  \/ \E host \in Targets : Connect(q, host)
  \/ \E host \in Targets, who \in Identities : Forward(q, host, who)
  \/ BlindTunnel(q) \/ Close(q)
  \/ ResolveBlocked(q) \/ ResolveLocal(q) \/ ResolvePublic(q)
  \/ ReadBinding(q) \/ PickBound(q) \/ PickDefault(q)
  \/ InjectFails(q) \/ Dial(q) \/ Reuse(q) \/ DialFails(q) \/ Finish(q)

-----------------------------------------------------------------------------
Under(q) == In(q, "resolve") \/ In(q, "bound") \/ In(q, "pick") \/ In(q, "default")
              \/ In(q, "dial")

\* What settings s and bindings b allow a request r.
Allows(r, s, b) ==
  [access  |-> s.allow,
   direct  |-> s.default = None \/ (r.who = Nobody /\ s.policy = "direct"),
   local   |-> ~s.block,
   unbound |-> r.who \notin Accounts \/ b[r.who] = {},
   exits   |-> IF r.who \in Accounts THEN b[r.who] ELSE {}]

Or(m, n) ==
  [access  |-> m.access \/ n.access,
   direct  |-> m.direct \/ n.direct,
   local   |-> m.local \/ n.local,
   unbound |-> m.unbound \/ n.unbound,
   exits   |-> m.exits \cup n.exits]

\* History: a request takes its settings when it enters "resolve"; whether the
\* ACL lets it pass counts from its CONNECT on, until it has connected.
Recalled(q) ==
  CASE req'[q].at = "idle" -> NoMay
    [] req'[q].at \in {"tunnel", "mitm"} ->
         [NoMay EXCEPT !.access = may[q].access \/ settings'.allow]
    [] In(q, "done") /\ req'[q].at = "done" -> may[q]
    [] OTHER ->
         Or(IF Under(q) THEN may[q] ELSE [NoMay EXCEPT !.access = may[q].access],
            Allows(req'[q], settings', bound'))
Remember == may' = [q \in Requests |-> Recalled(q)]

Tables == {t \in Table : UniqueNames(t)}

\* Holder.Set, SwapUpstreams and SwapAcctEgress, each at any moment.
SettingsChange ==
  \E n \in Names \cup {None}, o \in Offered :
    settings' = Chosen(n, o) /\ UNCHANGED <<table, bound, req>>
UpstreamsChange ==
  \E t \in Tables : table' = t /\ UNCHANGED <<settings, bound, req>>
BindingsChange ==
  \E b \in [Accounts -> SUBSET Ids] : bound' = b /\ UNCHANGED <<settings, table, req>>

RoutingNext ==
  /\ \/ \E q \in Requests : Serve(q)
     \/ SettingsChange \/ UpstreamsChange \/ BindingsChange
  /\ Remember

RoutingSpec == RoutingInit /\ [][RoutingNext]_routingVars

-----------------------------------------------------------------------------
Out(q) == In(q, "done")

(* No failure turns into a direct connection: a request goes direct only   *)
(* if settings that were in force while it was under way said so, because  *)
(* there was no default, or by the policy for requests without identity,   *)
(* or because private addresses were allowed (resolveOutboundDetailed).    *)
(* A default that is missing, disabled, renamed or unreachable is none of  *)
(* these.                                                                  *)
FailClosed ==
  \A q \in Requests : Out(q) /\ req[q].way = Direct =>
    may[q].direct \/ (may[q].local /\ req[q].target = "private")

(* An account that was bound throughout a request leaves through an exit   *)
(* it was bound to during the request or not at all, whatever happens to   *)
(* its exits and to the default between the two tables that               *)
(* selectBoundEgress reads. Allowed private addresses have priority.       *)
BoundStays ==
  \A q \in Requests : Out(q) /\ req[q].who \in Accounts /\ ~may[q].unbound =>
    \/ req[q].way \in may[q].exits
    \/ req[q].way = Direct /\ may[q].local /\ req[q].target = "private"

(* While private targets are blocked nobody opens a direct connection to   *)
(* one, though the name server may answer differently each time it is      *)
(* asked, and the first answer may be one of a CONNECT under other         *)
(* settings (publicTargetIPs, dialPublicTarget). It says nothing of idle   *)
(* connections, which keep the address they were opened to.                *)
PublicOnly ==
  \A q \in Requests : Out(q) /\ req[q].reached = "private" => may[q].local

(* Whatever leaves was let through by the ACL of settings in force since   *)
(* it arrived, or since its CONNECT.                                       *)
AccessAllowed ==
  \A q \in Requests : Out(q) => may[q].access
=============================================================================
