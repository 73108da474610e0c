------------------------------ MODULE Agents ------------------------------
(***************************************************************************)
(* Agents, their immutable versions and their rosters                      *)
(* (src/internal/api/agents.go, roster.go), the session that snapshots one *)
(* (sessions.go) and the deployments that pin one.                         *)
(*                                                                         *)
(* A coordinator's roster is a set of pinned references; a version keeps   *)
(* its name, its tools and its roster.  A transaction takes its own        *)
(* agent's row exclusively, then its members' rows shared, and holds both  *)
(* to its commit; two coordinators that name one another can deadlock, and *)
(* the database picks a victim.  Optimistic version checks only refuse     *)
(* more updates and are left out, as is all other content of a spec.       *)
(***************************************************************************)
EXTENDS Integers, Sequences, FiniteSets

CONSTANTS
    AgentIds, Tools,
    Specs,              \* agent -> what its requests give: [name, tools]
    Self,               \* the roster entry {"type":"self"}
    Keep,               \* an update that does not name the roster
    Rosters,            \* agent -> the rosters its requests give: sets of [id, version]
    Requests,           \* transactions in flight
    MaxVersions

VARIABLES
    versions,           \* agent -> the sequence of its versions
    retired,            \* the archived agents
    pins,               \* the agents live deployments pin
    requests,
    session             \* one session's resolved agent, or NoSession

avars == <<versions, retired, pins, requests, session>>

NoRequest == [op |-> "none", phase |-> "idle", agent |-> CHOOSE a \in AgentIds : TRUE,
              spec |-> CHOOSE s \in UNION {Specs[a] : a \in AgentIds} : TRUE, roster |-> {}]

NoSession == [agent |-> CHOOSE a \in AgentIds : TRUE, version |-> 0, tools |-> CHOOSE s \in Tools : TRUE, members |-> {}]

AgentsInit ==
    /\ versions = [a \in AgentIds |-> <<>>]
    /\ retired = {}
    /\ pins = {}
    /\ requests = [t \in Requests |-> NoRequest]
    /\ session = NoSession

---------------------------------------------------------------------------
(* Row locks.                                                              *)

\* Row a is held FOR UPDATE by a transaction other than t.
Exclusive(a, t) == \E u \in Requests \ {t} : requests[u].op = "update" /\ requests[u].agent = a

\* Row a is held FOR SHARE: a resolved roster's member, or a pin.
Shared(a, t) ==
    \E u \in Requests \ {t} :
        \/ requests[u].op = "pin" /\ requests[u].agent = a
        \/ /\ requests[u].phase = "resolved" /\ requests[u].op # "pin"
           /\ \E ref \in requests[u].roster : ref.id = a /\ requests[u].agent # a

---------------------------------------------------------------------------
(* Rosters.                                                                *)

\* A reference to the coordinator itself, typed or by its own id.
IsSelf(entry, a) == entry.id \in {Self, a}

NextVersion(q) == IF q.op = "create" THEN 1 ELSE Len(versions[q.agent]) + 1

\* The rows a resolve locks: the members' other than the coordinator's own.
MemberIds(q) == {entry.id : entry \in {e \in q.roster : ~IsSelf(e, q.agent)}}

\* The entry pinned: the coordinator at the version being written, a member
\* at the version given or its current one.
Pinned(entry, q) ==
    IF IsSelf(entry, q.agent) THEN [id |-> q.agent, version |-> NextVersion(q)]
    ELSE [id |-> entry.id, version |-> IF entry.version = 0 THEN Len(versions[entry.id]) ELSE entry.version]

\* What a roster may name: the coordinator once, at its current or its next
\* version; each member once, live, at a version that exists and has no
\* roster of its own.
Resolvable(q) ==
    LET self == {e \in q.roster : IsSelf(e, q.agent)}
        members == q.roster \ self
    IN  /\ Cardinality(self) <= 1
        /\ \A e \in self : e.version \in {0, NextVersion(q), NextVersion(q) - 1}
        /\ \A e, f \in members : e.id = f.id => e = f
        /\ \A e \in members :
              /\ versions[e.id] # <<>> /\ e.id \notin retired
              /\ Pinned(e, q).version \in 1 .. Len(versions[e.id])
              /\ versions[e.id][Pinned(e, q).version].roster = {}

\* Wrong: an update that does not name the roster carries it over as it was.
RepinSelfNot(roster, a, to) == roster

\* The coordinator's own entry follows the version being written.
RepinSelf(roster, a, to) ==
    {IF ref.id = a /\ ref.version = to - 1 THEN [id |-> a, version |-> to] ELSE ref : ref \in roster}

---------------------------------------------------------------------------
(* Agents.                                                                 *)

\* An id no agent has; nothing is locked until the roster is.
CreateAgent(t, a, spec, roster) ==
    /\ requests[t].op = "none"
    /\ versions[a] = <<>>
    /\ \A u \in Requests : requests[u].op = "create" => requests[u].agent # a
    /\ roster # Keep
    /\ requests' = [requests EXCEPT ![t] = [op |-> "create", phase |-> "open", agent |-> a,
                                            spec |-> spec, roster |-> roster]]
    /\ UNCHANGED <<versions, retired, pins, session>>

\* The row is read and locked; an archived agent takes no update.  A roster
\* the update does not name is kept, and its members' rows are not locked.
UpdateAgent(t, a, spec, roster) ==
    /\ requests[t].op = "none"
    /\ versions[a] # <<>> /\ Len(versions[a]) < MaxVersions
    /\ ~Exclusive(a, t) /\ ~Shared(a, t)
    /\ a \notin retired
    /\ LET next == Len(versions[a]) + 1
       IN  requests' = [requests EXCEPT ![t] =
               [op |-> "update", phase |-> IF roster = Keep THEN "kept" ELSE "open", agent |-> a,
                spec |-> spec,
                roster |-> IF roster = Keep THEN RepinSelf(versions[a][next - 1].roster, a, next) ELSE roster]]
    /\ UNCHANGED <<versions, retired, pins, session>>

\* The members' rows are locked and read, the roster pinned or refused.
ResolveRoster(t) ==
    LET q == requests[t]
    IN  /\ q.phase = "open" /\ q.op # "pin"
        /\ \A a \in MemberIds(q) : ~Exclusive(a, t)
        /\ requests' = [requests EXCEPT ![t] =
               IF Resolvable(q) THEN [q EXCEPT !.phase = "resolved", !.roster = {Pinned(e, q) : e \in q.roster}]
               ELSE NoRequest]
        /\ UNCHANGED <<versions, retired, pins, session>>

\* Two coordinators each hold the row the other's roster waits for; the
\* victim is answered with a conflict.
RosterLockErr(t) ==
    /\ requests[t].phase = "open"
    /\ \E u \in Requests \ {t} :
          /\ requests[u].op = "update" /\ requests[u].phase = "open"
          /\ requests[u].agent \in MemberIds(requests[t])
          /\ requests[t].op = "update" /\ requests[t].agent \in MemberIds(requests[u])
    /\ requests' = [requests EXCEPT ![t] = NoRequest]
    /\ UNCHANGED <<versions, retired, pins, session>>

\* The version is appended, as the agent's current one and for good.
CommitAgent(t) ==
    LET q == requests[t]
    IN  /\ q.phase \in {"resolved", "kept"} /\ q.op # "pin"
        /\ versions' = [versions EXCEPT ![q.agent] = Append(@, [spec |-> q.spec, roster |-> q.roster])]
        /\ requests' = [requests EXCEPT ![t] = NoRequest]
        /\ UNCHANGED <<retired, pins, session>>

\* An agent a live deployment pins is not archived.
ArchiveAgent(a) ==
    /\ versions[a] # <<>>
    /\ \A t \in Requests : requests[t].op # "create" => ~(requests[t].agent = a /\ requests[t].op # "none")
    /\ \A t \in Requests : ~(requests[t].phase = "resolved" /\ \E ref \in requests[t].roster : ref.id = a)
    /\ a \notin retired => a \notin pins
    /\ retired' = retired \union {a}
    /\ UNCHANGED <<versions, pins, requests, session>>

\* A deployment names an agent: the row is shared from the check to the
\* commit.
ResolveDeploymentAgent(t, a) ==
    /\ requests[t].op = "none"
    /\ versions[a] # <<>> /\ a \notin retired
    /\ ~Exclusive(a, t)
    /\ requests' = [requests EXCEPT ![t] = [NoRequest EXCEPT !.op = "pin", !.phase = "resolved", !.agent = a]]
    /\ UNCHANGED <<versions, retired, pins, session>>

PinCommits(t) ==
    /\ requests[t].op = "pin"
    /\ pins' = pins \union {requests[t].agent}
    /\ requests' = [requests EXCEPT ![t] = NoRequest]
    /\ UNCHANGED <<versions, retired, session>>

Unpin(a) ==
    /\ a \in pins
    /\ pins' = pins \ {a}
    /\ UNCHANGED <<versions, retired, requests, session>>

---------------------------------------------------------------------------
(* A session's snapshot.                                                   *)

Member(ref) ==
    [id |-> ref.id, version |-> ref.version, name |-> versions[ref.id][ref.version].spec.name,
     tools |-> versions[ref.id][ref.version].spec.tools]

SelfMember(a, v, tools) == [id |-> a, version |-> v, name |-> versions[a][v].spec.name, tools |-> tools]

\* Every member in full: the coordinator as this session resolved it, the
\* others as their versions say.
SnapshotRoster(a, v, tools) ==
    {IF ref.id = a /\ ref.version = v THEN SelfMember(a, v, tools) ELSE Member(ref) : ref \in versions[a][v].roster}

\* A coordinator spawns a member by name.
NamesDiffer(members) == \A m, n \in members : m.name = n.name => m = n

\* The agent by id, current or at a version, with its own tools or the
\* request's.
ResolveAgent(a, v, tools) ==
    /\ session.version = 0
    /\ a \notin retired
    /\ v \in 1 .. Len(versions[a])
    /\ NamesDiffer(SnapshotRoster(a, v, tools))
    /\ session' = [agent |-> a, version |-> v, tools |-> tools, members |-> SnapshotRoster(a, v, tools)]
    /\ UNCHANGED <<versions, retired, pins, requests>>

PatchSelfMember(members, a, v, tools) ==
    {IF m.id = a /\ m.version = v THEN SelfMember(a, v, tools) ELSE m : m \in members}

UpdateSession(tools) ==
    /\ session.version # 0
    /\ session' = [session EXCEPT !.tools = tools,
                                  !.members = PatchSelfMember(@, session.agent, session.version, tools)]
    /\ UNCHANGED <<versions, retired, pins, requests>>

SessionGoes ==
    /\ session.version # 0
    /\ session' = NoSession
    /\ UNCHANGED <<versions, retired, pins, requests>>

AgentsNext ==
    \/ \E t \in Requests, a \in AgentIds : \E spec \in Specs[a], roster \in Rosters[a] \union {Keep} :
           CreateAgent(t, a, spec, roster) \/ UpdateAgent(t, a, spec, roster)
    \/ \E t \in Requests : ResolveRoster(t) \/ RosterLockErr(t) \/ CommitAgent(t) \/ PinCommits(t)
    \/ \E t \in Requests, a \in AgentIds : ResolveDeploymentAgent(t, a)
    \/ \E a \in AgentIds : ArchiveAgent(a) \/ Unpin(a)
    \/ \E a \in AgentIds, v \in 1 .. MaxVersions, tools \in Tools : ResolveAgent(a, v, tools)
    \/ \E tools \in Tools : UpdateSession(tools)
    \/ SessionGoes

---------------------------------------------------------------------------
(* Properties                                                              *)

\* What a roster and a deployment name stays there to be used.  Every member
\* of every version ever written is a version that exists and has no roster
\* of its own, and a version that lists its own agent lists itself, so no
\* session's team is more than one level deep (resolveRoster, repinSelf).  A
\* session's own member has the session's tools and no two members share a
\* name (snapshotRoster, patchSelfMember), and the agent of a live deployment
\* is never archived (archiveAgent, resolveDeploymentAgent).
RostersResolve ==
    /\ \A a \in AgentIds : \A v \in 1 .. Len(versions[a]) : \A ref \in versions[a][v].roster :
          IF ref.id = a THEN ref.version = v
          ELSE ref.version \in 1 .. Len(versions[ref.id]) /\ versions[ref.id][ref.version].roster = {}
    /\ NamesDiffer(session.members)
    /\ \A m \in session.members : m.id = session.agent => m.tools = session.tools
    /\ pins \intersect retired = {}

===========================================================================
