---------------------------- MODULE RemoteTools ----------------------------
(***************************************************************************)
(* The tools the platform itself runs for a session, wherever its sandbox  *)
(* is: MCP servers' (executor/mcpwork.go, executor/mcpexec.go, and the     *)
(* brain's half in brain/mcptools.go) and the web's (executor/webwork.go,  *)
(* executor/webprovenance.go).                                             *)
(*                                                                         *)
(* One session.  A turn emits at most one call, so two open calls are two  *)
(* threads'.  A listing is the url it was read at; a web target stands for *)
(* its normalized URL, and a link of a page for a URL in its text.         *)
(***************************************************************************)
EXTENDS Naturals, FiniteSets

CONSTANTS Threads, Primary,       \* the session's threads, and its first
          Servers,                \* MCP server names
          Endpoints, Malformed,   \* their urls, and those that are not http urls
          Targets, Links(_),      \* URLs the web tools are asked for, and a page's links
          Calls,                  \* the calls the session's turns may make
          Slots,                  \* executors
          ToolStarts              \* what each thread declares, and bounds on what may happen

VARIABLES declared,   \* each thread's agent: the url it declares for a server, 0 for none
          catalogs,   \* mcp_catalogs: a row for each thread and server
          turns,      \* each thread: idle, turn, suspended or waiting on its call
          openCalls,  \* the tool-use events, and where each stands
          items,      \* the live mcp_exec and web_exec items
          toolPasses, \* each executor's pass
          given,      \* URLs in what people wrote and what web tools returned
          remoteLeft, \* turns, patches, interrupts and faults still to come
          toldOf,     \* session.error events about a server since its row appeared: history
          toolRuns,   \* each call's remote runs, the excused ones, where, and its results: history
          fetched     \* URLs handed to the reader: history

rtvars == <<declared, catalogs, turns, openCalls, items, toolPasses, given, remoteLeft, toldOf, toolRuns, fetched>>

Lanes == {"mcp", "web"}

NoRow == [url |-> 0, status |-> "none", error |-> ""]

NoCall == [thread |-> Primary, lane |-> "none", server |-> "", from |-> 0, target |-> 0, at |-> "none"]

NoPass == [lane |-> "none", at |-> "none", lost |-> FALSE, servers |-> <<>>, work |-> {}, to |-> <<>>, rows |-> {}, now |-> 0, out |-> {}]

Ended(e) == [toolPasses EXCEPT ![e] = NoPass]

-----------------------------------------------------------------------------
(* What the log and the queue say.                                         *)

\* A call no gate holds and no result answers.
RunnableToolUses(lane) == {c \in Calls : openCalls[c].at = "runnable" /\ openCalls[c].lane = lane}

\* MCP before web, as the drivers drain them.
ExecClass(calls) ==
    CASE \E c \in Calls : calls[c].at = "runnable" /\ calls[c].lane = "mcp" -> "mcp"
      [] /\ \A c \in Calls : ~ (calls[c].at = "runnable" /\ calls[c].lane = "mcp")
         /\ \E c \in Calls : calls[c].at = "runnable" /\ calls[c].lane = "web" -> "web"
      [] OTHER -> "none"

\* The session runs while a thread has a turn, awaits a listing, or has a
\* call to be run; gated calls leave it idle.
Running ==
    \/ \E t \in Threads : turns[t] \in {"turn", "suspended"}
    \/ \E c \in Calls : openCalls[c].at = "runnable"

\* Enqueue is keyed by session and kind: a live item absorbs it.
Enqueue(work, lane) == IF lane # "none" /\ work[lane] = "none" THEN [work EXCEPT ![lane] = "queued"] ELSE work

Unanswered(calls, t) == \E c \in Calls : calls[c].thread = t /\ calls[c].at \in {"gated", "runnable"}

\* The threads a settlement wakes: those with nothing left to wait for.
ResumableThreads(calls) ==
    [t \in Threads |-> IF turns[t] \in {"suspended", "waiting"} /\ ~ Unanswered(calls, t) THEN "turn" ELSE turns[t]]

\* The drain of an exec item: wake the threads it settled, hand the item
\* back while its own kind has calls, else arm the next kind and complete.
SettleDrain(calls, lane) ==
    LET kind == ExecClass(calls)
    IN /\ openCalls' = calls
       /\ turns' = ResumableThreads(calls)
       /\ items' = IF kind = lane THEN [items EXCEPT ![lane] = "queued"]
                   ELSE Enqueue([items EXCEPT ![lane] = "none"], kind)

-----------------------------------------------------------------------------
(* The brain's half.                                                       *)

\* The servers a turn is held for: no row, or one read at another url.  A
\* failed row is an answer.
Undiscovered(t) == {s \in Servers : declared[t][s] # 0 /\ catalogs[t][s].url # declared[t][s]}

\* The listings a turn may offer.
LoadMCPCatalog(t) == {s \in Servers : declared[t][s] # 0 /\ catalogs[t][s] = [url |-> declared[t][s], status |-> "ready", error |-> ""]}

SuspendForDiscovery(t) ==
    /\ turns[t] = "turn" /\ Undiscovered(t) # {}
    /\ turns' = [turns EXCEPT ![t] = "suspended"]
    /\ items' = Enqueue(items, "mcp")
    /\ UNCHANGED <<declared, catalogs, openCalls, toolPasses, given, remoteLeft, toldOf, toolRuns, fetched>>

\* A call a turn may emit: a tool some listing offered, or a web fetch.
Emitted(t) ==
    {u \in [thread : {t}, lane : {"mcp"}, server : LoadMCPCatalog(t), from : {declared[t][s] : s \in LoadMCPCatalog(t)},
            target : {0}, at : {"gated", "runnable"}] : u.from = declared[t][u.server]}
    \union [thread : {t}, lane : {"web"}, server : {""}, from : {0}, target : Targets, at : {"gated", "runnable"}]

\* A turn ends, calls a tool, and may wake an idle thread: the coordinator's
\* a child, and a child's the coordinator it reports to.
Turn(t, c) ==
    /\ turns[t] = "turn" /\ Undiscovered(t) = {} /\ remoteLeft.turns > 0
    /\ remoteLeft' = [remoteLeft EXCEPT !.turns = @ - 1]
    /\ \E woken \in SUBSET {x \in Threads : turns[x] = "idle" /\ ((t = Primary) # (x = Primary))} :
          LET rest(mine) == [x \in Threads |-> IF x = t THEN mine ELSE IF x \in woken THEN "turn" ELSE turns[x]]
          IN \/ turns' = rest("idle") /\ UNCHANGED <<openCalls, items>>
             \/ /\ openCalls[c].at = "none" /\ \A d \in Calls : d < c => openCalls[d].at # "none"
                /\ \E u \in Emitted(t) :
                      /\ <<u.lane, u.at>> \in remoteLeft.offers
                      /\ openCalls' = [openCalls EXCEPT ![c] = u]
                      /\ turns' = rest("waiting")
                      /\ items' = Enqueue(items, ExecClass(openCalls'))
    /\ UNCHANGED <<declared, catalogs, toolPasses, given, toldOf, toolRuns, fetched>>

\* A new work cycle dials again the servers no cycle has reached: the failed
\* rows go, every thread's, whatever the other threads are doing.
DropFailedRows ==
    LET failed(t, s) == catalogs[t][s].status = "failed"
    IN /\ catalogs' = [t \in Threads |-> [s \in Servers |-> IF failed(t, s) THEN NoRow ELSE catalogs[t][s]]]
       /\ toldOf' = [t \in Threads |-> [s \in Servers |-> IF failed(t, s) THEN 0 ELSE toldOf[t][s]]]

\* A person's message starts a cycle when the primary is idle.
StartWorkCycle ==
    /\ turns[Primary] = "idle" /\ remoteLeft.messages > 0
    /\ remoteLeft' = [remoteLeft EXCEPT !.messages = @ - 1]
    /\ turns' = [turns EXCEPT ![Primary] = "turn"]
    /\ DropFailedRows
    /\ UNCHANGED <<declared, openCalls, items, toolPasses, given, toolRuns, fetched>>

\* The calls an action answers, each with one result.
Answer(answered) ==
    /\ toolRuns' = [c \in Calls |-> IF c \in answered THEN [toolRuns[c] EXCEPT !.results = @ + 1] ELSE toolRuns[c]]

Closed(calls, answered) == [c \in Calls |-> IF c \in answered THEN [calls[c] EXCEPT !.at = "answered"] ELSE calls[c]]

\* A confirmation releases the call, or answers it with the denial.  A
\* fetch a person allowed is a URL a person gave.
Confirm(c, allow) ==
    /\ openCalls[c].at = "gated"
    /\ IF allow
       THEN /\ openCalls' = [openCalls EXCEPT ![c].at = "runnable"]
            /\ items' = Enqueue(items, ExecClass(openCalls'))
            /\ given' = given \union {u \in {openCalls[c].target} : openCalls[c].lane = "web"}
            /\ UNCHANGED <<turns, toolRuns>>
       ELSE /\ openCalls' = Closed(openCalls, {c}) /\ Answer({c})
            /\ turns' = [turns EXCEPT ![openCalls[c].thread] = "turn"]
            /\ UNCHANGED <<items, given>>
    /\ UNCHANGED <<declared, catalogs, toolPasses, remoteLeft, toldOf, fetched>>

\* An interrupt answers the calls of the threads it names.  One thread's
\* leaves the exec items live; the session's stops them all.  A child's,
\* when no other child is still to report, wakes an idle coordinator; a
\* message sent with the primary's redirects it, which is a new cycle.
Interrupt(named, redirect) ==
    LET mine == {c \in Calls : openCalls[c].thread \in named /\ openCalls[c].at \in {"gated", "runnable"}}
        told == Primary \notin named /\ turns[Primary] = "idle" /\ \A t \in Threads \ named : turns[t] = "idle"
    IN /\ remoteLeft.interrupts > 0 /\ \E t \in named : turns[t] # "idle"
       /\ redirect => Primary \in named /\ remoteLeft.messages > 0
       /\ remoteLeft' = [remoteLeft EXCEPT !.interrupts = @ - 1, !.messages = IF redirect THEN @ - 1 ELSE @]
       /\ openCalls' = Closed(openCalls, mine) /\ Answer(mine)
       /\ turns' = [t \in Threads |-> IF t = Primary /\ (redirect \/ told) THEN "turn" ELSE IF t \in named THEN "idle" ELSE turns[t]]
       /\ IF named = Threads
          THEN /\ items' = [lane \in Lanes |-> "none"]
               /\ toolPasses' = [e \in Slots |-> IF toolPasses[e] = NoPass THEN NoPass ELSE [toolPasses[e] EXCEPT !.lost = TRUE]]
          ELSE UNCHANGED <<items, toolPasses>>
       /\ IF redirect THEN DropFailedRows ELSE UNCHANGED <<catalogs, toldOf>>
       /\ UNCHANGED <<declared, given, fetched>>

\* Mutant: a patch leaves the rows it invalidates.
PatchKeepsRows(s, url) ==
    /\ ~ Running /\ remoteLeft.patches > 0 /\ declared[Primary][s] # url
    /\ remoteLeft' = [remoteLeft EXCEPT !.patches = @ - 1]
    /\ declared' = [declared EXCEPT ![Primary][s] = url]
    /\ UNCHANGED <<catalogs, toldOf, turns, openCalls, items, toolPasses, given, toolRuns, fetched>>

\* A patch of the session's agent, refused while the session runs, drops
\* the primary's rows it invalidates.
PatchServers(s, url) ==
    /\ ~ Running /\ remoteLeft.patches > 0 /\ declared[Primary][s] # url
    /\ remoteLeft' = [remoteLeft EXCEPT !.patches = @ - 1]
    /\ declared' = [declared EXCEPT ![Primary][s] = url]
    /\ catalogs' = [catalogs EXCEPT ![Primary][s] = IF @.url = url THEN @ ELSE NoRow]
    /\ toldOf' = [toldOf EXCEPT ![Primary][s] = IF catalogs[Primary][s].url = url THEN @ ELSE 0]
    /\ UNCHANGED <<turns, openCalls, items, toolPasses, given, toolRuns, fetched>>

-----------------------------------------------------------------------------
(* The executor's half: claiming, and discovery.                           *)

FreePass == LET free == {e \in Slots : toolPasses[e] = NoPass} IN IF free = {} THEN 0 ELSE CHOOSE e \in free : \A f \in free : e =< f

\* The item is completed unread when the session no longer runs.
SessionForRun(e, lane) ==
    /\ items[lane] = "queued" /\ e = FreePass
    /\ IF Running
       THEN /\ items' = [items EXCEPT ![lane] = "held"]
            /\ toolPasses' = [toolPasses EXCEPT ![e] = [NoPass EXCEPT !.lane = lane, !.at = "claimed", !.servers = declared[Primary]]]
       ELSE /\ items' = [items EXCEPT ![lane] = "none"] /\ UNCHANGED toolPasses
    /\ UNCHANGED <<declared, catalogs, turns, openCalls, given, remoteLeft, toldOf, toolRuns, fetched>>

ThreadMCPServers(e, t) == IF t = Primary THEN toolPasses[e].servers ELSE declared[t]

\* A ready row at the declared url needs no second reading; a failed one is
\* dialled again whenever a pass runs.
UndiscoveredServers(e, t) ==
    {s \in Servers : /\ ThreadMCPServers(e, t)[s] # 0
                     /\ ~ (catalogs[t][s].status = "ready" /\ catalogs[t][s].url = ThreadMCPServers(e, t)[s])}

\* Where a call may be dialled: the url still declared, when its listing was
\* read there too; 0 refuses the call.
CallEndpoint(e, c) ==
    LET t == openCalls[c].thread
        s == openCalls[c].server
        url == ThreadMCPServers(e, t)[s]
    IN IF catalogs[t][s].status = "ready" /\ catalogs[t][s].url = url THEN url ELSE 0

\* Calls come first; a pass discovers only when there are none.
ProcessMCP(e) ==
    LET calls == RunnableToolUses("mcp")
    IN /\ toolPasses[e].lane = "mcp" /\ toolPasses[e].at = "claimed"
       /\ toolPasses' = [toolPasses EXCEPT ![e] =
             IF calls # {}
             THEN [@ EXCEPT !.at = "calls", !.work = calls, !.to = [c \in calls |-> CallEndpoint(e, c)]]
             ELSE [@ EXCEPT !.at = "dials", !.work = {<<t, s>> \in Threads \X Servers : s \in UndiscoveredServers(e, t)}]]
       /\ UNCHANGED <<declared, catalogs, turns, openCalls, items, given, remoteLeft, toldOf, toolRuns, fetched>>

\* What preparing a server and dialling it come to.  A url that is no http
\* url is not dialled; a refused credential, a policy that does not admit
\* the host and a server that fails are verdicts; late is the pass's clock.
PrepareServer(url) == IF url \in Malformed THEN {"offwire"} ELSE {"verdict", "late"}

ListServerTools(url) == IF url \in Malformed THEN {} ELSE {"ready"}

FailedDial(url, kind) == [url |-> url, status |-> "failed", error |-> kind]

\* The dials run side by side, each filling its own row.  They share one
\* clock; that it may run out for any of them and not for the others allows
\* a little more than the order the threads' servers are taken in does.
DiscoverServers(e) ==
    /\ toolPasses[e].at = "dials"
    /\ \E kind \in [toolPasses[e].work -> remoteLeft.kinds] :
          /\ \A w \in toolPasses[e].work :
                LET url == ThreadMCPServers(e, w[1])[w[2]] IN kind[w] \in PrepareServer(url) \union ListServerTools(url)
          /\ toolPasses' = [toolPasses EXCEPT ![e] =
                [@ EXCEPT !.at = "rows", !.work = {},
                          !.rows = {[thread |-> w[1], server |-> w[2],
                                     row |-> LET url == ThreadMCPServers(e, w[1])[w[2]]
                                             IN IF kind[w] = "ready" THEN [url |-> url, status |-> "ready", error |-> ""]
                                                ELSE FailedDial(url, kind[w])] : w \in toolPasses[e].work}]]
    /\ UNCHANGED <<declared, catalogs, turns, openCalls, items, given, remoteLeft, toldOf, toolRuns, fetched>>

Announceable(row) == row.status = "failed" /\ row.error \notin {"late", "offwire"}

\* The failures the session has been told of: a verdict stands in the row.
AnnouncedServers(t, s, url) ==
    catalogs[t][s].status = "failed" /\ catalogs[t][s].error \notin {"", "late"} /\ catalogs[t][s].url = url

\* The pass's own clock never displaces a verdict an earlier pass earned.
Upsert(old, new) == IF new.error = "late" /\ old.error # "" THEN [new EXCEPT !.error = old.error] ELSE new

\* The rows the settlement may write: those still declared at that url.
StillDeclared(rows) == {r \in rows : declared[r.thread][r.server] = r.row.url}

\* The rows, what the session is told and the item's fate, in one
\* transaction under the session's lock.
SettleMCP(e) ==
    LET rows == StillDeclared(toolPasses[e].rows)
        Of(t, s) == {r.row : r \in {q \in rows : q.thread = t /\ q.server = s}}
    IN /\ toolPasses[e].at = "rows" /\ ~ toolPasses[e].lost
       /\ toolPasses' = Ended(e)
       /\ IF Running
          THEN /\ catalogs' = [t \in Threads |-> [s \in Servers |->
                     IF Of(t, s) = {} THEN catalogs[t][s] ELSE Upsert(catalogs[t][s], CHOOSE r \in Of(t, s) : TRUE)]]
               /\ toldOf' = [t \in Threads |-> [s \in Servers |->
                     toldOf[t][s] + Cardinality({r \in Of(t, s) : Announceable(r) /\ ~ AnnouncedServers(t, s, r.url)})]]
               /\ toolRuns' = [c \in Calls |->
                     [toolRuns[c] EXCEPT !.relisted = @ \/ \E r \in rows : /\ openCalls[c].lane = "mcp" /\ openCalls[c].thread = r.thread
                                                                        /\ r.server = openCalls[c].server /\ r.row.url # openCalls[c].from]]
               /\ SettleDrain(openCalls, "mcp")
          ELSE /\ items' = [items EXCEPT !["mcp"] = "none"]
               /\ UNCHANGED <<catalogs, toldOf, openCalls, turns, toolRuns>>
       /\ UNCHANGED <<declared, given, remoteLeft, fetched>>

-----------------------------------------------------------------------------
(* Answering calls, in either lane.                                        *)

ProcessWeb(e) ==
    LET calls == RunnableToolUses("web")
    IN /\ toolPasses[e].lane = "web" /\ toolPasses[e].at = "claimed"
       /\ toolPasses' = [toolPasses EXCEPT ![e] = [@ EXCEPT !.at = "calls", !.work = calls, !.to = [c \in calls |-> 0]]]
       /\ UNCHANGED <<declared, catalogs, turns, openCalls, items, given, remoteLeft, toldOf, toolRuns, fetched>>

\* A fetch goes out only for a URL the session's log gives.
WebFetchSource(c) == openCalls[c].target \in given

\* Whether the call leaves the platform at all, or is answered here.
Leaves(e, c) == IF toolPasses[e].lane = "mcp" THEN toolPasses[e].to[c] # 0 ELSE WebFetchSource(c)

Result(c, ok) == [call |-> c, ok |-> ok]

\* The next call of the pass, in log order: skipped when something answered
\* it since the pass read the log, answered here, or run.
RunTools(e) ==
    LET p == toolPasses[e]
        c == CHOOSE x \in p.work : \A y \in p.work : x =< y
        done == [p EXCEPT !.work = @ \ {c}]
    IN /\ p.at = "calls" /\ p.now = 0 /\ p.work # {}
       /\ \/ /\ openCalls[c].at = "answered"
             /\ toolPasses' = [toolPasses EXCEPT ![e] = done] /\ UNCHANGED <<toolRuns, fetched>>
          \/ /\ openCalls[c].at # "answered" /\ ~ Leaves(e, c)
             /\ toolPasses' = [toolPasses EXCEPT ![e] = [done EXCEPT !.out = @ \union {Result(c, FALSE)}]]
             /\ UNCHANGED <<toolRuns, fetched>>
          \/ /\ openCalls[c].at # "answered" /\ Leaves(e, c)
             /\ toolPasses' = [toolPasses EXCEPT ![e] = [done EXCEPT !.now = c]]
             /\ toolRuns' = [toolRuns EXCEPT ![c] = [@ EXCEPT !.ran = @ + 1, !.where = @ \union {p.to[c]},
                                                     !.excused = IF p.lost THEN @ + 1 ELSE @]]
             /\ fetched' = IF p.lane = "web" THEN fetched \union {openCalls[c].target} ELSE fetched
       /\ UNCHANGED <<declared, catalogs, turns, openCalls, items, given, remoteLeft, toldOf>>

\* The call returns: its answer, or its failure, is a result either way.
\* One answered meanwhile is dropped if the watch saw it.
RunTool(e, ok) ==
    LET p == toolPasses[e]
    IN /\ p.now # 0
       /\ \E kept \in {TRUE} \union {FALSE : c \in {d \in {p.now} : openCalls[d].at = "answered"}} :
             toolPasses' = [toolPasses EXCEPT ![e] = [p EXCEPT !.now = 0, !.out = IF kept THEN @ \union {Result(p.now, ok)} ELSE @]]
       /\ UNCHANGED <<declared, catalogs, turns, openCalls, items, given, remoteLeft, toldOf, toolRuns, fetched>>

\* The pass's clock, or a fault before the next call goes out, keeps what
\* was answered.
CutShort(e) ==
    /\ toolPasses[e].at = "calls" /\ toolPasses[e].now = 0 /\ toolPasses[e].out # {} /\ toolPasses[e].work # {}
    /\ toolPasses' = [toolPasses EXCEPT ![e].work = {}]
    /\ UNCHANGED <<declared, catalogs, turns, openCalls, items, given, remoteLeft, toldOf, toolRuns, fetched>>

\* Each run among these may have to be made again.
Excuse(cs) == toolRuns' = [c \in Calls |-> IF c \in cs THEN [toolRuns[c] EXCEPT !.excused = @ + 1] ELSE toolRuns[c]]

Faulted == remoteLeft.faults > 0 /\ remoteLeft' = [remoteLeft EXCEPT !.faults = @ - 1]

\* A stall cancels the call under way; what was answered before is kept, and
\* with nothing answered the item is left to its lease.
Stalled(e) ==
    LET p == toolPasses[e]
    IN /\ p.now # 0 /\ ~ p.lost /\ Faulted /\ Excuse({p.now})
       /\ IF p.out # {}
          THEN toolPasses' = [toolPasses EXCEPT ![e] = [p EXCEPT !.now = 0, !.work = {}]] /\ UNCHANGED items
          ELSE toolPasses' = Ended(e) /\ items' = [items EXCEPT ![p.lane] = "queued"]
       /\ UNCHANGED <<declared, catalogs, turns, openCalls, given, toldOf, fetched>>

\* Under the session's lock a result whose call is answered is dropped.
Kept(e) == {r \in toolPasses[e].out : openCalls[r.call].at # "answered"}

CommitResults(e) ==
    LET p == toolPasses[e]
        answered == {r.call : r \in Kept(e)}
    IN /\ p.at = "calls" /\ p.now = 0 /\ p.work = {} /\ ~ p.lost
       /\ toolPasses' = Ended(e)
       /\ Answer(answered)
       /\ given' = given \union UNION {Links(openCalls[r.call].target) : r \in {q \in Kept(e) : q.ok /\ p.lane = "web"}}
       /\ SettleDrain(Closed(openCalls, answered), p.lane)
       /\ UNCHANGED <<declared, catalogs, remoteLeft, toldOf, fetched>>

\* The lease runs out under the pass, which does not know it yet.
LosesLease(e) ==
    LET p == toolPasses[e]
    IN /\ p # NoPass /\ ~ p.lost /\ Faulted
       /\ toolPasses' = [toolPasses EXCEPT ![e].lost = TRUE]
       /\ items' = [items EXCEPT ![p.lane] = "queued"]
       /\ Excuse({p.now : x \in {p.now} \ {0}} \union {r.call : r \in p.out})
       /\ UNCHANGED <<declared, catalogs, turns, openCalls, given, toldOf, fetched>>

\* The keeper, the proof its settlement carries, or its process's end stops
\* a pass that lost its lease.
LostEnds(e) ==
    /\ toolPasses[e].lost /\ toolPasses' = Ended(e)
    /\ UNCHANGED <<declared, catalogs, turns, openCalls, items, given, remoteLeft, toldOf, toolRuns, fetched>>

RemoteInit ==
    /\ \E start \in ToolStarts :
          declared = start.declared /\ remoteLeft = start.left /\ given = start.given
    /\ catalogs = [t \in Threads |-> [s \in Servers |-> NoRow]]
    /\ turns = [t \in Threads |-> IF t = Primary THEN "turn" ELSE "idle"]
    /\ openCalls = [c \in Calls |-> NoCall]
    /\ items = [lane \in Lanes |-> "none"]
    /\ toolPasses = [e \in Slots |-> NoPass]
    /\ toldOf = [t \in Threads |-> [s \in Servers |-> 0]]
    /\ toolRuns = [c \in Calls |-> [ran |-> 0, excused |-> 0, where |-> {}, results |-> 0, relisted |-> FALSE]]
    /\ fetched = {}

RemoteNext ==
    \/ \E t \in Threads : SuspendForDiscovery(t) \/ \E c \in Calls : Turn(t, c)
    \/ \E named \in {Threads} \union {{t} : t \in Threads}, redirect \in BOOLEAN : Interrupt(named, redirect)
    \/ \E c \in Calls, allow \in BOOLEAN : Confirm(c, allow)
    \/ StartWorkCycle
    \/ \E s \in Servers, url \in Endpoints \union {0} : PatchServers(s, url)
    \/ \E e \in Slots :
          \/ \E lane \in Lanes : SessionForRun(e, lane)
          \/ ProcessMCP(e) \/ DiscoverServers(e) \/ SettleMCP(e)
          \/ ProcessWeb(e) \/ RunTools(e) \/ CutShort(e) \/ CommitResults(e)
          \/ \E ok \in BOOLEAN : RunTool(e, ok)
          \/ Stalled(e) \/ LosesLease(e) \/ LostEnds(e)

-----------------------------------------------------------------------------
\* A catalog row is for a server its thread declares, at the url it declares.
RowsAreDeclared == \A t \in Threads, s \in Servers : catalogs[t][s] # NoRow => catalogs[t][s].url = declared[t][s]

\* A verdict is announced once until its row is dropped, by a patch or a new
\* work cycle: not again by a later pass over the same row, and never
\* swallowed by a pass that only ran out of time before.
ToldOnce ==
    \A t \in Threads, s \in Servers :
       /\ toldOf[t][s] =< 1
       /\ catalogs[t][s].error = "verdict" => toldOf[t][s] = 1
       /\ catalogs[t][s].error \in {"late", "offwire"} => toldOf[t][s] = 0

\* A thread held for a listing, or for a call nothing gates, has a live item
\* working for it, and no thread waits on calls that are all answered.
NothingStranded ==
    /\ \A t \in Threads :
          /\ turns[t] = "suspended" => items["mcp"] # "none"
          /\ turns[t] = "waiting" => Unanswered(openCalls, t)
    /\ ExecClass(openCalls) = "mcp" => items["mcp"] # "none"
    /\ ExecClass(openCalls) = "web" => \E lane \in Lanes : items[lane] # "none"

\* A call is answered once, and runs a second time only when the first run's
\* pass stalled in it or lost its lease before it committed.
RunsOnce == \A c \in Calls : toolRuns[c].results =< 1 /\ toolRuns[c].ran =< 1 + toolRuns[c].excused

\* A call is run only at the url whose listing offered its tool, unless the
\* agent was patched under it and a discovery pass then listed the new url.
RunsWhereOffered ==
    \A c \in Calls : openCalls[c].lane = "mcp" /\ ~ toolRuns[c].relisted => toolRuns[c].where \subseteq {openCalls[c].from}

\* Only URLs the session's log gives are fetched.
FetchesAreGiven == fetched \subseteq given

\* Discovery and the calls of MCP and web tools settle as the session stands
\* when they commit, through patches, interrupts, stalls and lost leases
\* (executor/mcpwork.go:940, executor/mcpexec.go:362, executor/drain.go:162):
\* rows are declared, failures told once, nothing is stranded, no call runs
\* twice but for a fault, or anywhere but where its tool was offered.
RemoteToolsSettle == RowsAreDeclared /\ ToldOnce /\ NothingStranded /\ RunsOnce /\ RunsWhereOffered /\ FetchesAreGiven

=============================================================================
