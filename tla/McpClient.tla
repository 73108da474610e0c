---------------------------- MODULE McpClient -----------------------------
(***************************************************************************)
(* One connection to an MCP server (internal/mcp): the handshake over       *)
(* Streamable HTTP and its fallback to the deprecated HTTP+SSE transport,   *)
(* the budget every response of the connection draws on, the watch that     *)
(* tells a refused credential and a server's own answer from a connection   *)
(* that failed, and a listing followed page by page.                        *)
(*                                                                         *)
(* The server is free: any status, any size, any page.  The client library  *)
(* is external: a handshake is one or two POSTs, and the one that failed    *)
(* last is the error it reports.                                            *)
(***************************************************************************)
EXTENDS Integers, Sequences, FiniteSets, SequencesExt

CONSTANTS
    Limit,          \* MaxResponseBytes, for the whole connection
    HeaderBytes,    \* what one response's header is charged
    SniffBytes,     \* legacySniffBytes
    ReadBuffer,     \* one read's buffer
    MaxToolPages,
    Own,            \* the origin the connection was made for
    Origins,        \* the origins a legacy stream may name
    Plans           \* the servers an instance explores

VARIABLES
    link,       \* where the connection is, over which transport
    budget,     \* bytes the connection may still read
    bodies,     \* the call's response and the legacy stream
    watch,      \* authWatch's status, legacyWatch's settled and signal
    asked,      \* the operation and, for a listing, its pages so far
    plan,       \* what this server may do
    sent      \* history: what was really sent, offered and answered

cvars == <<link, budget, bodies, watch, asked, plan, sent>>

NoBody == [at |-> "none", left |-> 0, room |-> 0, shape |-> "none"]

Lesser(a, b) == IF a < b THEN a ELSE b

-----------------------------------------------------------------------------
(* Origins.                                                                *)

\* A host's port as net/http keeps it: a trailing colon is no port.
TrimEmptyPort(o) == IF o.port = ":" THEN "" ELSE o.port

\* By canonical name and written port, the zone byte for byte.
SameHost(a, b) == a.name = b.name /\ TrimEmptyPort(a) = TrimEmptyPort(b) /\ a.zone = b.zone

SameOrigin(a, b) == a.scheme = b.scheme /\ SameHost(a, b)

-----------------------------------------------------------------------------
(* The transports every request passes, outermost first.                   *)

\* A response is its status (0: none came), its size and what it carries.
Answers == {a \in plan.answers : a.status = 0 => a.size = 0}

\* Headers draw on the budget as bodies do; the part the limit lets through.
HeadRefused(a) == a.status # 0 /\ HeaderBytes > budget

HeadCharge(a) == IF a.status = 0 THEN 0 ELSE Lesser(HeaderBytes, budget)

Judged(method) == method = "POST" /\ ~ watch.settled

\* A refused POST of the three statuses has its body read to be judged, and
\* that reading is paid for like any other.
Sniffed(method, a) ==
    IF Judged(method) /\ a.status \in {400, 404, 405} /\ ~ HeadRefused(a)
    THEN Lesser(Lesser(a.size, SniffBytes + 1), budget - HeadCharge(a)) ELSE 0

\* Read whole, and no JSON-RPC error: the sign of an older server.
NotJSONRPCError(a) ==
    /\ a.status \in {400, 404, 405} /\ ~ HeadRefused(a)
    /\ a.size =< SniffBytes /\ a.size =< budget - HeadCharge(a)
    /\ a.shape # "rpcerror"

\* The latest POST's answer replaces the one before it; a success settles it.
LegacyWatch(method, a) ==
    IF Judged(method)
    THEN [watch EXCEPT !.settled = a.status = 200 /\ ~ HeadRefused(a), !.signal = NotJSONRPCError(a)]
    ELSE watch

\* Innermost: the status of the latest exchange, a teardown's excepted.
AuthWatchEvery(method, a, seen) == [seen EXCEPT !.status = a.status]

AuthWatch(method, a, seen) == IF method = "DELETE" THEN seen ELSE [seen EXCEPT !.status = a.status]

Accepted(a) == a.status = 200 /\ ~ HeadRefused(a)

\* One exchange.  Only an accepted response's body is read by the library.
RoundTrip(method, slot, to, a) ==
    /\ budget' = budget - HeadCharge(a) - Sniffed(method, a)
    /\ watch' = AuthWatch(method, a, LegacyWatch(method, a))
    /\ bodies' = IF Accepted(a) /\ method # "DELETE" /\ slot # "none"
                 THEN [bodies EXCEPT ![slot] = [NoBody EXCEPT !.at = "idle", !.left = a.size, !.shape = a.shape]]
                 ELSE bodies
    /\ sent' = [sent EXCEPT
          !.sentTo = @ \union {to},
          !.last = IF method = "DELETE" THEN @ ELSE a,
          !.posts = IF method = "POST" /\ link.transport = "streamable" /\ link.at = "streamable" THEN Append(@, a) ELSE @,
          !.charged = @ + HeadCharge(a) + Sniffed(method, a),
          !.over = @ \/ HeadRefused(a),
          !.offered = @ + (IF a.status = 0 THEN 0 ELSE HeaderBytes)
                        + (IF Accepted(a) /\ slot # "none" THEN a.size ELSE Sniffed(method, a))]

-----------------------------------------------------------------------------
(* Reading a body against the shared budget.                               *)

\* A read draws its buffer first; with nothing left it asks for one byte
\* more, to tell a body that ends on the limit from one that passes it.
Draw(slot) ==
    LET b == bodies[slot]
        room == Lesser(ReadBuffer, budget)
    IN /\ b.at = "idle"
       /\ budget' = budget - room
       /\ bodies' = [bodies EXCEPT ![slot] = [b EXCEPT !.at = IF room = 0 THEN "probing" ELSE "reading", !.room = room]]
       /\ UNCHANGED <<link, watch, asked, plan, sent>>

\* What arrived is kept, the rest of the buffer given back.
Filled(slot, n) ==
    LET b == bodies[slot]
    IN /\ b.at = "reading" /\ n =< Lesser(b.room, b.left)
       /\ n > 0
       /\ budget' = budget + b.room - n
       /\ bodies' = [bodies EXCEPT ![slot] = [b EXCEPT !.room = 0, !.left = @ - n, !.at = IF b.left = n THEN "whole" ELSE "idle"]]
       /\ sent' = [sent EXCEPT !.charged = @ + n]
       /\ UNCHANGED <<link, watch, asked, plan>>

\* The end of a body gives the whole buffer back.
Ended(slot) ==
    LET b == bodies[slot]
    IN /\ slot = "call" /\ b.at \in {"reading", "probing"} /\ b.left = 0
       /\ budget' = budget + b.room
       /\ bodies' = [bodies EXCEPT ![slot] = [b EXCEPT !.room = 0, !.at = "whole"]]
       /\ UNCHANGED <<link, watch, asked, plan, sent>>

Overrun(slot) ==
    LET b == bodies[slot]
    IN /\ b.at = "probing" /\ b.left > 0
       /\ bodies' = [bodies EXCEPT ![slot].at = "refused"]
       /\ sent' = [sent EXCEPT !.over = TRUE]
       /\ UNCHANGED <<link, budget, watch, asked, plan>>

Read(slot) == Draw(slot) \/ (\E n \in 1 .. ReadBuffer : Filled(slot, n)) \/ Ended(slot) \/ Overrun(slot)

\* The legacy stream stays open and carries whatever the server says next.
Push(size, shape) ==
    LET b == bodies["stream"]
    IN /\ link.at \in {"endpoint", "greeted", "asking"} /\ link.transport = "legacy"
       /\ b.left = 0 /\ b.at \in {"idle", "reading", "probing"} /\ size > 0
       /\ shape = "endpoint" <=> link.at = "endpoint"
       /\ bodies' = [bodies EXCEPT !["stream"] = [b EXCEPT !.left = size, !.shape = shape]]
       /\ sent' = [sent EXCEPT !.offered = @ + size]
       /\ UNCHANGED <<link, budget, watch, asked, plan>>

-----------------------------------------------------------------------------
(* Connect.                                                                *)

Refused == watch.status = 401

Delivered == watch.status = 200

\* What the library's error is: its type is the JSON-RPC one for a server's
\* refusal and for every response that never came.
Answered(typed, over) == Delivered /\ typed /\ ~ over

Kind(op, typed, over) ==
    IF Refused THEN "auth" ELSE IF op = "call" /\ Answered(typed, over) THEN "answered" ELSE "connection"

Finish(kind) == link' = [link EXCEPT !.at = "done", !.outcome = kind]

\* A handshake POST: the probe, then the older initialize when it fails.
Shake(a) ==
    /\ link.at = "streamable" /\ link.tries < 2
    /\ RoundTrip("POST", "call", Own, a)
    /\ link' = [link EXCEPT !.tries = @ + 1, !.at = IF Accepted(a) THEN "shaking" ELSE "streamable"]
    /\ UNCHANGED <<asked, plan>>

\* A session in hand ends the question of the transport (settle).
Shaken ==
    LET b == bodies["call"]
        ok == b.at = "whole" /\ b.shape = "result"
    IN /\ link.at = "shaking" /\ b.at \in {"whole", "refused"}
       /\ link' = [link EXCEPT !.at = IF ok THEN "open" ELSE "streamable"]
       /\ watch' = [watch EXCEPT !.settled = @ \/ ok]
       /\ bodies' = [bodies EXCEPT !["call"] = NoBody]
       /\ UNCHANGED <<budget, asked, plan, sent>>

\* The attempt failed: the captured connection is closed, with a DELETE when
\* the server had named a session, before the error is marked.
CloseFailed(a) ==
    /\ link.at = "streamable" /\ link.tries > 0
    /\ link' = [link EXCEPT !.at = "failed"]
    /\ \/ a.status = 0 /\ UNCHANGED <<budget, bodies, watch, sent>>
       \/ RoundTrip("DELETE", "none", Own, a)
    /\ UNCHANGED <<asked, plan>>

\* The fallback needs the signal and a context that has not ended.
FallBack(ended) ==
    /\ link.at = "failed"
    /\ watch' = [watch EXCEPT !.settled = TRUE]
    /\ IF watch.signal /\ ~ ended
       THEN link' = [link EXCEPT !.at = "stream", !.transport = "legacy"]
       ELSE Finish(Kind("connect", TRUE, FALSE))
    /\ UNCHANGED <<budget, bodies, asked, plan, sent>>

OpenStream(a) ==
    /\ link.at = "stream"
    /\ RoundTrip("GET", "stream", Own, [a EXCEPT !.size = 0])
    /\ IF Accepted(a) THEN link' = [link EXCEPT !.at = "endpoint"]
       ELSE link' = [link EXCEPT !.at = "broken"]
    /\ UNCHANGED <<asked, plan>>

\* A failed legacy attempt is marked by its own latest exchange.
Broken ==
    /\ link.at = "broken" \/ (link.at \in {"endpoint", "greeted"} /\ bodies["stream"].at = "refused")
    /\ Finish(Kind("connect", TRUE, FALSE))
    /\ UNCHANGED <<budget, bodies, watch, asked, plan, sent>>

\* A whole event was read off the stream; the next read may start.
StreamRead == bodies["stream"].at = "whole"

Rewound == bodies' = [bodies EXCEPT !["stream"] = [@ EXCEPT !.at = "idle", !.shape = "none"]]

\* The stream's first event names where messages go.  Nothing is sent
\* outside the server's origin, and server/discover is never sent here.
Initialize(to, a) ==
    /\ link.at = "endpoint" /\ StreamRead
    /\ IF ~ SameOrigin(to, Own)
       THEN Rewound /\ link' = [link EXCEPT !.at = "broken"] /\ UNCHANGED <<budget, watch, sent>>
       ELSE /\ budget' = budget - HeadCharge(a) /\ watch' = AuthWatch("POST", a, watch)
            /\ Rewound
            /\ sent' = [sent EXCEPT !.sentTo = @ \union {to}, !.last = a, !.charged = @ + HeadCharge(a),
                                        !.over = @ \/ HeadRefused(a), !.offered = @ + (IF a.status = 0 THEN 0 ELSE HeaderBytes)]
            /\ link' = [link EXCEPT !.at = IF Accepted(a) THEN "greeted" ELSE "broken"]
    /\ UNCHANGED <<asked, plan>>

Greeted ==
    /\ link.at = "greeted" /\ StreamRead /\ Rewound
    /\ IF bodies["stream"].shape = "result" THEN link' = [link EXCEPT !.at = "open"] ELSE Finish(Kind("connect", TRUE, FALSE))
    /\ UNCHANGED <<budget, watch, asked, plan, sent>>

-----------------------------------------------------------------------------
(* One operation on an open connection.                                    *)

\* Each operation is judged on its own exchanges.
Begin(op) ==
    /\ link.at = "open"
    /\ link' = [link EXCEPT !.at = "asks"]
    /\ asked' = [asked EXCEPT !.op = op]
    /\ watch' = [watch EXCEPT !.status = 0]
    /\ sent' = [sent EXCEPT !.last = [status |-> 0, size |-> 0, shape |-> "none"]]
    /\ UNCHANGED <<budget, bodies, plan>>

\* The request.  On the legacy transport its answer comes by the stream.
Ask(a) ==
    /\ link.at = "asks"
    /\ RoundTrip("POST", IF link.transport = "legacy" THEN "none" ELSE "call", Own, a)
    /\ IF Accepted(a) THEN link' = [link EXCEPT !.at = "asking"]
       ELSE link' = [link EXCEPT !.at = "unanswered"]
    /\ UNCHANGED <<asked, plan>>

Unanswered ==
    /\ link.at = "unanswered"
    /\ Finish(Kind(asked.op, TRUE, sent.over))
    /\ UNCHANGED <<budget, bodies, watch, asked, plan, sent>>

Slot == IF link.transport = "legacy" THEN "stream" ELSE "call"

\* usableName and inputSchema: an entry either refuses is no tool.
UsableName(tool) == tool.name # "bad"

InputSchema(tool) == tool.object

\* The first entry that is a tool takes its name.
Take(names, tool) ==
    IF UsableName(tool) /\ InputSchema(tool) /\ tool.name \notin {names[i] : i \in DOMAIN names}
    THEN Append(names, tool.name) ELSE names

ListTools(page, next) ==
    LET names == FoldLeft(Take, asked.names, page)
    IN /\ asked' = [asked EXCEPT !.names = names, !.pages = @ + 1, !.cursors = @ \union ({next} \ {""}), !.raw = @ \o page]
       /\ IF next = "" THEN Finish("listed")
          ELSE IF next \in asked.cursors \/ asked.pages + 1 = MaxToolPages THEN Finish("connection")
          ELSE link' = [link EXCEPT !.at = "asks"]

\* CallTool's answer: a result, the server's own refusal, or a failure.
Reply ==
    LET b == bodies[Slot]
    IN /\ link.at = "asking" /\ b.at \in {"whole", "refused"}
       /\ bodies' = [bodies EXCEPT ![Slot] = IF Slot = "stream" THEN [NoBody EXCEPT !.at = "idle"] ELSE NoBody]
       /\ IF b.at = "whole" /\ b.shape = "result"
          THEN IF asked.op = "list"
               THEN \E page \in plan.pages, next \in plan.cursors : ListTools(page, next)
               ELSE Finish("result") /\ UNCHANGED asked
          ELSE Finish(Kind(asked.op, b.shape = "rpcerror", b.at = "refused")) /\ UNCHANGED asked
       /\ sent' = [sent EXCEPT !.served = b.at = "whole"]
       /\ UNCHANGED <<budget, watch, plan>>

-----------------------------------------------------------------------------
ClientInit ==
    /\ plan \in Plans
    /\ link = [at |-> "streamable", transport |-> "streamable", tries |-> 0, outcome |-> "none"]
    /\ budget = Limit
    /\ bodies = [s \in {"call", "stream"} |-> NoBody]
    /\ watch = [status |-> 0, settled |-> FALSE, signal |-> FALSE]
    /\ asked = [op |-> "connect", names |-> <<>>, pages |-> 0, cursors |-> {}, raw |-> <<>>]
    /\ sent = [sentTo |-> {}, last |-> [status |-> 0, size |-> 0, shape |-> "none"], posts |-> <<>>,
                 charged |-> 0, offered |-> 0, over |-> FALSE, served |-> FALSE]

ClientNext ==
    \/ \E a \in Answers : Shake(a) \/ CloseFailed(a) \/ OpenStream(a) \/ Ask(a)
    \/ \E a \in Answers, to \in Origins : Initialize(to, a)
    \/ \E slot \in {"call", "stream"} : Read(slot)
    \/ \E a \in Answers : Push(a.size, a.shape) \/ Push(a.size, "endpoint")
    \/ \E ended \in BOOLEAN : FallBack(ended)
    \/ \E op \in plan.ops : Begin(op)
    \/ Shaken \/ Broken \/ Greeted \/ Unanswered \/ Reply

ClientSpec == ClientInit /\ [][ClientNext]_cvars

-----------------------------------------------------------------------------
(* Properties.                                                             *)

\* What the connection has read, holds reserved and may still read add up to
\* the limit, whatever two bodies do at once.
ReadsAreWithinLimit ==
    /\ sent.charged + budget + bodies["call"].room + bodies["stream"].room = Limit
    /\ budget >= 0

\* A response is refused for its size only when the server offered more than
\* the limit, so a body that ends on it is read whole; the legacy stream,
\* whose waiting read holds a buffer, may cost a POST its last bytes.
RefusedIsOver == sent.over => sent.offered > Limit \/ link.transport = "legacy"

\* The older transport is spoken only to a server that never took a POST and
\* whose last answer was one of the three refusals and no JSON-RPC error.
FallbackIsSignalled ==
    link.transport = "legacy" =>
        LET last == sent.posts[Len(sent.posts)]
        IN /\ last.status \in {400, 404, 405} /\ last.shape # "rpcerror"
           /\ \A i \in DOMAIN sent.posts : sent.posts[i].status # 200

\* Nothing is sent outside the server's origin, wherever the stream says
\* messages go: scheme, host, port and zone are the server's.
StaysAtHome ==
    \A o \in sent.sentTo : o.scheme = Own.scheme /\ o.name = Own.name /\ o.zone = Own.zone /\ (o.port = Own.port \/ {o.port, Own.port} = {"", ":"})

\* A failure is the credential's exactly when the operation's last exchange,
\* its teardown aside, was a 401; and a call the model is told the server
\* refused is one the server did answer, within the limit.
FailuresAreNamed ==
    /\ link.outcome \notin {"none", "result", "listed"} =>
          ((link.outcome = "auth") <=> (sent.last.status = 401))
    /\ link.outcome = "answered" => sent.served /\ sent.last.status = 200

\* A listing names each tool once, in the order the server first gave it, and
\* leaves out no tool of any page.
ListingIsWhole ==
    LET tools == {i \in DOMAIN asked.raw : UsableName(asked.raw[i]) /\ InputSchema(asked.raw[i])}
        First(name) == CHOOSE i \in tools : asked.raw[i].name = name /\ \A j \in tools : asked.raw[j].name = name => i =< j
    IN /\ {asked.names[k] : k \in DOMAIN asked.names} = {asked.raw[i].name : i \in tools}
       /\ \A k, m \in DOMAIN asked.names : k < m => First(asked.names[k]) < First(asked.names[m])
       /\ asked.pages =< MaxToolPages

\* A connection reads no more than its limit, leaves its transport and its
\* origin only as allowed, names its failures by what the server did, and
\* lists what the server offers (Connect, limitedBody.Read, legacyWatch,
\* authWatch, listTools, CallTool).
ConnectionsAreTrue ==
    ReadsAreWithinLimit /\ RefusedIsOver /\ FallbackIsSignalled /\ StaysAtHome /\ FailuresAreNamed /\ ListingIsWhole
=============================================================================
