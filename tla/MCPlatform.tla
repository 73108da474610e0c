---------------------------- MODULE MCPlatform ----------------------------
(***************************************************************************)
(* Instances of the platform's smaller components.  A behaviour is one of  *)
(* a single component, part, chosen at its start: the components share no  *)
(* state, and the state space is the sum of theirs.  The slots hold the    *)
(* variables of the component in play, each INSTANCE says which in which.  *)
(***************************************************************************)
EXTENDS Integers, Sequences, FiniteSets, TLC

CONSTANTS
    Parts,
    FileIds, FileSessions, FileRequests, Drainers, MaxFileRequests,
    Deadline, ProbeLead, OverrunSlop, KillGrace, Latency, Horizon,
    Executors, Ids, MaxFaults,
    MaxMember, MaxMeddles,
    LifeExecutors, MaxWrites, MaxLifeFaults,
    MaxAttempts, MaxEvents, MaxHeld,
    Providers, Credentials, Deployments, AliasNames, Keys, Admins, Callers, Kinds,
    MaxReloads,
    AgentShas, ClientShas, Invalid, MaxMemoriesPerStore, MaxIds,
    MinutesPerHour, HoursPerDay, DaysPerWeek, SearchYears, AmbiguityMargin,
    ProbeDistance, Counts, FirstAfter, LastAfter, WindowLength,
    Replicas, Runner, CatchupWindow, LockWait, StartTime, EndTime,
    MaxDeploymentEdits, MaxFireFaults,
    RowIds, Internal, Unnamed, MaxTableChanges,
    Dreams, Runners, Placements, StageCount, StartAttempts,
    AgentIds, Tools, Self, Keep, Requests, MaxVersions,
    MountFiles, MountStores, MemoryNameMax,
    Numeric, Managers, SecretIds, MaxTokens, MaxChanges,
    VaultIds, CredIds, VaultCredentialsMax, VaultCallers, MaxFresh,
    SkillIds, Imported, Titles, Uploaders, MaxVersion,
    Primary, Endpoints, Malformed,
    Limit, HeaderBytes, SniffBytes, ReadBuffer, MaxToolPages,
    MaxTools, MaxServers, MaxModelToolName, MaxMCPToolBytes, MaxCatalogTools,
    MaxOutputBytes, BlockOverhead, Secret

VARIABLES
    part,
    slot1, slot2, slot3, slot4, slot5, slot6, slot7, slot8, slot9, slot10, slot11,
    slot12, slot13, slot14, slot15

Files == INSTANCE FileObjects WITH
    fileRows <- slot1, fileTx <- slot2, begun <- slot3, fileSess <- slot4,
    lapsed <- slot5, objects <- slot6, owed <- slot7, due <- slot8, drain <- slot9

Exec == INSTANCE ExecDeadline WITH
    job <- slot1, now <- slot2, cmd <- slot3, dog <- slot4, mark <- slot5,
    record <- slot6, stream <- slot7, probe <- slot8, exec <- slot9,
    blind <- slot10

Gate == INSTANCE SandboxGate WITH
    host <- slot1, gated <- slot2, box <- slot3, gate <- slot4, liveToken <- slot5,
    at <- slot6, lockedBy <- slot7, handle <- slot8, faults <- slot9

Transfer == INSTANCE SandboxFiles WITH
    write <- slot1, dir <- slot2, target <- slot3, temp <- slot4, list <- slot5,
    script <- slot6, step <- slot7, outcome <- slot8, landed <- slot9,
    broken <- slot10, meddles <- slot11, reader <- slot12

Life == INSTANCE SandboxLife WITH
    sess <- slot1, aged <- slot2, item <- slot3, sbox <- slot4, truth <- slot5,
    writes <- slot6, marker <- slot7, blobAt <- slot8, blobOwed <- slot9,
    run <- slot10, reap <- slot11, spool <- slot12, lock <- slot13,
    orphaned <- slot14, lifeFaults <- slot15

\* Every pair of protocols a call can cross, on one attempt; and the retry
\* loop over two upstreams of which one may refuse the request's shape.
GatewayCall(proto, resp, up) ==
    [proto |-> proto, resp |-> resp, attempts |-> <<1>>, protocol |-> <<up, "openai">>,
     stream |-> TRUE, valid |-> TRUE, refused |-> {}, carries |-> FALSE]
GatewayCalls ==
    {GatewayCall("anthropic", r, u) : r \in BOOLEAN, u \in {"anthropic", "openai", "gemini"}}
      \cup {GatewayCall("openai", FALSE, "openai")}
      \cup {[GatewayCall("anthropic", FALSE, "anthropic") EXCEPT
               !.attempts = <<1, 2, 1>>, !.carries = TRUE, !.valid = v, !.refused = f,
               !.stream = FALSE] : v \in BOOLEAN, f \in SUBSET {"openai"}}

Gateway == INSTANCE GatewayStream WITH
    Calls <- GatewayCalls, gcall <- slot1, gphase <- slot2, gloop <- slot3,
    gconv <- slot4, gresp <- slot5, gout <- slot6, gcaller <- slot7

Catalog == INSTANCE GatewayCatalog WITH
    cfgdb <- slot1, cfgtx <- slot2, catalog <- slot3, opened <- slot4,
    inflight <- slot5

\* One memory above another's path, and two that stand alone.
MemPaths == <<"a", "ab", "c">>
MemAbove == {<<"a", "ab">>}
MemSeeds == {[id |-> 1, path |-> "a", sha |-> 1], [id |-> 2, path |-> "c", sha |-> 1]}
MemMounts == {[kind |-> "executor", access |-> "read_write"],
              [kind |-> "worker", access |-> "read_write"],
              [kind |-> "worker", access |-> "read_only"]}
\* Edits of both sides with a fault, or the agent's alone.
MemBounds == {[agent |-> 1, client |-> 1, faults |-> 1], [agent |-> 2, client |-> 0, faults |-> 0]}

Memory == INSTANCE MemorySync WITH
    Above <- MemAbove, PathSeq <- MemPaths, Seeds <- MemSeeds, Mounts <- MemMounts,
    MemBudgets <- MemBounds, mount <- slot1, store <- slot2, tree <- slot3,
    sync <- slot4, memhist <- slot5, memleft <- slot6

\* A year of two short months; days of four hours of two minutes.
CronMonths == <<3, 2>>
CronStar == {[star |-> TRUE, lo |-> 0, hi |-> 0, step |-> 0]}
CronEvery(k) == {[star |-> TRUE, lo |-> 0, hi |-> -1, step |-> k]}
CronAt(low, high, every) == {[star |-> FALSE, lo |-> low, hi |-> high, step |-> every]}
CronHourly == <<CronAt(0, -1, 0), CronStar, CronStar, CronStar, CronStar>>
CronOddHours == <<CronAt(1, -1, 0), CronEvery(2), CronStar, CronStar, CronStar>>
CronExpressions ==
    {CronHourly, CronOddHours,
     <<CronStar, CronAt(1, -1, 0) \union CronAt(3, -1, 0), CronStar, CronAt(1, -1, 0), CronAt(1, 2, 0)>>,
     <<CronAt(0, -1, 0), CronAt(1, -1, 2), CronAt(2, -1, 0), CronStar, CronAt(3, -1, 0)>>,
     <<CronStar, CronAt(2, 1, 0), CronStar, CronStar, CronStar>>}
\* Zones that never change, fall back by one hour and by two, spring forward.
CronShift(from, a, b) == [u \in -60 .. 200 |-> IF u < from THEN a ELSE b]
CronZones == {CronShift(0, 0, 0), CronShift(28, 2, 0), CronShift(27, 4, 0), CronShift(29, -2, 0), CronShift(26, -1, 1)}

Crontab == INSTANCE Cron WITH
    MonthDays <- CronMonths, Expressions <- CronExpressions, Zones <- CronZones,
    query <- slot1

\* Two schedules over the hour that a fall-back repeats.
DeployOccurs ==
    LET instants(e) == Crontab!Occurrences(Crontab!Parse(e), CronShift(23, 2, 0), 19, 27)
    IN  [hourly |-> instants(CronHourly), odd |-> instants(CronOddHours)]

Deploy == INSTANCE Deployments WITH
    Occurs <- DeployOccurs, clock <- slot1, deployment <- slot2, steady <- slot3,
    runs <- slot4, txs <- slot5, depleft <- slot6

\* Two rows share a created_at; at depth 1 two memories share a directory.
ListAt == <<1, 2, 2, 3>>
ListGroups == <<"a", "a", "b", "a">>
ListRolled == <<0, 3, 3, 0>>
ListRequest(many, all, name, held, low, up) ==
    [limit |-> many, archived |-> all, group |-> name, status |-> held, since |-> low, ascending |-> up]
ListRequests ==
    UNION {{ListRequest(many, FALSE, Unnamed, "any", 0, FALSE), ListRequest(many, TRUE, Unnamed, "any", 2, TRUE),
            ListRequest(many, FALSE, "a", "flagged", 0, FALSE), ListRequest(many, FALSE, "a", "unflagged", 1, TRUE)} :
           many \in {1, 2}}
ListTables ==
    {<<"live", "live", "live", "absent">>, <<"live", "absent", "live", "live">>, <<"archived", "live", "live", "flagged">>}
ListEndpoints ==
    {"agents", "agent versions", "environments", "vaults", "vault credentials", "memory stores", "memory versions",
     "memories", "deployments", "deployment runs", "dreams", "skills", "skill versions", "service accounts", "work",
     "threads", "sessions", "events", "files", "files by id", "members", "session resources", "environment keys"}

Lists == INSTANCE Listings WITH
    CreatedAt <- ListAt, Group <- ListGroups, Rolled <- ListRolled,
    Requests <- ListRequests, Tables <- ListTables, Endpoints <- ListEndpoints,
    listing <- slot1, table <- slot2, leg <- slot3

Dream == INSTANCE Dreams WITH
    dreams <- slot1, runners <- slot2, inputs <- slot3

\* Two agents: one that coordinates the other, and one that names it back.
AgentRosters ==
    [a \in AgentIds |-> {{}, IF a = 1 THEN {[id |-> 2, version |-> 0], [id |-> Self, version |-> 0]}
                             ELSE {[id |-> 1, version |-> 0]}}]

\* The second agent may be given the first one's name.
AgentSpecs ==
    [a \in AgentIds |-> {[name |-> n, tools |-> "own"] : n \in IF a = 1 THEN {"one"} ELSE {"one", "two"}}]

Agt == INSTANCE Agents WITH
    Rosters <- AgentRosters, Specs <- AgentSpecs, versions <- slot1,
    retired <- slot2, pins <- slot3, requests <- slot4, session <- slot5

\* Two stores whose names have one slug, and a third named as the first
\* suffix would name the second.
MountSlugs == [s \in MountStores |-> IF s = "s3" THEN <<"notes", "-2">> ELSE <<"notes">>]

MountSuffixes == <<"-2", "-3", "-4">>

RawPath(absolute, segments) == [abs |-> absolute, segs |-> segments]

MountSegments == {"..", ".", "mnt", "session", "uploads", "workspace", "x"}

\* Every raw path of up to three segments, and the longer ones under the root.
MountPaths ==
    {RawPath(FALSE, <<>>)} \union
    {RawPath(absolute, segments) : absolute \in BOOLEAN,
        segments \in UNION {[1 .. n -> MountSegments] : n \in 1 .. 3}
                 \union {<<"mnt", "session", "uploads">> \o s : s \in [1 .. 2 -> MountSegments]}}

FileAt(name, segments) == [kind |-> "file", name |-> name, path |-> RawPath(FALSE, segments)]
RepoAt(name, segments) == [kind |-> "repo", name |-> name, path |-> RawPath(TRUE, segments)]
StoreAt(name) == [kind |-> "memory", name |-> name, path |-> RawPath(FALSE, <<>>)]

MountRequests ==
    {<<StoreAt("s1"), StoreAt("s2"), StoreAt("s3")>>,
     <<StoreAt("s3"), StoreAt("s2"), StoreAt("s1")>>,
     <<RepoAt("r", <<>>), RepoAt("q", <<"workspace", "r", "sub">>)>>,
     <<RepoAt("r", <<>>), RepoAt("q", <<"x">>), FileAt("f", <<>>)>>,
     <<FileAt("f", <<"x">>), FileAt("g", <<"uploads", "x">>)>>,
     <<FileAt("f", <<"x">>), RepoAt("r", <<"x">>)>>}

MountAdditions == {FileAt("f", <<"x">>), FileAt("g", <<"uploads", "x">>), FileAt("g", <<"..", "x">>)}

Mnt == INSTANCE Mounts WITH
    SlugOf <- MountSlugs, SuffixTries <- MountSuffixes,
    CreateRequests <- MountRequests, AddRequests <- MountAdditions,
    PathProbes <- MountPaths, world <- slot1, creation <- slot2, made <- slot3,
    rawPath <- slot4

HostLabels == [l \in {"", "*", "9", "a", "A", "b", "org", "reg"} |-> IF l = "A" THEN "a" ELSE l]

HostRegistries == {<<"reg", "org">>}

\* Every name of one or two labels, and some of three.
HostNames ==
    UNION {[1 .. n -> {"a", "b", "org", "reg"}] : n \in 1 .. 2} \union {<<"b", "a", "org">>, <<"a", "reg", "org">>}

HostAddresses ==
    [n \in HostNames \union {<<"9", "9", "9", "9">>} |-> IF n \in {<<"b">>, <<"9", "9", "9", "9">>} THEN "reserved" ELSE "public"]

SecretShapes ==
    <<[name |-> "key", hosts |-> {<<"*", "a", "org">>, <<"A", "org">>}, anywhere |-> FALSE, places |-> {"header"}],
      [name |-> "key", hosts |-> {<<"reg", "org">>, <<"*", "org">>}, anywhere |-> FALSE, places |-> {"header", "body"}]>>

ServersOfAgent == {[scheme |-> "https", host |-> <<"A", "org">>, port |-> 443]}

ServersOfChild ==
    {[scheme |-> "https", host |-> <<"*", "org">>, port |-> 443],
     [scheme |-> "http", host |-> <<"b">>, port |-> 80],
     [scheme |-> "http", host |-> <<"9", "9", "9", "9">>, port |-> 80],
     [scheme |-> "ftp", host |-> <<"reg", "org">>, port |-> 80]}

ConfigOf(kind, networking, filled, cleared) == [kind |-> kind, net |-> networking, fill |-> filled, clear |-> cleared]

LimitedTo(entries, servers, packages) == {[type |-> "limited", hosts |-> entries, mcp |-> servers, pkgs |-> packages]}

EnvironmentConfigs ==
    {ConfigOf("self_hosted", {}, {}, {}),
     ConfigOf("cloud", {}, {"pip"}, {}),
     ConfigOf("cloud", LimitedTo({}, "keep", "no"), {}, {"pip"}),
     ConfigOf("cloud", LimitedTo({{<<"*", "a", "org">>, <<"b">>}}, "yes", "keep"), {}, {}),
     ConfigOf("cloud", LimitedTo({{<<"*", "org">>}}, "keep", "yes"), {}, {}),
     ConfigOf("cloud", LimitedTo({{<<"9", "9">>}}, "keep", "yes"), {}, {}),
     ConfigOf("cloud", LimitedTo({{}}, "yes", "yes"), {"pip"}, {})}

Asked(way, proxyHost, gatePort, headers, contents, oversized) ==
    [method |-> way, host |-> proxyHost, port |-> gatePort, header |-> headers, body |-> contents, large |-> oversized]

ProxyRequests ==
    {Asked("CONNECT", <<"A", "org", "">>, 443, {}, {}, FALSE),
     Asked("CONNECT", <<"reg", "org">>, 443, {}, {}, FALSE),
     Asked("CONNECT", <<"b">>, 80, {}, {}, FALSE),
     Asked("GET", <<"b", "a", "org">>, 80, {"key"}, {}, FALSE),
     Asked("POST", <<"a", "org">>, 80, {}, {"key"}, FALSE),
     Asked("POST", <<"a", "org">>, 80, {}, {"key"}, TRUE),
     Asked("POST", <<"">>, 80, {}, {"key"}, FALSE)}

FirewallTables ==
    LET good == <<"loopback accept", "gate accept", "drop">>
        jump == <<"MAP-GATE-EGRESS">>
    IN {[chain |-> good, output |-> jump],
        [chain |-> good, output |-> <<"accept", "MAP-GATE-EGRESS">>],
        [chain |-> <<"loopback accept", "accept", "drop">>, output |-> jump]}

Egr == INSTANCE Egress WITH
    Folded <- HostLabels, Registries <- HostRegistries,
    SecretShape <- SecretShapes, AgentServers <- ServersOfAgent,
    ChildServers <- ServersOfChild, ConfigRequests <- EnvironmentConfigs,
    EgressRequests <- ProxyRequests, AddressOf <- HostAddresses,
    Names <- HostNames, Tables <- FirewallTables, netEnv <- slot1, owner <- slot2,
    secretRows <- slot3, gateTokens <- slot4, proxies <- slot5, notices <- slot6,
    changes <- slot7, behind <- slot8

VaultShapes ==
    [c \in CredIds |->
        CASE c = "c1" -> [vault |-> "v1", key |-> "url", type |-> "mcp_oauth", arm |-> "none", due |-> "due", refreshes |-> TRUE]
          [] c = "c2" -> [vault |-> "v1", key |-> "url", type |-> "static_bearer", arm |-> "none", due |-> "never", refreshes |-> FALSE]
          [] c = "c3" -> [vault |-> "v2", key |-> "url", type |-> "mcp_oauth", arm |-> "none", due |-> "later", refreshes |-> FALSE]
          [] c = "c4" -> [vault |-> "v1", key |-> "other", type |-> "static_bearer", arm |-> "none", due |-> "never", refreshes |-> FALSE]]

VaultStarts ==
    {[gone |-> {"v2", "c2", "c3", "c4"}, left |-> 3],
     [gone |-> {"v2", "c3", "c4"}, left |-> 1],
     [gone |-> {"c2", "c4"}, left |-> 1],
     [gone |-> {"v2", "c3"}, left |-> 0]}

VaultOrder == <<"v1", "v2">>

VaultUpdates ==
    {[access |-> FALSE, refresh |-> FALSE, arm |-> "post", client |-> TRUE, expires |-> "keep"],
     [access |-> FALSE, refresh |-> FALSE, arm |-> "post", client |-> FALSE, expires |-> "keep"],
     [access |-> TRUE, refresh |-> TRUE, arm |-> "keep", client |-> FALSE, expires |-> "due"]}

Vlt == INSTANCE Vaults WITH
    CredShape <- VaultShapes, SessionVaults <- VaultOrder, Updates <- VaultUpdates,
    Starts <- VaultStarts, vaults <- slot1, creds <- slot2, issuer <- slot3,
    uses <- slot4, fresh <- slot5, left <- slot6, told <- slot7

PinOf(skill, form, version) == [skill |-> skill, pin |-> form, number |-> version]

SkillSessions ==
    {<<PinOf("own", "latest", 0), PinOf("pdf", "number", 2)>>,
     <<PinOf("own", "id", 1), PinOf("own", "latest", 0)>>}

SkillStarts ==
    {[uploads |-> 3, passes |-> 0, faults |-> 1, versions |-> 0],
     [uploads |-> 1, passes |-> 1, faults |-> 1, versions |-> 1],
     [uploads |-> 0, passes |-> 2, faults |-> 1, versions |-> 2]}

BundleMembers ==
    [path : UNION {[1 .. n -> {"tool", "pdf", "..", "SKILL.md"}] : n \in 1 .. 2}, kind : {"file", "dir", "link"}]

SkillBundles == UNION {[1 .. n -> BundleMembers] : n \in 1 .. 2}

Sk == INSTANCE Skills WITH
    Sessions <- SkillSessions, Bundles <- SkillBundles, Starts <- SkillStarts,
    skillRows <- slot1, releases <- slot2, archives <- slot3, doomed <- slot4,
    uploads <- slot5, stored <- slot6, minted <- slot7, lane <- slot8,
    refs <- slot9, skillTree <- slot10, skillMarker <- slot11, pass <- slot12,
    spent <- slot13, doubt <- slot14, bundle <- slot15

RemoteThreads == {"p", "c"}

McpServers == {"s"}

RemoteCalls == 1 .. 2

ToolSlots == {1, 2}

WebTargets == {1, 2}

PageLinks(page) == IF page = 1 THEN {2} ELSE {}

RemoteStart(mayOffer, mayFind, nTurns, nMessages, nPatches, nInterrupts, nFaults) ==
    [declared |-> [t \in RemoteThreads |-> [s \in McpServers |-> 1]], given |-> {1},
     left |-> [offers |-> mayOffer, kinds |-> mayFind, turns |-> nTurns, messages |-> nMessages,
               patches |-> nPatches, interrupts |-> nInterrupts, faults |-> nFaults]]

RemoteStarts ==
    {RemoteStart({<<"mcp", "gated">>, <<"mcp", "runnable">>}, {"ready", "offwire"}, 2, 0, 1, 1, 0),
     RemoteStart({<<"mcp", "runnable">>, <<"web", "runnable">>, <<"web", "gated">>}, {"ready"}, 2, 0, 0, 0, 1),
     RemoteStart({}, {"ready", "verdict", "late"}, 3, 1, 0, 1, 1)}

Rt == INSTANCE RemoteTools WITH
    Links <- PageLinks, ToolStarts <- RemoteStarts, Slots <- ToolSlots,
    Calls <- RemoteCalls, Targets <- WebTargets, Threads <- RemoteThreads,
    Servers <- McpServers, declared <- slot1, catalogs <- slot2, turns <- slot3,
    openCalls <- slot4, items <- slot5, toolPasses <- slot6, given <- slot7,
    remoteLeft <- slot8, toldOf <- slot9, toolRuns <- slot10, fetched <- slot11

McpOwn == [scheme |-> "https", name |-> "server", port |-> "", zone |-> ""]
McpOrigins == {McpOwn, [McpOwn EXCEPT !.port = ":"], [McpOwn EXCEPT !.port = "443"], [McpOwn EXCEPT !.scheme = "http"],
               [McpOwn EXCEPT !.name = "other"], [McpOwn EXCEPT !.zone = "eth0"]}
McpAnswer(code, bytes, holds) == [status |-> code, size |-> bytes, shape |-> holds]
NoMcpAnswer == McpAnswer(0, 0, "none")
McpTool(title, wellFormed) == [name |-> title, object |-> wellFormed]
\* A server of either transport whose answers differ in status; one whose
\* answers differ in size; one that lists.
McpPlans ==
    {[answers |-> {NoMcpAnswer, McpAnswer(200, 1, "result"), McpAnswer(200, 1, "rpcerror"), McpAnswer(401, 0, "other"),
                   McpAnswer(405, 0, "other"), McpAnswer(404, 1, "rpcerror"), McpAnswer(400, 2, "other"), McpAnswer(500, 1, "rpcerror")},
      pages |-> {<<>>}, cursors |-> {""}, ops |-> {"call"}],
     [answers |-> {McpAnswer(200, 0, "result"), McpAnswer(200, 2, "result"), McpAnswer(200, 3, "rpcerror"), McpAnswer(200, 4, "result"),
                   McpAnswer(405, 1, "other"), McpAnswer(401, 4, "other")},
      pages |-> {<<>>}, cursors |-> {""}, ops |-> {"call"}],
     [answers |-> {McpAnswer(200, 0, "result"), NoMcpAnswer},
      pages |-> {<<McpTool("a", FALSE), McpTool("b", TRUE)>>, <<McpTool("a", TRUE), McpTool("bad", TRUE), McpTool("a", TRUE)>>},
      cursors |-> {"", "x", "y"}, ops |-> {"list"}]}

Mcp == INSTANCE McpClient WITH
    Own <- McpOwn, Origins <- McpOrigins, Plans <- McpPlans, link <- slot1,
    budget <- slot2, bodies <- slot3, watch <- slot4, asked <- slot5,
    plan <- slot6, sent <- slot7

SurfCoordinator == <<<<"create_agent">>, <<"wait">>>>
SurfWorker == <<<<"submit">>>>
SurfBuiltins == <<<<"bash">>, <<"read">>>>
SurfPlain == [on |-> {}, policy |-> {}]
SurfConfig(tool, live, rule) == [name |-> tool, on |-> live, policy |-> rule]
SurfEntry(kind, title, place, defaults, overrides) == [type |-> kind, name |-> title, server |-> place, default |-> defaults, configs |-> overrides]
SurfCustom(title) == SurfEntry("custom", title, <<>>, SurfPlain, <<>>)
SurfSet(defaults, overrides) == SurfEntry("builtins", <<>>, <<>>, defaults, overrides)
SurfMcp(place, defaults, overrides) == SurfEntry("mcp", <<>>, place, defaults, overrides)
SurfServers == <<<<"a">>, <<"a", "__", "b">>>>
SurfAsking == [on |-> {}, policy |-> {"always_ask"}]
SurfDisabled == [on |-> {FALSE}, policy |-> {}]
SurfLone == {SurfCustom(<<"bash">>), SurfCustom(<<"wait">>), SurfCustom(<<"submit">>), SurfCustom(<<"mcp__", "a", "__", "b", "__", "c">>),
             SurfSet(SurfAsking, <<SurfConfig(<<"read">>, {FALSE}, {}), SurfConfig(<<"read">>, {}, {"always_allow"})>>),
             SurfSet(SurfPlain, <<SurfConfig(<<"bash">>, {FALSE}, {"odd"})>>), SurfSet(SurfPlain, <<SurfConfig(<<"bash">>, {}, {"odd"})>>),
             SurfSet(SurfDisabled, <<SurfConfig(<<"ghost">>, {TRUE}, {}), SurfConfig(<<"bash">>, {TRUE}, {}), SurfConfig(<<"ghost">>, {}, {"odd"}), SurfConfig(<<"bash">>, {}, {"always_ask"})>>)}
SurfToolsets == {SurfMcp(<<"a">>, SurfPlain, <<SurfConfig(<<"b", ".", "c">>, {}, {"always_allow"})>>),
                 SurfMcp(<<"a">>, SurfDisabled, <<SurfConfig(<<"b", "__", "c">>, {TRUE}, {"always_allow"})>>)}
SurfSecond == SurfMcp(<<"a", "__", "b">>, [on |-> {}, policy |-> {"always_allow"}], <<>>)
SurfSpec(entries, places) == [tools |-> entries, servers |-> places]
SurfSpecs == {SurfSpec(<<x>>, <<>>) : x \in SurfLone} \union {SurfSpec(<<x, y>>, <<>>) : x, y \in SurfLone}
             \union {SurfSpec(<<y, x, SurfSecond>>, SurfServers) : x \in SurfLone, y \in SurfToolsets} \union {SurfSpec(<<SurfSecond>>, SurfServers)}
SurfOld == {SurfSpec(<<SurfCustom(<<"bash">>), SurfCustom(<<"bash">>)>>, <<>>), SurfSpec(<<SurfSet(SurfAsking, <<>>), SurfSet(SurfPlain, <<>>)>>, <<>>),
            SurfSpec(<<SurfCustom(<<"bash">>), SurfSet(SurfPlain, <<>>)>>, <<>>), SurfSpec(<<SurfSet(SurfPlain, <<>>), SurfCustom(<<"bash">>)>>, <<>>),
            SurfSpec(<<SurfCustom(<<"mcp__", "a", "__", "b", "_", "c">>), SurfMcp(<<"a">>, SurfPlain, <<>>)>>, <<<<"a">>>>),
            SurfSpec(<<SurfMcp(<<"a">>, [on |-> {}, policy |-> {"odd"}], <<>>)>>, <<<<"a">>>>)}
SurfTool(title, bytes, bad) == [name |-> title, size |-> bytes, nul |-> bad]
SurfListings ==
    {[server |-> <<"a">>, tools |-> <<SurfTool(<<"b", "__", "c">>, 1, FALSE), SurfTool(<<"b", ".", "c">>, 1, FALSE), SurfTool(<<"d", "d", "d", "d">>, 1, FALSE)>>],
     [server |-> <<"a">>, tools |-> <<SurfTool(<<"x">>, 1, TRUE), SurfTool(<<"b", ".", "c">>, 2, FALSE), SurfTool(<<"b", "_", "c">>, 1, FALSE), SurfTool(<<"e">>, 2, FALSE), SurfTool(<<"f">>, 1, FALSE)>>],
     [server |-> <<"a", "__", "b">>, tools |-> <<SurfTool(<<"c">>, 1, FALSE), SurfTool(<<"s">>, 3, FALSE), SurfTool(<<>>, 0, FALSE)>>]}
SurfContent(kind, words, bytes, media) == [type |-> kind, text |-> words, data |-> bytes, mime |-> media]
SurfItems == {SurfContent("text", 0, 0, ""), SurfContent("text", 1, 0, ""), SurfContent("text", 6, 0, ""), SurfContent("image", 0, 2, "image"),
              SurfContent("image", 0, 9, "other"), SurfContent("resource", 3, 0, ""), SurfContent("resource", 0, 4, "pdf"), SurfContent("link", 0, 0, ""), SurfContent("odd", 1, 0, "")}
SurfContents == {<<x>> : x \in SurfItems} \union {<<x, y>> : x, y \in SurfItems} \union {<<x, y, SurfContent("text", 6, 0, "")>> : x, y \in SurfItems} \union {<<>>}
SurfScene == [kind |-> "surface", stored |-> {SurfSpec(<<>>, <<>>)}, specs |-> {}, listings |-> {}, calls |-> {}, contents |-> {}, cloud |-> TRUE, turns |-> 0]
SurfScenes == <<[SurfScene EXCEPT !.stored = @ \union SurfOld, !.specs = SurfSpecs, !.listings = SurfListings, !.calls = {<<"bash">>, <<"ghost">>}],
               [SurfScene EXCEPT !.kind = "answers", !.contents = SurfContents, !.turns = 1],
               [SurfScene EXCEPT !.kind = "answers", !.contents = {<<x, y>> : x, y \in {SurfContent("text", 6, 0, ""), SurfContent("image", 0, 9, "image")}}, !.turns = 3],
               [SurfScene EXCEPT !.kind = "answers", !.contents = {<<x>> : x \in SurfItems}, !.turns = 1, !.cloud = FALSE]>>

Surf == INSTANCE ToolSurface WITH
    CoordinatorTools <- SurfCoordinator, WorkerTools <- SurfWorker,
    Builtins <- SurfBuiltins, Surfaces <- SurfScenes, scene <- slot1,
    spec <- slot2, listed <- slot3, surface <- slot4, called <- slot5,
    reply <- slot6, spiller <- slot7

vars == <<part,
         slot1, slot2, slot3, slot4, slot5, slot6, slot7, slot8, slot9, slot10,
         slot11, slot12, slot13, slot14, slot15>>

----------------------------------------------------------------------------
\* Two files with an object each, that uploads or a dream's start left:
\* the rows, the transactions, those begun, the sessions, the lapsed and the
\* stored, owed and due objects, the drainers.
SeededFiles ==
    /\ \E kinds \in [{1, 2} -> {"upload", "transcript"}] :
         /\ slot1 = [f \in FileIds |->
                IF f \in {1, 2} THEN [st |-> "live", key |-> f, kind |-> kinds[f], sess |-> "none"]
                ELSE Files!Unused]
    /\ slot2 = [a \in FileRequests |-> Files!NoTx] /\ slot3 = 0
    /\ slot4 = [s \in FileSessions |-> "absent"]
    /\ slot5 = {} /\ slot6 = {1, 2} /\ slot7 = {} /\ slot8 = {}
    /\ slot9 = [d \in Drainers |-> Files!NoWork]

\* Two instances of the configuration: administrators' transactions from an
\* empty one, without a catalog; and calls on a full one, whose credentials
\* come and go.  The slots are the configuration, its transactions, the
\* catalog, the opened keys and the calls.
FullConfig ==
    [provider |-> [p \in Providers |-> "on"],
     credential |-> [c \in Credentials |-> [state |-> "on", provider |-> "p"]],
     deployment |-> [d \in Deployments |->
                       [state |-> "on", provider |-> "p", kind |-> "chat"]],
     alias |-> [a \in AliasNames |-> Deployments],
     grant |-> [k \in Keys |-> AliasNames]]
Serving == slot3.ver <= MaxReloads
OnlyCredentials ==
    slot2' = slot2 /\ slot1' = [slot1 EXCEPT !.credential = slot1'.credential]
CatalogScenes ==
    /\ slot2 = [adm \in Admins |-> Catalog!Idle]
    /\ slot4 = [keys |-> {}, from |-> -1]
    /\ slot5 = [r \in Callers |-> Catalog!NoCall]
    /\ \/ slot1 = Catalog!EmptyConfig /\ slot3 = [ver |-> MaxReloads + 1, db |-> slot1]
       \/ slot1 = FullConfig /\ slot3 = [ver |-> 0, db |-> slot1]

\* What is left of the slots beside a component of so many variables.
past12 == <<slot13, slot14, slot15>>
past11 == <<slot12, past12>>
past10 == <<slot11, past11>>
past9 == <<slot10, past10>>
past8 == <<slot9, past9>>
past7 == <<slot8, past8>>
past6 == <<slot7, past7>>
past5 == <<slot6, past6>>
past4 == <<slot5, past5>>
past3 == <<slot4, past4>>
past1 == <<slot2, slot3, past3>>

EmptyPast(n) ==
    /\ n < 2 => slot2 = 0
    /\ n < 3 => slot3 = 0
    /\ n < 4 => slot4 = 0
    /\ n < 5 => slot5 = 0
    /\ n < 6 => slot6 = 0
    /\ n < 7 => slot7 = 0
    /\ n < 8 => slot8 = 0
    /\ n < 9 => slot9 = 0
    /\ n < 10 => slot10 = 0
    /\ n < 11 => slot11 = 0
    /\ n < 12 => slot12 = 0
    /\ n < 13 => slot13 = 0
    /\ n < 14 => slot14 = 0
    /\ n < 15 => slot15 = 0

Init ==
    /\ part \in Parts
    /\ \/ part = "files" /\ SeededFiles /\ EmptyPast(9)
       \/ part = "exec" /\ Exec!ExecInit /\ EmptyPast(10)
       \/ part = "gate" /\ Gate!GateInit /\ EmptyPast(9)
       \/ part = "transfer" /\ Transfer!FilesInit /\ EmptyPast(12)
       \/ part = "life" /\ Life!LifeInit
       \/ part = "gateway" /\ Gateway!GInit /\ EmptyPast(7)
       \/ part = "catalog" /\ CatalogScenes /\ EmptyPast(5)
       \/ part = "memory" /\ Memory!MemInit /\ EmptyPast(6)
       \/ part = "cron" /\ Crontab!CronInit /\ EmptyPast(1)
       \/ part = "deploy" /\ Deploy!DepInit /\ EmptyPast(6)
       \/ part = "lists" /\ Lists!ListInit /\ EmptyPast(3)
       \/ part = "dreams" /\ Dream!DreamInit /\ EmptyPast(3)
       \/ part = "agents" /\ Agt!AgentsInit /\ EmptyPast(5)
       \/ part = "mounts" /\ Mnt!MountsInit /\ EmptyPast(4)
       \/ part = "egress" /\ Egr!EgressInit /\ EmptyPast(8)
       \/ part = "vaults" /\ Vlt!VaultsInit /\ EmptyPast(7)
       \/ part = "skills" /\ Sk!SkillsInit
       \/ part = "remote" /\ Rt!RemoteInit /\ EmptyPast(11)
       \/ part = "mcp" /\ Mcp!ClientInit /\ EmptyPast(7)
       \/ part = "surface" /\ Surf!SurfaceInit /\ EmptyPast(7)

Next ==
    \/ part = "files" /\ Files!FilesNext /\ UNCHANGED <<part, past9>>
    \/ part = "exec" /\ Exec!ExecNext /\ UNCHANGED <<part, past10>>
    \/ part = "gate" /\ Gate!GateNext /\ UNCHANGED <<part, past9>>
    \/ part = "transfer" /\ Transfer!SandboxFilesNext /\ UNCHANGED <<part, past12>>
    \/ part = "life" /\ Life!LifeNext /\ UNCHANGED part
    \/ part = "gateway" /\ Gateway!GNext /\ UNCHANGED <<part, past7>>
    \/ part = "catalog" /\ Catalog!CNext /\ (Serving => OnlyCredentials) /\ UNCHANGED <<part, past5>>
    \/ part = "memory" /\ Memory!MemNext /\ UNCHANGED <<part, past6>>
    \/ part = "cron" /\ Crontab!CronNext /\ UNCHANGED <<part, past1>>
    \/ part = "deploy" /\ Deploy!DepNext /\ UNCHANGED <<part, past6>>
    \/ part = "lists" /\ Lists!ListNext /\ UNCHANGED <<part, past3>>
    \/ part = "dreams" /\ Dream!DreamNext /\ UNCHANGED <<part, past3>>
    \/ part = "agents" /\ Agt!AgentsNext /\ UNCHANGED <<part, past5>>
    \/ part = "mounts" /\ Mnt!MountsNext /\ UNCHANGED <<part, past4>>
    \/ part = "egress" /\ Egr!EgressNext /\ UNCHANGED <<part, past8>>
    \/ part = "vaults" /\ Vlt!VaultsNext /\ UNCHANGED <<part, past7>>
    \/ part = "skills" /\ Sk!SkillsNext /\ UNCHANGED part
    \/ part = "remote" /\ Rt!RemoteNext /\ UNCHANGED <<part, past11>>
    \/ part = "mcp" /\ Mcp!ClientNext /\ UNCHANGED <<part, past7>>
    \/ part = "surface" /\ Surf!SurfaceNext /\ UNCHANGED <<part, past7>>

Spec == Init /\ [][Next]_vars

\* Executors, requests, replicas and callers are the same two model values in
\* every component that has such a pair, and no component tells them apart.
Interchangeable == Permutations(Executors)

----------------------------------------------------------------------------
(* The components' properties; each module says what its own mean. *)

\* FileObjects: rows and objects agree and no transactions wait in a circle.
ObjectsFollowRows == part = "files" => Files!ObjectsFollowRows

\* ExecDeadline: an overrun is reported as timed out, an early SIGKILL of the command's own is not.
DeadlineIsTold == part = "exec" => Exec!DeadlineIsTold

\* SandboxGate: a gated session's sandbox is behind a gate.
GatedRunsBehindGate == part = "gate" => Gate!GatedRunsBehindGate

\* SandboxFiles: a file is written whole or not at all, leaves nothing behind, and is read within the limit.
FilesMoveWhole == part = "transfer" => Transfer!FilesMoveWhole

\* SandboxLife: a run finds the workspace its session last had.
WorkspaceSurvives == part = "life" => Life!WorkspaceSurvives

\* SandboxLife: a failed restore keeps the checkpoint.
FailedRestoreKeepsCheckpoint == part = "life" => Life!FailedRestoreKeepsCheckpoint

\* GatewayStream: the caller reads one well-formed stream whose end says how it ended.
AnswersAreTruthful == part = "gateway" => Gateway!AnswersAreTruthful

\* GatewayCatalog: the configuration refers only to what exists, and no deleted credential's key stays opened.
CatalogIsWhole == part = "catalog" => Catalog!CatalogIsWhole

\* MemorySync: a sync destroys only what its directory held, and an undisturbed one leaves both sides the same.
SyncIsFaithful == part = "memory" => Memory!SyncIsFaithful

\* MemorySync: a swept directory deletes nothing from its store.
WipeDeletesNothing == part = "memory" => Memory!WipeDeletesNothing

\* Cron: the walk finds the instants that show a matching wall clock.
WalkIsExact == part = "cron" => Crontab!WalkIsExact

\* Deployments: a fire commits only what is due, and what is due stays so until it or a later one is fired.
FiresAreExact == [][part = "deploy" => Deploy!FiringIsExact]_vars

\* Listings: a walk shows every row that was listed all along, once.
PagesNeitherSkipNorRepeat == part = "lists" => Lists!PagesNeitherSkipNorRepeat

\* Dreams: a closed dream has let go of its store, a completed one ran every stage.
EndedDreamsAreOver == part = "dreams" => Dream!EndedDreamsAreOver

\* Agents: what a roster, a session and a deployment name stays there to be used.
RostersResolve == part = "agents" => Agt!RostersResolve

\* Mounts: a session gets what it names, each thing at a place of its own.
MountsAreApart == part = "mounts" => Mnt!MountsAreApart

\* Egress: what leaves a sandbox is what its environment and credentials say.
EgressIsAsServed == part = "egress" => Egr!EgressIsAsServed

\* Vaults: an archived credential holds no secret, and no write undoes a newer one.
SecretsAreCurrent == part = "vaults" => Vlt!SecretsAreCurrent

\* Skills: the registry is whole, and a sandbox that would be left alone is right.
SkillsAreWhole == part = "skills" => Sk!SkillsAreWhole

\* RemoteTools: discovery and the calls of MCP and web tools settle as the session stands.
RemoteToolsSettle == part = "remote" => Rt!RemoteToolsSettle

\* McpClient: a connection is bounded, at home, and truthful about its failures and its listing.
ConnectionsAreTrue == part = "mcp" => Mcp!ConnectionsAreTrue

\* ToolSurface: the surface, its calls and their answers are what the declarations say.
ToolSurfaceIsSound == part = "surface" => Surf!ToolSurfaceIsSound
=============================================================================
