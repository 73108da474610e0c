---------------------------- MODULE ToolSurface ---------------------------
(***************************************************************************)
(* What tools a model request offers, where a call to each name goes, and   *)
(* what of a remote tool's answer reaches the log.                          *)
(*                                                                         *)
(* The agent's tools pass the API's check (checkAgentSpec) or were stored   *)
(* before it; each server's listing is stored by a discovery pass           *)
(* (storableTools); a request's surface is resolved from both and from the  *)
(* thread's role (resolveTools); a call is classed by that surface          *)
(* (turnEvents); an MCP answer becomes capped blocks, and its text is       *)
(* spilled to the sandbox when something was lost (mcpSpiller).  A name is  *)
(* a sequence of pieces, each of length one.                                *)
(***************************************************************************)
EXTENDS Integers, Sequences, FiniteSets, SequencesExt, TLC

CONSTANTS
    CoordinatorTools, WorkerTools,  \* the delegation tools of each role
    Builtins,                       \* the built-in tools, in their order
    MaxTools, MaxServers,           \* maxAgentTools, maxAgentMCPServers
    MaxModelToolName,               \* pieces a model request's tool name holds
    MaxMCPToolBytes,                \* definitions one request carries
    MaxCatalogTools,                \* bytes of one stored listing
    MaxOutputBytes, BlockOverhead,  \* a result's budget; a block's own bytes
    Secret,                         \* the piece a listing must not store
    Surfaces                        \* the scenarios: what may be written, listed, answered

VARIABLES
    scene,      \* the scenario
    spec,       \* the agent's tools and servers
    listed,    \* server -> its stored listing
    surface,    \* the request last made
    called,     \* the call last classed
    reply,      \* the answer last rendered
    spiller     \* one pass's spiller

tvars == <<scene, spec, listed, surface, called, reply, spiller>>

Scene == Surfaces[scene]

The(s, d) == IF s = {} THEN d ELSE CHOOSE x \in s : TRUE

Names(defs) == {defs[i].name : i \in DOMAIN defs}

Indices(s) == [i \in 1 .. Len(s) |-> i]

Policies == {"always_allow", "always_ask"}

-----------------------------------------------------------------------------
(* A toolset entry's configuration.                                        *)

\* The last configs[] entry that sets a field wins it, each field on its own.
Override(e, name, field) ==
    LET at == {i \in DOMAIN e.configs : e.configs[i].name = name /\ e.configs[i][field] # {}}
    IN IF at = {} THEN e.default[field]
       ELSE e.configs[CHOOSE i \in at : \A j \in at : j =< i][field]

IsOn(e, name) == The(Override(e, name, "on"), TRUE)

PolicyOf(e, name, unset) == The(Override(e, name, "policy"), unset)

\* A live tool under a policy the platform cannot evaluate fails the request.
Evaluable(e, names) == \A n \in names : IsOn(e, n) => PolicyOf(e, n, "always_ask") \in Policies

ResolveToolset(e) == SelectSeq(Builtins, LAMBDA n : IsOn(e, n))

\* The first listed tool of each name, when the entry enables it.
ResolveMCP(e, listing) ==
    LET Kept(i) == /\ listing[i].name # <<>> /\ IsOn(e, listing[i].name)
                   /\ \A j \in 1 .. i - 1 : listing[j].name # listing[i].name
        kept == SelectSeq(Indices(listing), Kept)
    IN [k \in DOMAIN kept |-> listing[kept[k]]]

-----------------------------------------------------------------------------
(* The agent's tools and the listings.                                     *)

\* An MCP entry's policies are held to the known ones wherever they sit: its
\* tools cannot be listed when the agent is written.
ValidateMCPToolset(e) ==
    /\ e.default.policy \subseteq Policies
    /\ \A i \in DOMAIN e.configs : e.configs[i].name # <<>> /\ e.configs[i].policy \subseteq Policies

ParseTool(e) ==
    /\ e.type = "custom" => e.name[1] # "mcp__"
    /\ e.type = "builtins" => Evaluable(e, Range(Builtins))
    /\ e.type = "mcp" => ValidateMCPToolset(e)

OwnNames(e) == CASE e.type = "custom" -> <<e.name>> [] e.type = "builtins" -> ResolveToolset(e) [] OTHER -> <<>>

\* An agent's own write must have a toolset for every server; a session's
\* patch of its agent need not.
CheckAgentSpec(s, everyServerReferenced) ==
    /\ Len(s.tools) =< MaxTools /\ Len(s.servers) =< MaxServers
    /\ IsInjective(s.servers)
    /\ \A i \in DOMAIN s.tools :
          ParseTool(s.tools[i]) /\ (s.tools[i].type = "mcp" => s.tools[i].server \in Range(s.servers))
    /\ IsInjective(FlattenSeq([i \in DOMAIN s.tools |-> OwnNames(s.tools[i])]))
    /\ everyServerReferenced =>
          \A k \in DOMAIN s.servers : \E i \in DOMAIN s.tools : s.tools[i].type = "mcp" /\ s.tools[i].server = s.servers[k]

\* What a read of the agent shows: every setting concrete, the entries of one
\* tool merged where the first stood, an entry that configures nothing as is.
Configurable(e, name) == name # <<>> /\ (e.type = "builtins" => name \in Range(Builtins))

Materialize(e) ==
    LET unset == IF e.type = "mcp" THEN "always_ask" ELSE "always_allow"
        Stands(i) == \/ ~ Configurable(e, e.configs[i].name)
                     \/ \A j \in 1 .. i - 1 : e.configs[j].name # e.configs[i].name
        kept == SelectSeq(Indices(e.configs), Stands)
        Shown(c) == IF ~ Configurable(e, c.name) THEN c
                    ELSE [c EXCEPT !.on = {IsOn(e, c.name)}, !.policy = {PolicyOf(e, c.name, unset)}]
    IN IF e.type = "custom" THEN e
       ELSE [e EXCEPT !.default = [on |-> {The(@.on, TRUE)}, policy |-> {The(@.policy, unset)}],
                      !.configs = [k \in DOMAIN kept |-> Shown(e.configs[kept[k]])]]

WriteAgent(s, patch) ==
    /\ surface.state = "none" /\ s # spec
    /\ CheckAgentSpec(s, ~ patch)
    /\ spec' = s
    /\ UNCHANGED <<scene, listed, surface, called, reply, spiller>>

\* scrubSecrets and SanitizeText, on a name.
ScrubSecrets(name) == [i \in DOMAIN name |-> IF name[i] = Secret THEN "redacted" ELSE name[i]]

\* A tool whose schema cannot be stored is skipped; the first past the budget
\* ends the listing.
StorableTools(tools) ==
    LET Store(acc, t) ==
            IF acc.full \/ t.nul THEN acc
            ELSE IF t.size > acc.budget THEN [acc EXCEPT !.full = TRUE]
            ELSE [acc EXCEPT !.budget = @ - t.size, !.out = Append(@, [t EXCEPT !.name = ScrubSecrets(@)])]
    IN FoldLeft(Store, [out |-> <<>>, budget |-> MaxCatalogTools, full |-> FALSE], tools).out

Discover(server, tools) ==
    /\ surface.state = "none" /\ server \notin DOMAIN listed
    /\ listed' = (server :> StorableTools(tools)) @@ listed
    /\ UNCHANGED <<scene, spec, surface, called, reply, spiller>>

-----------------------------------------------------------------------------
(* The surface of one request.                                             *)

Clean(name) == [i \in DOMAIN name |-> IF name[i] = "." THEN "_" ELSE name[i]]

MCPModelName(server, tool) == <<"mcp__">> \o Clean(server) \o <<"__">> \o Clean(tool)

McpNameFits(server, tool) == tool # <<>> /\ 1 + Len(server) + 1 + Len(tool) =< MaxModelToolName

Settlement == [kind |-> "tool_use", policy |-> "", server |-> <<>>, tool |-> <<>>, settlement |-> TRUE, builtin |-> FALSE]

Custom == [Settlement EXCEPT !.kind = "custom_tool_use", !.settlement = FALSE]

DelegationTools(role) ==
    CASE role = "coordinator" -> CoordinatorTools [] role = "child" -> WorkerTools [] OTHER -> <<>>

Def(name, class) == [name |-> name, class |-> class, size |-> 0]

\* The role's own tools first; all six names are classed in a session that
\* delegates, offered or not.
Delegation(role) ==
    LET mine == DelegationTools(role)
        six == IF role = "none" THEN {} ELSE Range(CoordinatorTools) \union Range(WorkerTools)
    IN [defs |-> [i \in DOMAIN mine |-> Def(mine[i], Settlement)],
        class |-> [n \in six |-> Settlement], notes |-> {}, spent |-> 0]

\* A custom tool and an enabled built-in of one name: the later entry has it.
BuiltinLater(tools, i, name) == \E j \in DOMAIN tools : j > i /\ tools[j].type = "builtins" /\ name \in Range(ResolveToolset(tools[j]))

CustomLater(tools, i, name, injected) ==
    name \notin injected /\ \E j \in DOMAIN tools : j > i /\ tools[j].type = "custom" /\ tools[j].name = name

Offer(acc, name, class) ==
    [acc EXCEPT !.defs = Append(@, Def(name, class)), !.class = (name :> class) @@ @]

Skip(acc, name, why) == [acc EXCEPT !.notes = @ \union {<<name, why>>}]

\* The agent's own tools, in the order of tools[].
OwnTools(tools, role, start) ==
    LET injected == Range(DelegationTools(role))
        Entry(acc, i) ==
            LET e == tools[i]
                Builtin(a, n) == IF CustomLater(tools, i, n, injected) THEN Skip(a, n, "custom later")
                                 ELSE Offer(a, n, [Settlement EXCEPT !.policy = PolicyOf(e, n, "always_allow"), !.settlement = FALSE, !.builtin = TRUE])
            IN CASE e.type = "custom" /\ e.name \in injected -> Skip(acc, e.name, "delegation")
                 [] e.type = "custom" /\ e.name \notin injected ->
                        IF BuiltinLater(tools, i, e.name) THEN Skip(acc, e.name, "builtin later") ELSE Offer(acc, e.name, Custom)
                 [] e.type = "builtins" -> FoldLeft(Builtin, acc, ResolveToolset(e))
                 [] OTHER -> acc
    IN FoldLeft(Entry, start, Indices(tools))

NeverTaken(acc, name) == FALSE

Taken(acc, name) == name \in DOMAIN acc.class

\* The servers' tools last: each skip costs its own tool and nothing else,
\* and a configured name the server does not report is noted.
McpTools(tools, start) ==
    LET Entry(acc, i) ==
            LET e == tools[i]
                Tool(a, t) ==
                    LET name == MCPModelName(e.server, t.name)
                        class == [Settlement EXCEPT !.kind = "mcp_tool_use", !.policy = PolicyOf(e, t.name, "always_ask"),
                                                    !.server = e.server, !.tool = t.name, !.settlement = FALSE]
                    IN IF ~ McpNameFits(e.server, t.name) THEN Skip(a, t.name, "name")
                       ELSE IF Taken(a, name) THEN Skip(a, t.name, "taken")
                       ELSE IF a.spent + t.size > MaxMCPToolBytes THEN Skip(a, t.name, "budget")
                       ELSE [Offer(a, name, class) EXCEPT !.spent = @ + t.size]
            IN IF e.type # "mcp" THEN acc
               ELSE IF e.server \notin DOMAIN listed THEN Skip(acc, e.server, "no listing")
               ELSE LET unknown == (Names(e.configs) \ {<<>>}) \ Names(listed[e.server])
                    IN FoldLeft(Tool, [acc EXCEPT !.notes = @ \union {<<n, "unreported">> : n \in unknown}], ResolveMCP(e, listed[e.server]))
    IN FoldLeft(Entry, start, Indices(tools))

\* The names the report on the session gives: what each server returned,
\* enabled or not, whose composed name no request can carry.
Unsupported(tools) ==
    {<<s, t>> \in UNION {{tools[i].server} \X {listed[s][k].name : s \in {tools[i].server}, k \in DOMAIN listed[tools[i].server]} :
                          i \in {j \in DOMAIN tools : tools[j].type = "mcp" /\ tools[j].server \in DOMAIN listed}} :
        ~ McpNameFits(s, t)}

Failed(tools) ==
    \E i \in DOMAIN tools :
        LET e == tools[i]
        IN \/ e.type = "builtins" /\ ~ Evaluable(e, Range(Builtins))
           \/ e.type = "mcp" /\ e.server \in DOMAIN listed /\ ~ Evaluable(e, Names(listed[e.server]) \ {<<>>})

\* The report goes out on a run's first request only.
ResolveTools(role, first) ==
    LET built == McpTools(spec.tools, OwnTools(spec.tools, role, Delegation(role)))
    IN /\ surface.state = "none" /\ Scene.kind = "surface"
       /\ surface' = IF Failed(spec.tools)
                     THEN [surface EXCEPT !.state = "failed"]
                     ELSE [state |-> "made", role |-> role, defs |-> built.defs, class |-> built.class, notes |-> built.notes,
                           spent |-> built.spent, reported |-> IF first THEN Unsupported(spec.tools) ELSE {}]
       /\ UNCHANGED <<scene, spec, listed, called, reply, spiller>>

-----------------------------------------------------------------------------
(* A call of the model's.                                                  *)

WrongRole(name) ==
    \/ surface.role = "child" /\ name \in Range(CoordinatorTools)
    \/ surface.role # "child" /\ name \in Range(WorkerTools)

\* A name that was not offered, or a call the output cap cut off, is denied
\* and answered by the settlement; everything else goes where its class says.
TurnEvents(name, cutOff) ==
    LET offered == name \in DOMAIN surface.class
        cut == offered /\ cutOff
        c == IF offered /\ ~ cut THEN surface.class[name] ELSE Settlement
        six == offered /\ surface.class[name].settlement
    IN /\ surface.state = "made" /\ called.name = <<>>
       /\ called' = [name |-> name, cut |-> cutOff, kind |-> c.kind, server |-> c.server, tool |-> c.tool,
                   perm |-> CASE c.kind = "custom_tool_use" -> "none"
                              [] c.kind # "custom_tool_use" /\ (~ offered \/ cut) -> "deny"
                              [] c.kind # "custom_tool_use" /\ offered /\ ~ cut -> IF c.policy = "always_ask" THEN "ask" ELSE "allow",
                   answer |-> IF ~ c.settlement THEN "elsewhere"
                              ELSE IF ~ offered THEN "unknown"
                              ELSE IF six /\ WrongRole(name) THEN "wrong role"
                              ELSE IF cut THEN "cut" ELSE "delegated"]
       /\ UNCHANGED <<scene, spec, listed, surface, reply, spiller>>

-----------------------------------------------------------------------------
(* A remote tool's answer.                                                 *)

Lesser(a, b) == IF a < b THEN a ELSE b

\* capped: a block CapOutput has already bounded.
TextBlock(bytes) == [kind |-> "text", bytes |-> Lesser(bytes, MaxOutputBytes), cut |-> bytes > MaxOutputBytes, capped |-> TRUE]

Described == TextBlock(1)

ImageBlock(c) ==
    IF c.data = 0 \/ c.mime # "image" THEN Described
    ELSE [kind |-> "image", bytes |-> c.data, cut |-> FALSE, capped |-> FALSE]

ResourceBlock(c) ==
    IF c.data = 0 /\ c.text = 0 THEN Described
    ELSE IF c.data = 0 THEN [TextBlock(c.text) EXCEPT !.kind = "document"]
    ELSE IF c.mime = "pdf" THEN [kind |-> "document", bytes |-> c.data, cut |-> FALSE, capped |-> FALSE]
    ELSE ImageBlock(c)

\* No block for an empty text or for a content kind that is not known.
Block(c) ==
    CASE c.type = "text" -> IF c.text = 0 THEN <<>> ELSE <<TextBlock(c.text)>>
      [] c.type = "image" -> <<ImageBlock(c)>>
      [] c.type = "resource" -> <<ResourceBlock(c)>>
      [] c.type \in {"link", "audio"} -> <<Described>>
      [] OTHER -> <<>>

\* The first capped block past the budget is let through; the first other
\* block past it ends the answer with a count of what was dropped.
CapBlocks(blocks) ==
    LET Put(acc, b) ==
            LET raw == b.bytes + BlockOverhead
            IN IF acc.dropped > 0 THEN [acc EXCEPT !.dropped = @ + 1]
               ELSE IF raw > acc.budget /\ ~ (b.capped /\ ~ acc.exempted) THEN [acc EXCEPT !.dropped = 1]
               ELSE [acc EXCEPT !.out = Append(@, b), !.budget = @ - raw, !.exempted = @ \/ raw > acc.budget]
    IN FoldLeft(Put, [out |-> <<>>, budget |-> MaxOutputBytes, exempted |-> FALSE, dropped |-> 0], blocks)

Rendered(content) ==
    LET blocks == FlattenSeq([i \in DOMAIN content |-> Block(content[i])])
    IN IF blocks = <<>> THEN <<Described>> ELSE blocks

SpillableText(content) ==
    \E i \in DOMAIN content :
        LET c == content[i]
        IN c.type \in {"link", "audio"} \/ (c.text > 0 /\ (c.type = "text" \/ (c.type = "resource" /\ c.data = 0)))

MaySpill(content, lost) == lost /\ ~ spiller.failed /\ Scene.cloud /\ SpillableText(content)

\* A sandbox is attached, never started; one that is gone or cannot be
\* reached leaves the next answer free to try, a failed write does not.
Spill(content, lost, live, attach, written) ==
    LET has == spiller.attached \/ attach = "found"
        wrote == MaySpill(content, lost) /\ live /\ has
    IN /\ spiller' = [attached |-> IF MaySpill(content, lost) /\ live THEN has ELSE spiller.attached,
                      failed |-> spiller.failed \/ (wrote /\ ~ written),
                      tries |-> IF wrote THEN Append(spiller.tries, written) ELSE spiller.tries]
       /\ reply' = LET capped == CapBlocks(Rendered(content))
                   IN [content |-> content, blocks |-> capped.out, dropped |-> capped.dropped, lost |-> lost, spilled |-> wrote /\ written,
                       turn |-> reply.turn + 1]

McpAnswer(content, live, attach, written) ==
    LET blocks == Rendered(content)
        lost == CapBlocks(blocks).dropped > 0 \/ \E i \in DOMAIN blocks : blocks[i].cut
    IN /\ Scene.kind = "answers" /\ reply.turn < Scene.turns
       /\ Spill(content, lost, live, attach, written)
       /\ UNCHANGED <<scene, spec, listed, surface, called>>

-----------------------------------------------------------------------------
NoSurface == [state |-> "none", role |-> "none", defs |-> <<>>, class |-> [n \in {} |-> Settlement], notes |-> {}, spent |-> 0, reported |-> {}]

SurfaceInit ==
    /\ scene \in DOMAIN Surfaces
    /\ spec \in Scene.stored
    /\ listed = [s \in {} |-> <<>>]
    /\ surface = NoSurface
    /\ called = [name |-> <<>>, cut |-> FALSE, kind |-> "", server |-> <<>>, tool |-> <<>>, perm |-> "", answer |-> ""]
    /\ reply = [content |-> <<>>, blocks |-> <<>>, dropped |-> 0, lost |-> FALSE, spilled |-> FALSE, turn |-> 0]
    /\ spiller = [attached |-> FALSE, failed |-> FALSE, tries |-> <<>>]

SurfaceNext ==
    \/ \E s \in Scene.specs, patch \in BOOLEAN : WriteAgent(s, patch)
    \/ \E l \in Scene.listings : Discover(l.server, l.tools)
    \/ \E role \in {"none", "coordinator", "child"}, first \in BOOLEAN : ResolveTools(role, first)
    \/ \E name \in Scene.calls \union DOMAIN surface.class, cut \in BOOLEAN : TurnEvents(name, cut)
    \/ \E content \in Scene.contents, live, written \in BOOLEAN, attach \in {"found", "absent"} :
          McpAnswer(content, live, attach, written)

SurfaceSpec == SurfaceInit /\ [][SurfaceNext]_tvars

-----------------------------------------------------------------------------
(* Properties.                                                             *)

Made == surface.state = "made"

\* An agent stored before the API's check may hold a name in two entries of
\* one kind, and both are offered.
StoredTwice(n) ==
    \E i, j \in DOMAIN spec.tools :
        /\ i < j /\ spec.tools[i].type = spec.tools[j].type
        /\ n \in Range(OwnNames(spec.tools[i])) \intersect Range(OwnNames(spec.tools[j]))

\* A request names no tool twice, but for a name its agent was stored with
\* twice in one kind; it carries no more than its budget of server
\* definitions and none that holds a secret, and each name it offers is
\* classed as the last definition of it the model was shown.
OfferIsOne ==
    Made => /\ \A i, j \in DOMAIN surface.defs :
                  surface.defs[i].name = surface.defs[j].name => i = j \/ StoredTwice(surface.defs[i].name)
            /\ \A i \in DOMAIN surface.defs :
                  LET d == surface.defs[i]
                  IN /\ (\A j \in DOMAIN surface.defs : j > i => surface.defs[j].name # d.name) => surface.class[d.name] = d.class
                     /\ Len(d.name) =< MaxModelToolName \/ d.class.kind # "mcp_tool_use"
                     /\ Secret \notin Range(d.class.tool)
            /\ surface.spent =< MaxMCPToolBytes

\* A tool the agent's author declared is never displaced by a server's: each
\* custom tool and enabled built-in is offered unless a platform tool or a
\* later entry of its own list holds the name.
OwnToolsStand ==
    Made => \A i \in DOMAIN spec.tools : \A n \in Range(OwnNames(spec.tools[i])) :
        \/ \E d \in Range(surface.defs) : d.name = n /\ d.class.kind # "mcp_tool_use" /\ (d.class.builtin <=> spec.tools[i].type = "builtins")
        \/ n \in Range(DelegationTools(surface.role))
        \/ \E j \in DOMAIN spec.tools : j > i /\ n \in Range(OwnNames(spec.tools[j]))

\* Nothing an entry configures or its server's listing holds is left out
\* without a note.
SkipsAreNoted ==
    Made => \A i \in DOMAIN spec.tools :
        LET e == spec.tools[i]
        IN e.type = "mcp" /\ e.server \in DOMAIN listed =>
             \A n \in (Names(listed[e.server]) \union Names(e.configs)) \ {<<>>} : IsOn(e, n) =>
                 \/ \E d \in Range(surface.defs) : d.class.server = e.server /\ d.class.tool = n
                 \/ \E why \in {"name", "taken", "budget", "unreported"} : <<n, why>> \in surface.notes

\* A call runs somewhere only when its name was shown to the model, where
\* that definition came from, under the policy its own entry gives it; a
\* call that was cut off runs nowhere.
CallsGoWhereOffered ==
    called.name # <<>> =>
        /\ called.answer = "elsewhere" =>
              \E d \in Range(surface.defs) : d.name = called.name /\ d.class.kind = called.kind /\ ~ called.cut
        /\ called.kind = "mcp_tool_use" =>
              \E i \in DOMAIN spec.tools :
                  LET e == spec.tools[i]
                  IN /\ e.type = "mcp" /\ e.server = called.server /\ IsOn(e, called.tool)
                     /\ called.tool \in Names(listed[e.server])
                     /\ (called.perm = "ask") <=> (PolicyOf(e, called.tool, "always_ask") = "always_ask")
        /\ called.answer = "delegated" => called.name \in Range(DelegationTools(surface.role))
        /\ called.answer \in {"unknown", "cut"} => called.perm = "deny"

\* An answer is never empty, keeps its blocks in order, says how many it
\* dropped and spends its budget once, one block excepted.  One that is not
\* lost has every text the server sent in the log whole; one that is lost
\* dropped a block or cut a text (an image or a blob that is only described,
\* and a long label, are not loss).  A spill is of a lost answer, and one that
\* failed to write is not tried again in the pass.
AnswersAreHonest ==
    LET texts == {c.text : c \in {d \in Range(reply.content) : d.type = "text" \/ (d.type = "resource" /\ d.data = 0)}} \ {0}
        whole == Rendered(reply.content)
        Cost(b) == b.bytes + BlockOverhead
        Total(except) == FoldLeft(+, 0, [i \in DOMAIN reply.blocks |-> IF i = except THEN 0 ELSE Cost(reply.blocks[i])])
    IN reply.turn > 0 =>
        /\ reply.blocks # <<>> \/ reply.dropped > 0
        /\ IsPrefix(reply.blocks, whole)
        /\ reply.dropped = Len(whole) - Len(reply.blocks)
        /\ \E i \in 0 .. Len(reply.blocks) : Total(i) =< MaxOutputBytes
        /\ ~ reply.lost => \A t \in texts : \E b \in Range(reply.blocks) : b.bytes = t
        /\ reply.lost => reply.dropped > 0 \/ \E t \in texts : \A b \in Range(reply.blocks) : b.bytes < t
        /\ reply.spilled => reply.lost /\ Scene.cloud
        /\ \A i \in DOMAIN spiller.tries : i < Len(spiller.tries) => spiller.tries[i]

\* What a read of the agent shows of a toolset is what a request resolves, for
\* every tool, and a client that writes back what it read is not refused.
EchoIsTrue ==
    /\ \A i \in DOMAIN spec.tools :
          LET e == spec.tools[i]
              shown == Materialize(e)
              unset == IF e.type = "mcp" THEN "always_ask" ELSE "always_allow"
              names == Range(Builtins) \union Names(e.configs) \union {<<"unlisted">>}
          IN e.type # "custom" =>
               /\ \A n \in names : IsOn(shown, n) = IsOn(e, n) /\ PolicyOf(shown, n, "unset") = PolicyOf(e, n, unset)
               /\ Names(shown.configs) = Names(e.configs)
    /\ \A full \in BOOLEAN :
          CheckAgentSpec(spec, full) => CheckAgentSpec([spec EXCEPT !.tools = [i \in DOMAIN @ |-> Materialize(@[i])]], full)

\* The surface, the calls made on it and the answers they get are what the
\* agent's own list, the servers' listings and the thread's role say.
ToolSurfaceIsSound == EchoIsTrue /\ OfferIsOne /\ OwnToolsStand /\ SkipsAreNoted /\ CallsGoWhereOffered /\ AnswersAreHonest
=============================================================================
