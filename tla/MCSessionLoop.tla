---------------------------- MODULE MCSessionLoop ----------------------------
\* Small instances of SessionLoop.  A reply is the calls a turn makes and the
\* delegation calls it carries; <<>> and <<>> is no reply with tools, which
\* FinishTurn stands for.  envs are the environments in which an instance lets a
\* model give it.
EXTENDS SessionLoop, TLC

Use(lane, perm) == [lane |-> lane, perm |-> perm]
Op(op, to) == [op |-> op, to |-> to]
Uses(s) == [uses |-> s, ops |-> <<>>, envs |-> EnvKinds]
Ops(s) == [uses |-> <<>>, ops |-> s, envs |-> EnvKinds]

\* One thread, every lane: gated and not, alone and in mixed order.
ToolReplies ==
    {Uses(<<Use("tool", "allow"), Use("mcp", "ask")>>),
     Uses(<<Use("mcp", "ask"), Use("web", "allow"), Use("tool", "allow")>>),
     Uses(<<Use("custom", "allow"), Use("tool", "ask")>>),
     Uses(<<Use("tool", "ask"), Use("tool", "allow"), Use("tool", "ask")>>),
     Uses(<<Use("tool", "allow")>>)}

\* Delegation: the coordinator's ops and the children's, alone, together and
\* beside a call of another lane.
TeamReplies ==
    {Ops(<<Op("create", Null), Op("wait", Null)>>),
     Ops(<<Op("wait", Null)>>),
     Ops(<<Op("send", CHOOSE c \in Children : TRUE)>>),
     Ops(<<Op("submit", Null)>>),
     [uses |-> <<Use("custom", "allow")>>, ops |-> <<Op("parent", Null)>>,
      envs |-> EnvKinds],
     Uses(<<Use("mcp", "ask")>>)}

PlainTeamReplies == {r \in TeamReplies : r.uses = <<>>}

\* The replies a model gives in one environment.
Only(env, replies) == {[r EXCEPT !.envs = {env}] : r \in replies}

\* Two instances of a team in one run: two brains at delegation alone, in the
\* cloud; and one brain beside a driver and the calls, self-hosted.
ScenedReplies == Only("cloud", PlainTeamReplies) \cup Only("self_hosted", TeamReplies)
Resting(env) == IF env = "cloud" THEN Drivers ELSE {CHOOSE b \in Brains : TRUE}
SceneHolds == \A w \in Resting(db.env) : job'[w] = Off

\* An MCP call, and a worker's call made beside it by another thread.
MixedReplies ==
    {Uses(<<Use("mcp", "allow")>>), Uses(<<Use("tool", "allow")>>),
     Ops(<<Op("create", Null)>>)}

Symmetry == Permutations(Brains) \cup Permutations(Drivers)
=============================================================================
