------------------------------- MODULE ToolFlow -------------------------------
(***************************************************************************)
(* What a session's event log says about its tool calls: which still wait,  *)
(* on whom, which answers may be consumed now, and which executor lane the  *)
(* runnable calls need next (internal/events/orderedtools.go, toolflow.go). *)
(*                                                                          *)
(* A log is the sequence of the session's tool-use events in seq order.  A  *)
(* call carries what later events say of it: the user.tool_confirmation     *)
(* received for it, whether that confirmation is processed, and whether its *)
(* result is missing, held (received, not processed) or done.  `answers'    *)
(* counts the result events that name the call.                             *)
(***************************************************************************)
EXTENDS Integers, Sequences, FiniteSets

CONSTANT Threads    \* the session's threads

\* The lanes that run a call: the executor's sandbox for a built-in tool, or the
\* customer's own fleet in a self_hosted environment; the web tools; the MCP
\* servers; and the client itself for a custom tool.
Lanes == {"tool", "fleet", "web", "mcp", "custom"}

Call == [thread : Threads, lane : Lanes, perm : {"allow", "ask"},
         conf : {"none", "allow", "deny"}, confirmed : BOOLEAN,
         result : {"none", "held", "done"}, answers : 0..2]

\* A call as the turn that made it writes it.
NewCall(t, use) == [thread |-> t, lane |-> use.lane, perm |-> use.perm, conf |-> "none",
                    confirmed |-> FALSE, result |-> "none", answers |-> 0]

\* The asks and external classification every reading of a wait takes.
Asks(c) == c.perm = "ask"
WorkerCall(c) == c.lane = "fleet"
External(c) == c.lane = "custom" \/ WorkerCall(c)

\* A call that waits on someone outside the platform.
Waits(c) == External(c) \/ (Asks(c) /\ ~c.confirmed)

\* threadCallsOf: the thread's calls whose result is not processed.
Unsettled(log, t) == {i \in DOMAIN log : log[i].thread = t /\ log[i].result # "done"}

IsHead(log, i) == \A j \in Unsettled(log, log[i].thread) : i <= j

\* summarizeTools.
Flow(log, t) ==
    LET open == Unsettled(log, t) IN
    [pending   |-> {i \in open : Waits(log[i])},
     unsettled |-> open # {},
     runnable  |-> \E i \in open : IsHead(log, i) /\ ~Waits(log[i]) /\ log[i].result = "none"]

\* ToolFlow.Running.
Running(flow) == ~flow.unsettled \/ flow.runnable

-----------------------------------------------------------------------------
(* The ordered walk. *)

\* walkReady goes on past a call only once it is resolved; it consumes a call
\* that has its result, or its confirmation.
Resolves(c) == c.result = "held" \/ (Asks(c) /\ c.conf = "deny")
Consumable(c) == c.result = "held" \/ (Asks(c) /\ c.conf # "none")

Reached(log, i) == \A j \in Unsettled(log, log[i].thread) : j < i => Resolves(log[j])

\* A call with its result processed; `written' counts the result events the
\* settlement writes for it (0 when it had one).
Settled(c, confirmed, written) ==
    [thread |-> c.thread, lane |-> c.lane, perm |-> c.perm, conf |-> c.conf,
     confirmed |-> confirmed, result |-> "done", answers |-> c.answers + written]

\* What consuming does: a result is stamped with its confirmation; a denial is
\* stamped and answered with an error result; an allow only releases the call.
Consume(c) ==
    CASE c.result = "held" -> Settled(c, c.conf # "none", 0)
      [] c.result # "held" /\ c.conf = "deny" -> Settled(c, TRUE, 1)
      [] OTHER -> [c EXCEPT !.confirmed = TRUE]

\* AdvanceThreadTools, of each of the threads.
Advance(log, ts) ==
    [i \in DOMAIN log |->
        IF log[i].thread \in ts /\ log[i].result # "done" /\ Reached(log, i) /\ Consumable(log[i])
        THEN Consume(log[i]) ELSE log[i]]

-----------------------------------------------------------------------------
(* A send's answers.  An answer is a call's index and what is said of it. *)

Answer(log) == [call : DOMAIN log, says : {"result", "allow", "deny"}]

\* processedPermission.
Permitted(c) == ~Asks(c) \/ (c.confirmed /\ c.conf = "allow")

\* runnableToolUse's permission: a received allow is enough.
Released(c) == ~Asks(c) \/ c.conf = "allow"

\* ValidateToolResults and ValidateToolConfirmations: a result is for a custom
\* call or a sandbox built-in (in a cloud environment too) that is unanswered
\* and, when gated, already allowed; a confirmation is for a gated call that no
\* confirmation or result reached before.
Valid(log, a) ==
    LET c == log[a.call] IN
    /\ c.result = "none"
    /\ IF a.says = "result" THEN c.lane \in {"tool", "fleet", "custom"} /\ Released(c)
                            ELSE Asks(c) /\ c.conf = "none"

\* A send answers no call twice.
ValidBatch(log, batch) ==
    /\ \A a \in batch : Valid(log, a)
    /\ \A a, b \in batch : a.call = b.call => a = b

\* The batches of at most two answers that a send addressed to thread t may carry.
Batches(log, t) ==
    LET valid == {a \in Answer(log) : log[a.call].thread = t /\ Valid(log, a)} IN
    {batch \in {{a, b} : a, b \in valid} : ValidBatch(log, batch)}

Says(batch, i, what) == [call |-> i, says |-> what] \in batch

\* The answers appended to the log, received and not yet processed.
Received(log, batch) ==
    [i \in DOMAIN log |->
        [log[i] EXCEPT
            !.conf = IF Says(batch, i, "allow") THEN "allow"
                     ELSE IF Says(batch, i, "deny") THEN "deny" ELSE @,
            !.result = IF Says(batch, i, "result") THEN "held" ELSE @,
            !.answers = IF Says(batch, i, "result") THEN @ + 1 ELSE @]]

\* AnswerPlan.walk, before the append: the calls its walk resolves, the posted
\* answers read as though on the log, and the ones whose denial it writes
\* itself (a denial it reaches at or after a posted answer).
Resolved(log, batch, t) ==
    LET seen == Received(log, batch) IN
    {i \in Unsettled(seen, t) : Reached(seen, i) /\ Resolves(seen[i])}

Written(log, batch, t) ==
    {i \in Resolved(log, batch, t) :
        /\ Received(log, batch)[i].result = "none"
        /\ \E a \in batch : log[a.call].thread = t /\ a.call <= i}

\* AnswerPlan.Settle: the flow the send plans, and moves the thread by.
Planned(log, batch, t) ==
    LET seen == Received(log, batch) IN
    Flow([i \in DOMAIN log |->
            IF i \in Resolved(log, batch, t) THEN [seen[i] EXCEPT !.result = "done"]
            ELSE IF i \in Unsettled(seen, t) /\ Reached(seen, i) /\ Consumable(seen[i])
                 THEN [seen[i] EXCEPT !.confirmed = TRUE] ELSE seen[i]], t)

\* The log the send's batch leaves before its settlement walks it: the answers
\* received, the denials the plan wrote stamped with their confirmations.
Appended(log, batch, ts) ==
    LET seen == Received(log, batch)
        written == UNION {Written(log, batch, t) : t \in ts} IN
    [i \in DOMAIN log |-> IF i \in written THEN Consume(seen[i]) ELSE seen[i]]

-----------------------------------------------------------------------------
(* Lanes. *)

\* RunnableExecClass: a self-hosted worker's calls need neither be at their
\* thread's head nor have their allow processed.
Runnable(log, i) ==
    /\ log[i].lane # "custom"
    /\ log[i].result = "none"
    /\ Released(log[i])
    /\ WorkerCall(log[i]) \/ (IsHead(log, i) /\ Permitted(log[i]))

Needs(log, lane) == \E i \in DOMAIN log : log[i].lane = lane /\ Runnable(log, i)

\* MCP first, then web, then the sandbox: the kind of the item to queue, which is
\* tool_exec in both kinds of environment.
ExecClass(log) == CASE Needs(log, "mcp") -> "mcp"
                    [] ~Needs(log, "mcp") /\ Needs(log, "web") -> "web"
                    [] ~Needs(log, "mcp") /\ ~Needs(log, "web")
                           /\ (Needs(log, "tool") \/ Needs(log, "fleet")) -> "tool"
                    [] OTHER -> "none"

\* RunnableToolUses: per thread the contiguous ready prefix, all of one lane.
InReadyPrefix(log, i, lane) ==
    \A j \in Unsettled(log, log[i].thread) :
        j <= i => log[j].lane = lane /\ log[j].result = "none" /\ Permitted(log[j])

RunnableUses(log, lane) ==
    {i \in DOMAIN log : log[i].result # "done" /\ InReadyPrefix(log, i, lane)}

-----------------------------------------------------------------------------
(* Interrupts. *)

\* InterruptResults, UnansweredThreadToolUses and StampSupersededAnswers: every
\* unanswered call of the threads is answered with an error, and a confirmation
\* still held for it is consumed.  The walk that follows consumes the results
\* they still held.
Abandon(log, ts) ==
    [i \in DOMAIN log |->
        IF log[i].thread \in ts /\ log[i].result = "none"
        THEN Settled(log[i], log[i].conf # "none", 1) ELSE log[i]]
=============================================================================
