------------------------------ MODULE SessionLoop ------------------------------
(***************************************************************************)
(* One session's work loop: the client's sends, the brains that run model   *)
(* turns, the drivers that run tool calls and the outputs harvest, all      *)
(* meeting in the session's rows under its row lock.                        *)
(*                                                                          *)
(* `log' and `db' are what is committed: the tool-use events (ToolFlow), and *)
(* the threads, the session status folded over them, the input no model     *)
(* request has read, the live work item of each slot with the worker that   *)
(* can prove its claim (ClaimLane proves that at most one can) and the      *)
(* delegation budget.  A transaction of the code is one action.  `job' is   *)
(* what each worker holds in memory between two transactions.  `calm'    *)
(* says that the client has stopped and nothing fails any more; only the    *)
(* liveness specification ever sets it.                                     *)
(***************************************************************************)
EXTENDS ToolFlow

CONSTANTS
    EnvKinds,           \* the kinds of environment the session may be in
    Primary,            \* the coordinator's thread
    Brains, Drivers,    \* the processes
    Null,
    Replies,            \* what a model may answer: [uses, ops, envs], in which environments
    MaxSettlementChain, \* maxSettlementChain
    MaxRunTurns,        \* maxSessionDelegationTurns
    MaxLive,            \* maxLiveThreads
    MaxCalls            \* bound of the model: the calls a session ever makes

Children == Threads \ {Primary}
Execs == {"tool", "web", "mcp"}
Slots == Threads \cup Execs \cup {"harvest"}
Workers == Brains \cup Drivers

\* The slots the drivers serve.  A self-hosted environment's tool_exec is its own
\* fleet's (WireLane).
DriverSlots(env) == IF env = "cloud" THEN Execs \cup {"harvest"} ELSE {"web", "mcp"}

ASSUME SessionAssumption ==
    /\ EnvKinds \subseteq {"cloud", "self_hosted"}
    /\ Primary \in Threads
    /\ Brains \cap Drivers = {}
    /\ Null \notin Workers \cup Slots
    /\ Threads \cap (Execs \cup {"harvest"}) = {}

\* A reply calls built-in tools of the sandbox or the web, MCP tools, custom ones
\* and delegation tools.
ASSUME ReplyAssumption ==
    \A r \in Replies :
        /\ r.uses \in Seq([lane : Lanes, perm : {"allow", "ask"}])
        /\ r.ops \in Seq([op : {"create", "send", "list", "wait", "submit", "parent"},
                         to : Threads \cup {Null}])

VARIABLES log, db, job, calm
vars == <<log, db, job, calm>>

Status == [status : {"absent", "running", "idle", "terminated"},
           stop : {"none", "end_turn", "requires_action", "retries_exhausted"},
           ids : SUBSET (1..MaxCalls)]

RunningNow == [status |-> "running", stop |-> "none", ids |-> {}]
IdleOn(why, ids) == [status |-> "idle", stop |-> why, ids |-> ids]
EndTurn == IdleOn("end_turn", {})

Off == [slot |-> Null, phase |-> "off", plan |-> {}]

TypeOK ==
    /\ log \in Seq(Call) /\ Len(log) <= MaxCalls
    /\ db.env \in EnvKinds
    /\ DOMAIN db = {"env", "th", "sess", "unread", "item", "chain", "own", "spent",
                    "archived", "parked", "halted"}
    /\ db.th \in [Threads -> Status]
    /\ db.sess \in {"running", "idle"}
    /\ db.unread \in [Threads -> SUBSET {"user", "result", "peer"}]
    /\ db.item \in [Slots -> {"none", "queued", "active"}]
    /\ db.chain \in [Threads -> 0..(MaxSettlementChain - 1)]
    /\ db.own \in [Slots -> Workers \cup {Null}]
    /\ db.spent \in Nat
    /\ {db.archived, db.parked, db.halted} \subseteq BOOLEAN
    /\ \A w \in Workers : /\ job[w].slot \in Slots \cup {Null}
                          /\ job[w].phase \in {"off", "claimed", "admitted", "cleared", "asking", "running"}
                          /\ job[w].plan \subseteq 1..MaxCalls

-----------------------------------------------------------------------------
(* The session's rows. *)

\* foldSession, over the threads that are live (a terminated or absent thread
\* counts for nothing).
Fold(th) == IF \E t \in Threads : th[t].status = "running" THEN "running" ELSE "idle"

\* TransitionThread, of each thread `to' maps to its new status: the session's is
\* folded with it.
\* `parked' and `halted' are history: the primary idles in a wait_for_agents, or
\* because the client interrupted it.
MoveAll(d, to) ==
    LET th == [t \in Threads |-> IF t \in DOMAIN to THEN to[t] ELSE d.th[t]] IN
    [d EXCEPT !.th = th, !.sess = Fold(th),
              !.parked = @ /\ Primary \notin DOMAIN to,
              !.halted = @ /\ ~(Primary \in DOMAIN to /\ th[Primary].status = "running")]

Move(d, t, s) == MoveAll(d, [x \in {t} |-> s])

Live(d) == {t \in Threads : d.th[t].status \in {"running", "idle"}}

\* Enqueue: dropped when the slot has a live item.
Enqueue(d, s) == IF d.item[s] = "none" THEN [d EXCEPT !.item[s] = "queued"] ELSE d

\* EnqueueThread of a model_turn: a fresh item's settlement chain is zero.
EnqueueTurns(d, ts) ==
    LET fresh == {t \in ts : d.item[t] = "none"} IN
    [d EXCEPT !.item = [s \in Slots |-> IF s \in fresh THEN "queued" ELSE @[s]],
              !.chain = [t \in Threads |-> IF t \in fresh THEN 0 ELSE @[t]]]
EnqueueTurn(d, t) == EnqueueTurns(d, {t})

\* Mutant: one thread's cancel takes the session's other items with it.
CancelEverything(d, ss) == [d EXCEPT !.item = [s \in Slots |-> "none"], !.own = [s \in Slots |-> Null]]

\* Complete and Requeue, by the item's holder; CancelSession and CancelThread.
Complete(d, s) == [d EXCEPT !.item[s] = "none", !.own[s] = Null]
Requeue(d, s) == [d EXCEPT !.item[s] = "queued", !.own[s] = Null]
RequeueTurn(d, t, n) == [Requeue(d, t) EXCEPT !.chain[t] = n]
Cancel(d, ss) == [d EXCEPT !.item = [s \in Slots |-> IF s \in ss THEN "none" ELSE @[s]],
                           !.own = [s \in Slots |-> IF s \in ss THEN Null ELSE @[s]]]

\* enqueueRunnableTools, execKindFor and the work API's rearm.
EnqueueExec(d, l) == LET k == ExecClass(l) IN IF k = "none" THEN d ELSE Enqueue(d, k)

\* enqueueIdleHarvest: the commit folded a cloud session idle.
IdleHarvest(before, d) ==
    IF d.env = "cloud" /\ before.sess # "idle" /\ d.sess = "idle"
    THEN Enqueue(d, "harvest") ELSE d

\* SettleTransition, and SettleToolFlow of each of the threads.
SettleTo(flow) == IF Running(flow) THEN RunningNow ELSE IdleOn("requires_action", flow.pending)

SettleFlow(d, l, ts) == MoveAll(d, [t \in ts \cap Live(d) |-> SettleTo(Flow(l, t))])

\* settleTools: what follows a turn that made calls others must answer; l is the
\* log it advanced.
SettleTools(d, l, t) ==
    LET d1 == EnqueueExec(SettleFlow(d, l, {t}), l) IN
    IF Unsettled(l, t) = {} THEN EnqueueTurn(d1, t) ELSE d1

\* AppendInTx of a client's demand returns the delegation budget.
Demand(d) == [d EXCEPT !.unread[Primary] = @ \cup {"user"}, !.spent = 0]

-----------------------------------------------------------------------------
(* Messages between threads. *)

Unanswered(t) == {i \in DOMAIN log : log[i].thread = t /\ log[i].result = "none"}

\* wakeThread's rule.
Wakeable(d, t) == /\ d.th[t].status = "idle"
                  /\ d.th[t].stop \in {"none", "end_turn"}
                  /\ Unanswered(t) = {}

Tell(d, t) == [d EXCEPT !.unread[t] = @ \cup {"peer"}]

\* DeliverAndWake, with the turn its caller enqueues for a wake.
Deliver(d, t) ==
    IF Wakeable(d, t) THEN EnqueueTurn(Move(Tell(d, t), t, RunningNow), t) ELSE Tell(d, t)

\* busyChild.
Busy(d, c) == /\ c \in Children
              /\ \/ d.th[c].status = "running"
                 \/ d.th[c].status = "idle" /\ d.th[c].stop = "requires_action"

\* Mutant: an ending only leaves its notice.
NoticeOnly(d, c) == IF c = Primary THEN d ELSE Tell(d, Primary)

\* childEndedNotice and DeliverThreadEnded: the notice, and the wake when the
\* child was the last busy one; nothing for the primary.  It runs before the
\* ending thread's own transition.
Ended(d, c) ==
    CASE c = Primary -> d
      [] c # Primary /\ Busy(d, c) /\ ~\E o \in Children \ {c} : Busy(d, o) -> Deliver(d, Primary)
      [] OTHER -> Tell(d, Primary)

-----------------------------------------------------------------------------
(* Delegation calls: a reply's ops, run in model order inside the commit.  An  *)
(* op is [op, to]; `to' matters to send_to_agent alone.  `acc' is what they    *)
(* did: the rows, whether a thread was woken, the wait's park, the report.     *)

\* wrongRole: the coordinator's half and the children's.
Offered(t, op) == op \in (IF t = Primary THEN {"create", "send", "list", "wait"}
                                         ELSE {"submit", "parent"})

\* createAgent: an absent thread stands for the fresh id.
CreateAgent(acc) ==
    LET fresh == {c \in Children : acc.d.th[c].status = "absent"} IN
    IF Cardinality(Live(acc.d)) >= MaxLive \/ fresh = {} THEN acc
    ELSE LET c == CHOOSE c \in fresh : TRUE IN
         [acc EXCEPT !.d = EnqueueTurn(Move(Tell(@, c), c, RunningNow), c), !.woke = TRUE]

Report(acc, to) == [acc EXCEPT !.d = Deliver(@, to), !.woke = @ \/ Wakeable(acc.d, to)]

SendToAgent(acc, to) ==
    IF to \in Children \cap Live(acc.d) /\ acc.d.th[to].stop # "retries_exhausted"
    THEN Report(acc, to) ELSE acc

\* waitForAgents: parks on a busy child, unless there is something to read.  Each
\* wait is judged afresh; the code answers a turn's second wait as its first, until
\* the turn spawns a thread.  No call is cut off by the output cap.
WaitForAgents(acc) ==
    [acc EXCEPT !.park = @ \/ (acc.d.unread[Primary] = {} /\ \E c \in Children : Busy(acc.d, c))]

SubmitResult(acc) == IF acc.alone THEN [Report(acc, Primary) EXCEPT !.ended = TRUE] ELSE acc

\* delegate.run: one op; a name of the other half is answered and does nothing.
RunOp(t, acc, o) ==
    CASE ~Offered(t, o.op) -> acc
      [] o.op = "create" /\ Offered(t, o.op) -> CreateAgent(acc)
      [] o.op = "send" /\ Offered(t, o.op)   -> SendToAgent(acc, o.to)
      [] o.op = "wait" /\ Offered(t, o.op)   -> WaitForAgents(acc)
      [] o.op = "submit" /\ Offered(t, o.op) -> SubmitResult(acc)
      [] o.op = "parent" /\ Offered(t, o.op) -> Report(acc, Primary)
      [] OTHER -> acc     \* list_agents reads

\* chainCapped, of a turn whose item carries a chain of n.
Capped(n) == n + 1 >= MaxSettlementChain

\* The run's budget is charged for a turn with an op of its thread's half.
Charged(d, t, ops) ==
    [d EXCEPT !.spent = IF \E n \in DOMAIN ops : Offered(t, ops[n].op) THEN @ + 1 ELSE @]

\* The ops of a turn, one after the other.  `alone' is settlementOnly: no call
\* is left to others.
RunOps(d0, t, alone, ops) ==
    LET ran[n \in 0..Len(ops)] ==
            IF n = 0 THEN [d |-> d0, woke |-> FALSE, park |-> FALSE, ended |-> FALSE, alone |-> alone]
            ELSE RunOp(t, ran[n - 1], ops[n]) IN
    ran[Len(ops)]

\* commitDelegatedTurn.
Delegated(d0, l, t, alone, ops) ==
    LET acc == RunOps(d0, t, alone, ops)
        d1 == Charged(acc.d, t, ops)
        rests == alone /\ (acc.park \/ acc.ended)
        capped == alone /\ ~rests /\ ~acc.woke /\ Capped(d0.chain[t])
        input == d1.unread[t] # {} IN
    CASE ~alone -> SettleTools(Complete(d1, t), l, t)
      [] alone /\ (rests \/ capped) /\ input -> RequeueTurn(d1, t, 0)
      [] alone /\ (rests \/ capped) /\ ~input ->
             LET told == IF capped THEN Ended(d1, t) ELSE d1 IN
             [Move(Complete(told, t), t, EndTurn) EXCEPT !.parked = (t = Primary /\ acc.park) \/ (t # Primary /\ @)]
      [] OTHER -> RequeueTurn(d1, t, IF acc.woke THEN 0 ELSE d0.chain[t] + 1)

-----------------------------------------------------------------------------
Init ==
    /\ log = <<>>
    /\ \E env \in EnvKinds :
       db = [env |-> env,
             th |-> [t \in Threads |-> IF t = Primary THEN IdleOn("none", {})
                                       ELSE [status |-> "absent", stop |-> "none", ids |-> {}]],
             sess |-> "idle", unread |-> [t \in Threads |-> {}],
             item |-> [s \in Slots |-> "none"], chain |-> [t \in Threads |-> 0],
             own |-> [s \in Slots |-> Null], spent |-> 0,
             archived |-> FALSE, parked |-> FALSE, halted |-> FALSE]
    /\ job = [w \in Workers |-> Off]
    /\ calm = FALSE

(* The client. *)

\* ThreadWaits and CheckWhileAwaiting: what an idle primary still awaits.
Awaited(t) ==
    {i \in Unsettled(log, t) :
        /\ log[i].conf # "deny"
        /\ (Asks(log[i]) /\ log[i].conf = "none") \/ (External(log[i]) /\ log[i].result = "none")}

\* A user.message: it wakes an idle primary at rest, is refused by one that
\* awaits a response, and otherwise is queued for the next request.
SendMessage ==
    /\ ~calm /\ ~db.archived
    /\ db.th[Primary].status = "idle" => Awaited(Primary) = {}
    /\ db' = LET d == Demand(db) IN
             IF d.th[Primary].status = "idle" /\ Unsettled(log, Primary) = {}
             THEN EnqueueTurn(Move(d, Primary, RunningNow), Primary) ELSE d
    /\ UNCHANGED <<log, job, calm>>

\* A posted result is input until the thread's next request starts.
Posted(d, batch, t) ==
    [d EXCEPT !.unread[t] = IF \E a \in batch : a.says = "result" THEN @ \cup {"result"} ELSE @]

\* A send of answers to one thread's calls: the plan moves the thread, the walk
\* settles it, and the send fails when the two disagree.
SendAnswers ==
    \E t \in Live(db) : \E batch \in Batches(log, t) :
        LET flow == Planned(log, batch, t)
            d == EnqueueExec(Move(Posted(db, batch, t), t, SettleTo(flow)), log') IN
        /\ ~calm /\ ~db.archived
        /\ log' = Advance(Appended(log, batch, {t}), {t})
        /\ Flow(log', t) = flow
        /\ db' = IF Unsettled(log', t) = {} THEN EnqueueTurn(d, t) ELSE d
        /\ UNCHANGED <<job, calm>>

\* interruptThreadInTx's settling guard.
Interruptible(t) == db.th[t].status = "running" \/ Unsettled(log, t) # {}

\* The threads' open calls abandoned, and the answers they held consumed.
Abandoned(l, ts) == Advance(Abandon(l, ts), ts)

Halt(d) == [d EXCEPT !.halted = d.th[Primary].status = "idle", !.parked = FALSE]

\* The redirect: a message in the interrupt's own batch starts a new cycle.
Resume(d, redirect) ==
    IF redirect THEN EnqueueTurn(Move(Demand(d), Primary, RunningNow), Primary) ELSE d

\* A session-wide user.interrupt (or one naming every live thread): no notice is
\* sent, and every live item is cancelled if anything was stopped.
InterruptAll ==
    \E redirect \in BOOLEAN :
        LET stopped == {t \in Live(db) : Interruptible(t)}
            d == MoveAll(db, [t \in stopped |-> EndTurn]) IN
        /\ ~calm /\ ~db.archived
        /\ log' = Abandoned(log, stopped)
        /\ db' = Resume(Halt(IF stopped = {} THEN d ELSE Cancel(d, Slots)), redirect)
        /\ UNCHANGED <<job, calm>>

\* An interrupt of one thread among several: a child's coordinator is told and
\* perhaps woken, and only the thread's own turn is cancelled.
InterruptThread(t) ==
    LET d == Cancel(Move(Ended(db, t), t, EndTurn), {t}) IN
    /\ ~calm /\ ~db.archived
    /\ t \in Live(db) /\ Live(db) # {t}
    /\ Interruptible(t)
    /\ log' = Abandoned(log, {t})
    /\ db' = IF t = Primary THEN Halt(d) ELSE d
    /\ UNCHANGED <<job, calm>>

\* terminateThread.
Gone == [status |-> "terminated", stop |-> "none", ids |-> {}]

\* archiveThread: only an idle child.
ArchiveThread(c) ==
    /\ ~calm /\ c \in Children /\ db.th[c].status = "idle"
    /\ log' = Abandoned(log, {c})
    /\ db' = Move(Ended(db, c), c, Gone)
    /\ UNCHANGED <<job, calm>>

\* archiveSession: only a session that is not running.
ArchiveSession ==
    LET ended == Children \cap Live(db)
        open == Unsettled(log, Primary) # {}
        d == MoveAll(db, [t \in ended |-> Gone]) IN
    /\ ~calm /\ ~db.archived /\ db.sess # "running"
    /\ log' = Abandoned(log, ended \cup (IF open THEN {Primary} ELSE {}))
    /\ db' = [(IF open THEN Cancel(Move(d, Primary, EndTurn), Slots) ELSE d) EXCEPT !.archived = TRUE]
    /\ UNCHANGED <<job, calm>>

-----------------------------------------------------------------------------
(* The queue, as its claimants see it. *)

Holds(w) == job[w].slot # Null /\ db.own[job[w].slot] = w

\* A worker's next transaction on its slot: it commits only with the proof that
\* the item is still its own (Complete, Requeue and Assert carry it).
Commits(w, d) == Holds(w) /\ ~db.archived /\ db' = d

Serves(w, s) == s \in (IF w \in Brains THEN Threads ELSE DriverSlots(db.env))

\* Claim: a queued item, or an active one whose lease lapsed.
Claim(w, s) ==
    /\ job[w] = Off /\ Serves(w, s)
    /\ db.item[s] # "none" /\ db.own[s] = Null
    /\ db' = [db EXCEPT !.item[s] = "active", !.own[s] = w]
    /\ job' = [job EXCEPT ![w] = [Off EXCEPT !.slot = s, !.phase = "claimed"]]
    /\ UNCHANGED <<log, calm>>

\* The holder died, or stalled until its lease lapsed; it may still be running.
Lapse(s) ==
    /\ db.own[s] # Null /\ ~calm
    /\ db' = [db EXCEPT !.own[s] = Null]
    /\ UNCHANGED <<log, job, calm>>

\* A worker whose item was taken or cancelled finds out at its next proof, and
\* one whose session was archived at its next append: it leaves the item, if it
\* still has it, to its lease.
Abort(w) ==
    /\ job[w] # Off
    /\ ~Holds(w) \/ (db.archived /\ job[w].phase # "claimed")
    /\ db' = IF Holds(w) THEN [db EXCEPT !.own[job[w].slot] = Null] ELSE db
    /\ job' = [job EXCEPT ![w] = Off]
    /\ UNCHANGED <<log, calm>>

Done(w) == job' = [job EXCEPT ![w] = Off]

-----------------------------------------------------------------------------
(* A brain: claimLiveSession, cutExhaustedRun, the request, its settlement. *)

Phase(w, p) == job[w].phase = p

\* claimLiveSession: stale work is completed, a thread with unsettled calls is
\* settled instead of run.
AdmitTurn(b) ==
    LET t == job[b].slot
        stale == db.archived \/ db.th[t].status # "running" IN
    /\ Phase(b, "claimed") /\ Holds(b)
    /\ log' = IF stale THEN log ELSE Advance(log, {t})
    /\ CASE stale -> db' = Complete(db, t) /\ Done(b)
         [] ~stale /\ Unsettled(log', t) # {} ->
                db' = EnqueueExec(Complete(SettleFlow(db, log', {t}), t), log') /\ Done(b)
         [] OTHER -> db' = db /\ job' = [job EXCEPT ![b].phase = "admitted"]
    /\ UNCHANGED calm

\* pendingInput: a client's message no request has read, or a result it posted
\* since the last one started.
PendingInput(t) == db.unread[t] \cap {"user", "result"} # {}

\* Mutant: the budget is compared one late.
ExhaustedLate(t) == db.spent > MaxRunTurns /\ ~PendingInput(t)

\* cutExhaustedRun's test: the budget is spent and no client input waits.
Exhausted(t) == db.spent >= MaxRunTurns /\ ~PendingInput(t)

\* What every ending of a turn does: the coordinator is told, the thread idles,
\* the item completes, and an idle session is harvested.
EndThread(d, t, stop) == IdleHarvest(d, Complete(Move(Ended(d, t), t, stop), t))

RefuseTurn(b) ==
    /\ Phase(b, "admitted") /\ Exhausted(job[b].slot)
    /\ Commits(b, EndThread(db, job[b].slot, EndTurn))
    /\ Done(b) /\ UNCHANGED <<log, calm>>

\* The budget is not spent, when it is read; another thread may spend it next.
ClearTurn(b) ==
    /\ Phase(b, "admitted") /\ ~Exhausted(job[b].slot)
    /\ job' = [job EXCEPT ![b].phase = "cleared"]
    /\ UNCHANGED <<log, db, calm>>

\* The model request's start consumes the thread's input.
StartRequest(b) ==
    /\ Phase(b, "cleared")
    /\ Commits(b, [db EXCEPT !.unread[job[b].slot] = {}])
    /\ job' = [job EXCEPT ![b].phase = "asking"]
    /\ UNCHANGED <<log, calm>>

\* Mutant: the turn ends without looking for input that arrived since.
SettleTurnUnread(b, stop) ==
    /\ Phase(b, "asking")
    /\ Commits(b, EndThread(db, job[b].slot, stop))
    /\ Done(b) /\ UNCHANGED <<log, calm>>

\* settle and settleEndTurn: input that arrived since chains another turn.
SettleTurn(b, stop) ==
    LET t == job[b].slot IN
    /\ Phase(b, "asking")
    /\ Commits(b, IF db.unread[t] # {} THEN RequeueTurn(db, t, 0) ELSE EndThread(db, t, stop))
    /\ Done(b) /\ UNCHANGED <<log, calm>>

\* The model answered without a call, or its request failed.
FinishTurn(b) == SettleTurn(b, EndTurn)
FailTurn(b) == SettleTurn(b, IdleOn("retries_exhausted", {}))

\* No provider routes the model: the failure consumes the messages the thread held.
FailUnrouted(b) ==
    LET t == job[b].slot IN
    /\ Phase(b, "cleared")
    /\ Commits(b, EndThread([db EXCEPT !.unread[t] = @ \cap {"result"}], t, IdleOn("retries_exhausted", {})))
    /\ Done(b) /\ UNCHANGED <<log, calm>>

\* releaseStartedTurn: a platform fault before the model is asked.
ReleaseTurn(b) ==
    /\ Phase(b, "asking") /\ ~calm
    /\ Commits(b, RequeueTurn(db, job[b].slot, 0))
    /\ Done(b) /\ UNCHANGED <<log, calm>>

\* Who runs a call the model made, in the session's environment.
InEnv(use) == [lane |-> IF use.lane = "tool" /\ db.env = "self_hosted" THEN "fleet" ELSE use.lane,
               perm |-> use.perm]

\* commitTurn: the reply's calls are appended and its ops answered.
CommitTurn(b) ==
    \E r \in Replies :
        LET t == job[b].slot
            calls == [n \in DOMAIN r.uses |-> NewCall(t, InEnv(r.uses[n]))] IN
        /\ Phase(b, "asking") /\ db.env \in r.envs
        /\ Len(log) + Len(calls) <= MaxCalls
        /\ log' = IF calls = <<>> THEN log ELSE Advance(log \o calls, {t})
        /\ Commits(b, IdleHarvest(db, IF r.ops = <<>> THEN SettleTools(Complete(db, t), log', t)
                                      ELSE Delegated(db, log', t, r.uses = <<>>, r.ops)))
        /\ Done(b) /\ UNCHANGED calm

-----------------------------------------------------------------------------
(* A driver: sessionForRun, the pass, its settlement. *)

Active(d, s) == d.item[s] = "active"

\* sessionForRun: an exec item wants a running session and no harvest under
\* way; a harvest wants nothing runnable and no driver at work.
AdmitRun(w) ==
    LET s == job[w].slot
        stale == db.archived \/ (db.sess # "running" /\ s # "harvest")
        obsolete == s = "harvest" /\ (ExecClass(log) # "none" \/ \E k \in Execs : Active(db, k))
        behind == s # "harvest" /\ Active(db, "harvest") IN
    /\ Phase(w, "claimed") /\ Holds(w)
    /\ CASE stale \/ obsolete -> db' = Complete(db, s) /\ Done(w)
         [] ~stale /\ ~obsolete /\ behind -> db' = Requeue(db, s) /\ Done(w)
         [] OTHER -> db' = db /\ job' = [job EXCEPT ![w].phase = "admitted"]
    /\ UNCHANGED <<log, calm>>

\* RunnableToolUses, read without the lock.
ScanUses(w) ==
    /\ Phase(w, "admitted") /\ job[w].slot \in Execs
    /\ job' = [job EXCEPT ![w].phase = "running", ![w].plan = RunnableUses(log, job[w].slot)]
    /\ UNCHANGED <<log, db, calm>>

\* Mutant: the driver appends a result for every call it ran.
AppendResults(l, done) ==
    [i \in DOMAIN l |-> IF i \in done THEN Settled(l[i], l[i].confirmed, 1) ELSE l[i]]

\* commitResults drops a result whose call was answered under the pass.
WithResults(l, done) ==
    [i \in DOMAIN l |->
        IF i \in done /\ l[i].result = "none"
        THEN Settled(l[i], l[i].confirmed, 1) ELSE l[i]]

\* Mutant: every running thread is resumed.
ResumableRunning(d, l) == {t \in Threads : d.th[t].status = "running"}

\* ToolFlowThreads and ResumableThreads.
FlowThreads(d) == {t \in Threads : \/ d.th[t].status = "running"
                                   \/ d.th[t].status = "idle" /\ d.th[t].stop = "requires_action"}
Resumable(d, l) == {t \in Threads : d.th[t].status = "running" /\ Unsettled(l, t) = {}}

\* Mutant: the item is completed before the calls left are queued for.
HandOnFresh(d, s, k, fault) == Complete(Enqueue(d, k), s)

\* What becomes of a driver's item when calls of lane k are left: its own lane's
\* are handed the item back, another's get one; a fault leaves the item leased.
HandOn(d, s, k, fault) ==
    LET d1 == IF k = s THEN d ELSE Enqueue(d, k) IN
    CASE fault -> [d1 EXCEPT !.own[s] = Null]
      [] ~fault /\ k = s -> Requeue(d1, s)
      [] OTHER -> Complete(d1, s)

\* settleDrain: the threads are settled and resumed, then the item goes to what
\* the session's runnable calls need next.  l is the log it advanced.
SettleDrain(d, l, s, fault) ==
    LET d1 == SettleFlow(d, l, FlowThreads(d))
        d2 == EnqueueTurns(d1, Resumable(d1, l))
        k == ExecClass(l) IN
    IF k = "none" THEN Complete(IdleHarvest(d, d2), s) ELSE HandOn(d2, s, k, fault)

\* The pass's commit.  A faulted tool pass answers only the calls it reached.
SettleRun(w) ==
    \E done \in SUBSET job[w].plan :
        LET s == job[w].slot
            fault == done # job[w].plan IN
        /\ Phase(w, "running")
        /\ \A i \in done, j \in job[w].plan : j < i => j \in done
        /\ fault => s = "tool" /\ ~calm
        /\ log' = Advance(WithResults(log, done), FlowThreads(db))
        /\ Commits(w, SettleDrain(db, log', s, fault))
        /\ Done(w) /\ UNCHANGED calm

\* The outputs harvest ends.
FinishHarvest(w) ==
    /\ Phase(w, "admitted") /\ job[w].slot = "harvest"
    /\ Commits(w, Complete(db, "harvest"))
    /\ Done(w) /\ UNCHANGED <<log, calm>>

\* stopWork and finalizeAbandoned, by a self-hosted fleet: its item ends, and
\* one is queued for the calls still open.
FleetStops ==
    /\ ~calm /\ db.env = "self_hosted" /\ db.item["tool"] # "none"
    /\ db' = EnqueueExec(Complete(db, "tool"), log)
    /\ UNCHANGED <<log, job, calm>>

-----------------------------------------------------------------------------
BrainStep(b) == \/ AdmitTurn(b) \/ RefuseTurn(b) \/ ClearTurn(b) \/ StartRequest(b) \/ FinishTurn(b)
                \/ FailTurn(b) \/ FailUnrouted(b) \/ ReleaseTurn(b) \/ CommitTurn(b)
DriverStep(w) == AdmitRun(w) \/ ScanUses(w) \/ SettleRun(w) \/ FinishHarvest(w)

Next ==
    \/ SendMessage \/ SendAnswers \/ InterruptAll \/ ArchiveSession \/ FleetStops
    \/ \E t \in Threads : InterruptThread(t) \/ ArchiveThread(t)
    \/ \E s \in Slots : Lapse(s) \/ \E w \in Workers : Claim(w, s)
    \/ \E w \in Workers : Abort(w)
    \/ \E b \in Brains : BrainStep(b)
    \/ \E w \in Drivers : DriverStep(w)

Spec == Init /\ [][Next]_vars

\* The client falls silent and the infrastructure stops failing.
CalmDown == ~calm /\ calm' = TRUE /\ UNCHANGED <<log, db, job>>

NextOrCalm == Next \/ CalmDown

\* What a brain and a driver do with what they hold.
TurnGoesOn(b) == AdmitTurn(b) \/ RefuseTurn(b) \/ ClearTurn(b) \/ StartRequest(b) \/ FinishTurn(b)
PassGoesOn(w) == AdmitRun(w) \/ ScanUses(w) \/ FinishHarvest(w)

\* A pass that keeps its claim ends.  SettleRun is the step of Next that does
\* this, and its guard is this one's.
PassEnds(w) == /\ Phase(w, "running") /\ Holds(w) /\ ~db.archived
               /\ Done(w)

\* Every worker goes on with what it holds; a model request ends, one way or
\* another.  The queue's order sees to it that no item is passed over for ever
\* (ClaimLane's WorkIsTakenUp), hence strong fairness of a slot's claim.
FairSpec ==
    /\ Init /\ [][NextOrCalm]_vars
    /\ WF_vars(CalmDown)
    /\ \A w \in Workers : WF_vars(Abort(w))
    /\ \A b \in Brains : WF_vars(TurnGoesOn(b))
    /\ \A w \in Drivers : WF_vars(PassGoesOn(w)) /\ WF_job(PassEnds(w))
    /\ \A s \in Slots : SF_vars(\E w \in Workers : Claim(w, s))

-----------------------------------------------------------------------------
(* Properties. *)

\* A call an executor could run now always has a live exec item of the session
\* behind it: the drain's re-scan (drain.go) and every settlement queue one
\* before the last of them completes.
NoRunnableStranded ==
    ~db.archived /\ ExecClass(log) # "none" => \E k \in Execs : db.item[k] # "none"

\* A running thread is being worked on: it has a live turn, or a call some
\* executor can run (SettleTransition moves it to idle otherwise).
RunningIsWorked ==
    \A t \in Threads : db.th[t].status = "running" =>
        db.item[t] # "none" \/ Flow(log, t).runnable

\* A resting thread tells what it waits for: requires_action names exactly the
\* calls that wait on the client or the fleet, and any other rest leaves no call
\* open.
RestMatchesCalls ==
    \A t \in Threads : db.th[t].status = "idle" =>
        LET flow == Flow(log, t) IN
        IF db.th[t].stop = "requires_action"
        THEN db.th[t].ids = flow.pending /\ flow.pending # {} /\ ~Running(flow)
        ELSE ~flow.unsettled

\* A thread has no turn to run while a call of it is open: every model request
\* sends a transcript in which each tool use has its result, whoever answered,
\* interrupted or resumed the thread meanwhile.
NoTurnOverOpenCall ==
    \A t \in Threads : db.item[t] # "none" => Unsettled(log, t) = {}

\* A thread's calls are settled in the order the model made them, though answers
\* arrive and drivers commit in any order (walkReady).
SettledInOrder ==
    \A i, j \in DOMAIN log :
        i < j /\ log[i].thread = log[j].thread /\ log[j].result = "done" =>
            log[i].result = "done"

\* A call gets one result: from the client, a driver, the denial the walk
\* writes or the interrupt, whichever commits first (StampSupersededAnswers,
\* commitResults' answeredWatch).
OneResultPerCall ==
    \A i \in DOMAIN log : log[i].answers = (IF log[i].result = "none" THEN 0 ELSE 1)

\* The log is append-only and what is processed is final: no step, of whatever
\* actor, removes a call or changes one that has its result, not even a late
\* result of a pass the client interrupted.
SettledIsFinal ==
    [][\A i \in DOMAIN log : /\ i \in DOMAIN log'
                             /\ log[i].result = "done" => log'[i] = log[i]]_vars

\* A coordinator parked in wait_for_agents has a child whose ending will wake
\* it: the last busy child cannot end without the wake (threadmsg.go).
CoordinatorNotWedged ==
    db.parked /\ ~db.archived => \E c \in Children : Busy(db, c)

\* Every answer the API accepts settles: the plan made before the append agrees
\* with the walk after it (the send's own runtime check cannot fail), and a
\* thread that stops has something to wait for (SettleTransition cannot fail).
SendsSettle ==
    \A t \in Live(db) : \A batch \in Batches(log, t) :
        LET flow == Planned(log, batch, t) IN
        /\ flow = Flow(Advance(Appended(log, batch, {t}), {t}), t)
        /\ Running(flow) \/ flow.pending # {}

\* The calls a client may have answered with a result of its own.
Answerable(l) == {i \in DOMAIN l : l[i].lane \in {"tool", "fleet", "custom"} /\ l[i].result # "none"}

\* The run's budget is overshot by at most one request per live thread, those in
\* flight when it was spent (cutExhaustedRun), and one for each result the client
\* posted since: such a thread is not refused while it holds one.
BudgetHolds == db.spent <= MaxRunTurns + MaxLive + Cardinality(Answerable(log))

\* Once the client is silent, and if the models make finitely many calls of tools
\* other than delegation (MaxCalls), the session comes to rest with no work left
\* behind but what waits for the customer's own fleet, however long the models go
\* on delegating: the chain cap and the run's budget bound that, and each drain
\* hands on what it cannot answer.  Nothing in the code bounds the other calls: an
\* agent that calls bash for ever never rests (delegate.go).
ComesToRest ==
    calm ~> [](/\ db.sess = "idle"
               /\ \A s \in Slots : db.item[s] = "none" \/ (s = "tool" /\ db.env = "self_hosted"))

\* A message is read by a model request, unless the client interrupts the thread,
\* archives the session or leaves a call of the thread unanswered.
InputIsRead ==
    "user" \in db.unread[Primary] ~>
        \/ "user" \notin db.unread[Primary] \/ db.halted \/ db.archived
        \/ db.th[Primary].status = "idle" /\ db.th[Primary].stop = "requires_action"

\* A thread's state is its calls' state: it rests on what it waits for, runs no
\* turn over an open call, and its calls are settled in the model's order.
ThreadsMatchCalls == RestMatchesCalls /\ NoTurnOverOpenCall /\ SettledInOrder

\* Every message is read, and once the client is silent and the models have made
\* their calls the session rests.
SilenceIsRest == ComesToRest /\ InputIsRead
=============================================================================
