# Verification of the managed agent platform

This directory holds TLA+ models of the platform under `src/`, the TLC
configurations that check them on small instances, and theorems that TLAPS checks
for every value of the constants.  `PROJECT.json` is the index: which lines of the
source each definition translates, which run checks which property, which mutation
of a definition each property catches, the hazards, the findings and the theorems.

To check a run, `tlc -workers 2 -config X.cfg M`, with X and M as in the table of
runs below; to check the proofs of a module, `tlapm M.tla`.

## The system

A *session* is a conversation of an agent with a client.  The **control plane**
(`internal/api`) takes the client's requests and serves event streams; the
**brain** (`internal/brain`) runs model turns; the **executor**
(`internal/executor`) runs tool calls in the session's sandbox, on the web and on
MCP servers; in a *self-hosted* environment the customer's own **workers**
(`internal/worker`) run the sandbox calls through the work API.  Several replicas
of each run at once.  They share one database and nothing else: every hand-over is
a row of `work_items` (`internal/queue`), every fact about a conversation a row of
the session's event log (`internal/events`).  Around this core are the components
that own other rows or processes: files and their objects, sandboxes and their
checkpoints, egress gates, memory stores, deployments and their scheduler, dreams,
agents, vaults, skills, the list endpoints, and a **model gateway**
(`internal/modelgateway`) that relays inference calls to providers.

The models follow that division.  The queue is modelled twice: in full detail by
itself (ClaimLane, WireLane, LeaseKeeper), and as the session's loop sees it
(SessionLoop), where an item is there or not and at most one worker can prove it -
which is what ClaimLane proves of the detailed queue.

## The modules

The core, with one or more runs and proofs of its own:

| Module | Models | State | Actions |
|---|---|---|---|
| WorkItems | `work_items` rows, slots, leases | - | - |
| ClaimLane | `queue.go`'s claim lane | the rows, each claimant's handle | Enqueue, Claim, Extend, renewLive, Assert, Complete, Requeue, RequeueAfter, CancelSession, CancelThread, the clock, a claimant's loss |
| SlotOwnership | what the queue promises | asked slots, their owner, the last result's author | Ask, Take, LetGo, Answer, Withdraw |
| WireLane | `workapi.go`, `worker/lease.go` | one session's rows, its calls, each worker | poll, ack, heartbeat, stop, finalizeAbandoned, the worker's steps, crash |
| LeaseKeeper | `keeper.go` | lease, ticker, calls in flight | the goroutine's steps, Renew, Progress, Close, the database's answers |
| ToolFlow | `orderedtools.go`, `toolflow.go` | - (operators on a log) | - |
| SessionLoop | the API's sends, interrupts and archives; the brain's turn and delegation; the executor's drivers | `log`, `db` (threads, session, unread input, items, budget), `job` (what each worker has in memory) | one per transaction of the code |
| EventStream | `log.go`, `broker.go`, `preview.go`, the stream handler | log, LISTEN connection, each stream's position | commits, previews, Listen, Break, the handler's steps |

The smaller components, which the runs `platform` and `platform_progress` check
one at a time:

| Module | Models |
|---|---|
| FileObjects | files rows and the objects they name; removers, locks, the drain |
| ExecDeadline | one command's deadline: wrapper, watchdog, probes, classification |
| SandboxGate | provisioning of a sandbox and its egress gate, docker and k8s |
| SandboxFiles | writes and reads of files in a sandbox, both backends |
| SandboxLife | a sandbox through runs, reap, checkpoint, restore and delete |
| GatewayStream | one inference call: attempts, relay, conversion of streams |
| GatewayCatalog | the gateway's configuration, snapshots and opened keys |
| MemorySync | a memory store, a directory of it, and the syncs between them |
| Cron, Deployments | the cron walk; the scheduler's sweeps, fires, pauses |
| Listings | cursors and pages of every list endpoint |
| Dreams | the dream runner on several replicas |
| Agents, Mounts | agents and rosters; session creation and resources |
| HostSets, Egress | host names; networking, gate configuration, the gate's decisions |
| Vaults | MCP credentials, their refresh and validation |
| Skills | the registry and the materialization of skills |
| RemoteTools | MCP discovery and calls, web calls, provenance of URLs |
| McpClient | one connection to an MCP server |
| ToolSurface | the tools a request offers, call classes, remote answers |

The proofs are in modules of their own, described under *What is proved*.

MCClaimLane, MCSessionLoop, MCEventStream and MCPreviewWire instantiate the core
for TLC.  MCPlatform and MCProgress hold the smaller components, MCProgress also a
session, the keeper and the wire's rows for what they eventually do: a behaviour
is one of a single component, chosen at its start, since these components share no
state; the state space is the sum of theirs.  In MCPlatform the variables are
slots, and each INSTANCE says which slot holds which variable; in MCProgress a
component that is not the behaviour's own is off.

How code becomes actions.  A transaction is one action when it holds the row lock
that serializes it with everything else it reads (most of SessionLoop: the
session's row).  Where transactions interleave statement by statement (FileObjects,
GatewayCatalog, Agents, Mounts, Deployments, Skills, Vaults), each statement is an
action and the locks it waits for are state.  What a process read before it leaves
the database (a scan, a plan, a token, a snapshot) is kept in the process's own
record and used later, stale or not.  A crash is the loss of that record.

## The runs

| Run | What it checks | Instance |
|---|---|---|
| claim_lane | OneLivePerSlot, NoProofOutlivesItsClaim, WorkIsTakenUp, Ownership (refinement of SlotOwnership) | 2 rows, 2 slots, 2 claimants, 4 proofs, leases of one tick |
| session_tools | ThreadsMatchCalls, NoRunnableStranded, OneResultPerCall | 1 thread, 1 brain, 2 drivers, 3 calls, both kinds of environment |
| session_team | RunningIsWorked, CoordinatorNotWedged, BudgetHolds | a coordinator and a child; two brains at delegation (cloud), or one brain, a driver and a call (self-hosted) |
| event_stream | ExactTail, NoLostWake, StreamsCatchUp (liveness) | 1 stream, 2 threads, 2 rows, 1 lost connection |
| preview_wire | CleanPrefix, WireServesCalls | two instances without common state: 2 previews of 2 deltas on a channel of one frame; 2 workers, 1 call, 2 rows |
| platform | 20 properties, one per component | see `Platform.cfg` |
| platform_progress | GateHeals, KeeperIsHonest, DeletedIsCollected, WindDownEnds, SilenceIsRest (liveness) | see `PlatformProgress.cfg`; the session: 2 threads, 1 brain, 1 driver, 2 calls |

Five runs show a disagreement between the code and what the repository says of it:

| Run | Property violated | What happens |
|---|---|---|
| lease_keeper_renew | RenewalIsBounded | Renew holds the keeper's lock under a context without a deadline: a database that never answers hangs the holder, against keeper.go's comment |
| session_fleet_team | NoRunnableStranded | an interrupt of one thread idles a self-hosted session; the executor then completes its MCP item without a re-scan, and the other thread's call has no item |
| preview_hole | NeverHoled | a delta of a message is dropped on a full channel; a thinking block amid the text starts a preview of its own, whose event_start clears the drop, and the message's later text is sent: a preview with a hole, against broker.go's "a prefix, never holed" |
| restore_recapture | FailedRestoreKeepsCheckpoint | the idle reaper captures a half-restored sandbox over the checkpoint it was restored from |
| memory_wipe | WipeDeletesNothing | a rebuild that lands in part makes the next sync read the rest as the agent's deletions |

`PROJECT.json` quotes the lines on both sides.

Bounds.  Every bound is a constant named in the module that uses it (MaxCalls,
MaxRows, MaxBreaks, MaxLifeFaults, MaxFaults, MaxChanges, MaxMeddles and so on) and
appears in a guard.  They were chosen so that the case a property is about occurs:
two claimants and a reclaim; three calls, so that one in the middle can be
answered before its elders; a child beside its coordinator with the budget already
spent at one turn; a page limit of one with two rows; a fault before and after the
step it spoils.  Each property has a mutant - a plausible bug in a definition it
rests on - that TLC must catch under the same bounds, so none of the instances is
too small for its property.  What is proved (below) does not depend on bounds.

Symmetry is used in session_tools, over brains and drivers, in preview_wire, over
the wire's workers, and in platform, over the pair that acts at once in a component
(executors, requests, replicas, runners, administrators, callers): they appear
singly in no property and under no CHOOSE, and no run of these checks liveness.

Deadlock is not checked where a system may stop: a session at rest, a behaviour
whose bounds are used up.

## Fairness

- ClaimLane's WorkIsTakenUp: the clock ticks, a claimant ends in some way what it
  holds (every turn and run is bounded by timeouts), and a row that is again and
  again the oldest claimable one is claimed (strong fairness: an idle claimant polls,
  and the code's `ORDER BY created_at` gives it that row).
- SessionLoop's SilenceIsRest: the client eventually falls silent and faults stop
  (CalmDown), each worker goes on with what it holds (weak fairness: workers are
  loops), a model request ends one way or another (FinishTurn stands for all of
  them), and a queued slot is claimed (strong fairness, which WorkIsTakenUp
  justifies).  It also assumes, through MaxCalls, that the models make finitely many
  tool calls other than delegations.  The code assumes nothing of the kind:
  delegate.go:86-88 says that an agent which loops bash is as unbounded as ever, and
  such a session never rests.  What the property shows is that nothing else keeps
  one going: not delegation, whose turns the run budget ends, nor waits, wake-ups and
  hand-overs between the workers.
- EventStream's StreamsCatchUp: the listener redials and reads its connection, a
  handler takes its next step, and the ping ticker fires again and again.
- MCProgress states each component's fairness as a hypothesis of its property: the drain's polls and retries, the
  executor's steps and the gate's fetch loop, the keeper's timers, the reaper's
  passes, and the reaping of abandoned work by whichever request touches the
  session.  Nothing is assumed of clients, agents or faults, whose steps are only
  ever possible.


## What is proved

TLAPS checks the theorems below for every value of the constants that satisfies the
assumptions of the module (ClaimAssumption, KindAssumption, NullAssumption,
SessionAssumption, ReplyAssumption, StreamAssumption; GatewayCatalog needs none).
They say only what kind of thing a constant is: ids of
different sorts are different, a page and a channel have at least one place, a reply
is a sequence of calls of the known classes.  No number of processes, threads,
calls, rows, streams or replies is bounded by them.  Bounds on counters (MaxItems,
MaxRows, MaxCalls...) are guards of the model and arbitrary in the proofs.

| Module | Theorem | What it says |
|---|---|---|
| ClaimLaneProofs | TypeCorrect | rows and handles are well typed |
| | SlotsExclusive | a slot never has two live items (OneLivePerSlot) |
| | StaleClaimsCommitNothing | a claim that was taken over or cancelled can prove nothing (NoProofOutlivesItsClaim) |
| | ProversExclusive | one item is never two claimants' to settle |
| | StoppedStays | a stopped row does not move (an action property) |
| | LaneImplementsOwnership | ClaimLane implements SlotOwnership (Ownership) |
| SessionProofs | SessionInvariant | the log is well formed and a brain's claim is of a thread's turn |
| | OneResult | a call gets one result (OneResultPerCall) |
| | SendsAlwaysSettle | a send's plan is what its walk finds; its runtime errors cannot occur |
| | SettledStaysSettled | what has its result is final (an action property) |
| ThreadProofs | ThreadInvariant | threads, turns and calls fit one another |
| | ThreadsAlwaysMatchCalls | ThreadsMatchCalls |
| | RunningAlwaysWorked | RunningIsWorked |
| | CoordinatorNeverWedged | CoordinatorNotWedged |
| EventStreamProofs | RowsAreAnnounced | no row goes unannounced (NoLostWake) |
| | TailsAreExact | a stream writes what is due once and in order (ExactTail) |
| PreviewProofs | PreviewsArePrefixes | no delta is missing among those sent of a message between two event_starts (CleanPrefix) |
| CatalogProofs | CatalogStaysWhole | the gateway's configuration is whole, its opened keys follow it |

None of these properties is inductive by itself.  The arguments:

*The claim lane.*  IInv adds to the type that a claimant whose proof a row carries holds
that row, with nothing taken from it since (MatchIsCurrent), and that no two claimants
hold the same proof (HandlesDiffer).  Then a reclaim, which takes a fresh proof, leaves the former
claimant's handle without effect.  For the refinement, a slot's owner is the claimant
that can prove its live item; OInv adds that whoever made the
latest claim of a row that was not cancelled can prove it, and that a row has a slot.  Each statement maps to one step of
SlotOwnership or to none: a claim to Take, a settlement to Answer or LetGo, a lapse
to nothing until someone else claims.

*A session's calls.*  SessionInv (every call is sound: it has a result event exactly
when it has a result, and its confirmation came before it was processed) carries
OneResult.  SendsAlwaysSettle rests on lemmas about ToolFlow's operators on logs of
any length: where the walk of a thread stops, what it leaves alone, and that
AnswerPlan, computed before the append, names that stop.  The least open call that
the walk reaches is found by well-foundedness of the naturals, so no induction over
the log is needed.

*A session's threads.*  ThreadInv is the heart of the development.  A thread's row
*fits* (Fits) its turn and its flow: idle on requires_action with exactly the calls
that wait, idle otherwise with no call open, running with a turn and no open call, or
with a runnable one.  Rows(b, e, l, X) says so of the rows e and the log l for all
threads but those in X, that a turn still held is held as in b, and that the session's
status is the fold over its threads.  The exception X is what makes the proof possible: a transaction takes a
thread out of the invariant with its first statement and puts it back with its last,
and each helper of the code (Move, Complete, Enqueue, Ended, the settlement of a run)
has a lemma that carries Rows across it.  Waited says that a parked coordinator of a
live session has a busy child; it cannot be proved without Fits, since a child's being
busy depends on its calls.  PlanFits says that the calls a driver read before its run
are still, of each thread, the next to be settled or settled already, however the
log has moved meanwhile; AtWork that a brain with a valid claim has a running thread.
AnswerProofs carries ThreadInv across the steps of clients, the fleet and drivers,
TurnProofs across those of the queue and of brains (a turn's delegation calls run
one after the other over a reply of any length; OpsInv is what each leaves true, and
a least counterexample stands for the induction), and ThreadProofs composes them.

*Streams.*  NoLostWake needs to cover every state in which a stream might go to sleep:
StreamInv says that a stream which is waiting, or looking whether its session is gone,
with rows past its tail is *covered* (it has a wake, one is queued, or the listener
is about to wake everyone), that one which still pages is covered for what lies past
its mark, and that a subscribed stream has a listener.  For ExactTail, TailInv says
where the tail begins, that no stream is ahead of the log, and that what was written
is Due up to lastSeq, with the rest after it if the session was deleted.

*Previews.*  A delta reaches a client through three queues: the connection, the
subscriber's channel, the response.  PrefixInv orders each: in a channel and on the
connection every delta but the first since a preview was started follows its
predecessor or stands behind what was already sent; the next delta of the turn stands behind all of them
(TurnOrder); and a start on the way is followed by the delta's predecessor, as the start
clears lossyDeltas.  Upcoming says this of a delta at a given place, and each step
(a publication, a dispatch, a read of the channel, an opening, a close) moves the
places by one.  The start of another preview ends the argument: the delta after it is
sent whatever became of those before it, which is what preview_hole shows.

*The catalog.*  A transaction commits what its first statements read; LocksHold says
what it may rely on until then and LocksApart why.

## What is only model-checked

- Liveness (WorkIsTakenUp, SilenceIsRest, StreamsCatchUp and the properties of
  platform_progress): fairness and ENABLED are beyond the prover.
- NoRunnableStranded: it holds for one thread and for cloud sessions (session_tools),
  but not for self-hosted teams (session_fleet_team), so it is no theorem of the
  specification.
- BudgetHolds: it counts turns in flight, so its invariant is about the cardinality of
  a set that every step changes; TLC checks it.
- WireServesCalls and the properties of MCPlatform other than the catalog's: each is
  checked on an instance of its component.  Those of Cron rest on recursive operators,
  which the prover does not support.
## What is abstracted, module by module

*ClaimLane.*  A lease is what it has left and, apart from that, the exact timestamp
that proves it; a grant takes a proof nobody holds, as no two grants of a row carry
one timestamp.

*SessionLoop.*  A send answers the calls of one thread, with one or two answers, and
is not mixed with an interrupt except for the message that redirects a session-wide
one.  Outcomes and their grading, MCP discovery and the suspension for repository
skills are left out.  A failure before the model is asked is one step.  A lapsed lease is
the loss of the proof.  Each wait for agents is judged afresh, where the code answers a
turn's second wait as its first until the turn spawns, and no delegation call is cut
off by the output cap.  `parked` and `halted` are history, kept for the properties.
wakeThread's test reads the log as it was before the transaction, as in the code.
The budget counts, beside the turns in flight, one turn for each result the client
posted: cutExhaustedRun does not refuse a thread that holds one.

*WireLane.*  A work id is the row it names; a heartbeat's echo is current or not.

*LeaseKeeper.*  Time is discrete; a stall budget of zero is the brain's.  `wedged` is
the state in which Renew waits for a database that never answers.

*EventStream.*  The eviction of the preview tracker at its cap, pings, the key of a
long poll, and archives are left out.  `unbroken` is history: no connection was lost,
and none was given up with a notification in hand.  A delta's block and text are left
out: it has its place in the message (`at`) and since the surface's last event_start
(`n`), as these are all that lossyDeltas goes by.  CleanPrefix is about the deltas
between two event_starts; of a whole preview it fails (preview_hole).  It holds while
`unbroken` does, and not beyond.  Frames lost in a reconnect gap set no `lossyDeltas`, and a listener
cancelled with an `event_start` in hand may dispatch it to a later subscriber, whose
preview then begins with whatever delta comes next; broker.go:69 and broker.go:280
promise "never a text with an interior hole" without that condition.  Nor is the
order of an `event_start` and its event covered: it precedes it on a stream only if
the wake is of that event's commit (events.go:1813).

*FileObjects.*  Expiry and its grace are one fact; key order stands for the order of
the advisory locks' hashes; a commit whose outcome a live request does not learn is
left out (the code documents it).

*ExecDeadline.*  Timers are prompt, a probe answers within a bound; a wrapper that
stalls between the reap and its last reading, and output, are left out.  The wrapper
is taken to start its watchdog before the command can kill it.  contract.go:465-468
wants a command that outlives its deadline reported as timed out whatever it does; on
k8s one that has killed its wrapper and closed its output is reported as ended (137)
while it runs on, and DeadlineIsTold excepts it (HidesItsRun).  Closing the output
alone hides nothing: the k8s wrapper keeps its own copy of it, and the docker daemon
holds the stream until the process exits (docs/history/2026-07.md:363).

*SandboxGate, SandboxFiles, SandboxLife.*  Faults and the agent's meddling are
bounded.  Spec mismatches, hardening, image pulls, file modes, error
classification, reap kicks and the harvest are left out.  A failed put lands a
prefix.  BulkRenameShell's comment says each member is "the single write's sequence
exactly", but the batch's rename has no refusal of an unreplaceable target; nothing
here depends on it.

*GatewayStream, GatewayCatalog.*  Stop reasons, signatures, usage counts and request
bodies are abstracted.  An upstream cut off after a complete final event is
an ordinary event followed by the end.  The one retry without thinking blocks that a
provider's refusal of them starts (messages.go:652) and the byte bound on the block
starts and deltas of a converted stream (responses_stream.go:79) are left out.  A catalog reload may come at any time; ids are
not reused, alias names may be.

*MemorySync.*  Contents are digests; one store and one mount; versions, redaction and
listings are left out.  Two things are visible in the model and are no findings: a
refused file that blocks a pull below it makes every batch fail, and a create whose
answer was lost is removed by its retry and pulled by the next sync.

*Cron.*  The calendar is scaled down; each probed zone has a single transition; the
text of an expression is left out.

*Deployments.*  One deployment; what a session's creation answers is free; reading the
clock and the scan are one step.  A slow replica may fire an older occurrence after
another fired a newer one.  The floor a resume sets is the now() of its transaction's
start, at most LockWait before its write.

*Listings.*  A row's filter columns are three facts.  Excused: a cursor of another
list, an id cursor whose row was deleted, an offset over a changed table.

*Dreams.*  One dream; usage, prompts, the clone's contents and the secret scan are left
out.  dreamstart.go says of a refused render that the dream "stays `pending`" until a
human intervenes; the claim's cap fails it after the last attempt.

*Agents, Mounts.*  Optimistic version checks, no-op updates and refused requests are
left out.  Nested file mounts are allowed, as by the code.  The bound of 255 bytes
on a memory mount's name is scaled to two pieces.  MountsAreApart says of the vaults,
files and stores a session names that they were live at its commit, not of its agent:
createSession reads that without a lock (sessions.go:369), and it may be archived by
then.

*Egress.*  One session, one environment; IDNA, lengths, zones, address ranges,
hop-by-hop headers and tunnel idling are left out, as are the duplicate advisories of
two API replicas.

*Vaults.*  The issuer rotates always or never.  Metadata, validation of fields, the
probe and its scrubbing are left out.  An operator's update that crosses a rotation
loses the rotated token, as documented; a dial refused between a winner's exchange
and its write reports the credential unusable.

*Skills.*  A number minted twice in one microsecond after its first holder's deletion
is excluded, as are two skills that share a name and so a directory.  A write goes
over what a directory holds, so that a file which a newer version dropped lingers
(docs/DIVERGENCES.md:77); SkillsAreWhole is about the files the version has.  An
upload whose commit landed but whose answer was lost, after which its archive is
deleted, is left out.

*RemoteTools.*  A turn makes at most one call; a refusal by egress policy, by a
credential and by the server are one verdict; the reading of URLs out of text is left
out.  mcpexec.go:362 says that dialling where the tool was not offered cannot happen;
if a call waits for approval while the agent's server is repointed and another
thread's discovery lists the new url, the approved call runs there.  The model keeps
this case apart (`relisted`).  A new work cycle deletes the failed rows of every
thread, also while a child keeps the session running, and an interrupt's redirect
does too; the comment at events.go:397 speaks of an idle session only.  A verdict is
told once until its row goes.

*McpClient, ToolSurface.*  The SDK is external.  Metadata, headers, timeouts and content
conversion are left out; names are sequences of pieces; schemas and wording are left
out.  A handshake is at most two POSTs: a second discover and the notification that
ends it (mcp.go:17) are left out, and so is the charge for the body of a refused one,
which the SDK reads too.  An agent stored before the API refused duplicates may hold
a name in two entries of one kind; both are offered (mcptools.go:328), and
ToolSurfaceIsSound excepts such names.  An image or blob that is only described, and
a label that is cut, do not count as loss of an answer, as in the code.

## What is not modelled

`PROJECT.json` lists every part with its reason.  In short: conversions of bodies
between protocols and of transcripts to requests (pure text, no state), what a
built-in tool does inside its sandbox, cloning of repositories, web providers,
authentication and login, the console's proxy, key services, blob-store clients,
migrations, telemetry, start-up and test support.
