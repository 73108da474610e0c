---------------------------- MODULE MCProgress ----------------------------
(***************************************************************************)
(* What must eventually happen in the components that promise it, on small *)
(* instances.  A behaviour is one of a single component, part; the others' *)
(* variables are off.                                                      *)
(***************************************************************************)
EXTENDS Integers, Sequences, FiniteSets

CONSTANTS
    Parts,
    FileIds, FileSessions, FileRequests, Drainers, MaxFileRequests,
    Executors, Ids, MaxFaults,
    TTL, Stall,
    LifeExecutors, MaxWrites, MaxLifeFaults,
    Null, WireWorkers, Calls, MaxRows, Reclaim, StartupTTL, WireTTL, WindDown,
    Threads, Primary, EnvKinds, Brains, Drivers, MaxSettlementChain, MaxRunTurns,
    MaxLive, MaxCalls

VARIABLES
    part,
    fileRows, fileTx, begun, fileSess, lapsed, objects, owed, due, drain,
    host, gated, box, gate, liveToken, at, lockedBy, handle, faults,
    lease, taken, bought, silent, ticker, ticked, call, state, unseen, wedged,
    sess, aged, item, sbox, truth, writes, marker, blobAt, blobOwed, run, reap,
    spool, lock, orphaned, lifeFaults,
    rows, calls, crew,
    log, db, job, calm

Files == INSTANCE FileObjects

Gate == INSTANCE SandboxGate

Keeper == INSTANCE LeaseKeeper

Life == INSTANCE SandboxLife

Wire == INSTANCE WireLane WITH
    TTL <- WireTTL, Workers <- WireWorkers

\* Tool calls of every lane, gated and not, in the cloud; delegation beside the
\* environment's own fleet.
Lane(lane, perm) == [lane |-> lane, perm |-> perm]
Say(op, to) == [op |-> op, to |-> to]
SessionReplies ==
    [uses : {<<Lane("tool", "allow"), Lane("mcp", "ask")>>, <<Lane("custom", "allow"), Lane("tool", "ask")>>,
             <<Lane("tool", "allow")>>},
     ops : {<<>>}, envs : {{"cloud"}}]
    \union
    [uses : {<<>>}, envs : {{"self_hosted"}},
     ops : {<<Say("create", Null), Say("wait", Null)>>, <<Say("wait", Null)>>,
            <<Say("send", CHOOSE t \in Threads \ {Primary} : TRUE)>>, <<Say("submit", Null)>>}]

Session == INSTANCE SessionLoop WITH
    Replies <- SessionReplies

filesVars == <<fileRows, fileTx, begun, fileSess, lapsed, objects, owed, due, drain>>
gateVars == <<host, gated, box, gate, liveToken, at, lockedBy, handle, faults>>
keeperVars == <<lease, taken, bought, silent, ticker, ticked, call, state, unseen, wedged>>
lifeVars == <<sess, aged, item, sbox, truth, writes, marker, blobAt, blobOwed, run, reap,
        spool, lock, orphaned, lifeFaults>>
wireVars == <<rows, calls, crew>>
sessionVars == <<log, db, job, calm>>

vars == <<part,
         filesVars, gateVars, keeperVars, lifeVars, wireVars, sessionVars>>

----------------------------------------------------------------------------
\* Two files with an object each, that uploads or a dream's start left:
\* the rows, the transactions, those begun, the sessions, the lapsed and the
\* stored, owed and due objects, the drainers.
SeededFiles ==
    /\ \E kinds \in [{1, 2} -> {"upload", "transcript"}] :
         /\ fileRows = [f \in FileIds |->
                IF f \in {1, 2} THEN [st |-> "live", key |-> f, kind |-> kinds[f], sess |-> "none"]
                ELSE Files!Unused]
    /\ fileTx = [a \in FileRequests |-> Files!NoTx] /\ begun = 0
    /\ fileSess = [s \in FileSessions |-> "absent"]
    /\ lapsed = {} /\ objects = {1, 2} /\ owed = {} /\ due = {}
    /\ drain = [d \in Drainers |-> Files!NoWork]

\* A component that is not the behaviour's own is off.
FilesOff ==
    /\ fileRows = 0 /\ fileTx = 0 /\ begun = 0 /\ fileSess = 0 /\ lapsed = 0
    /\ objects = {} /\ owed = {} /\ due = 0 /\ drain = 0
GateOff ==
    /\ host = 0 /\ gated = 0 /\ box = Gate!None /\ gate = 0 /\ liveToken = 0
    /\ at = 0 /\ lockedBy = 0 /\ handle = 0 /\ faults = 0
KeeperOff ==
    /\ lease = 1 /\ taken = FALSE /\ bought = 0 /\ silent = 0 /\ ticker = 0
    /\ ticked = 0 /\ call = 0 /\ state = "off" /\ unseen = FALSE
    /\ wedged = FALSE
LifeOff ==
    /\ sess = "off" /\ aged = 0 /\ item = 0 /\ sbox = 0 /\ truth = 0
    /\ writes = 0 /\ marker = 0 /\ blobAt = 0 /\ blobOwed = 0 /\ run = 0
    /\ reap = 0 /\ spool = 0 /\ lock = 0 /\ orphaned = 0 /\ lifeFaults = 0
WireOff ==
    /\ rows = [r \in Wire!WorkRows |-> [state |-> "off"]] /\ calls = 0
    /\ crew = 0
SessionOff ==
    /\ log = 0 /\ db = [unread |-> [t \in Threads |-> {}], sess |-> "off"]
    /\ job = 0 /\ calm = FALSE

Init ==
    /\ part \in Parts
    /\ IF part = "files" THEN SeededFiles ELSE FilesOff
    /\ IF part = "gate" THEN Gate!GateInit ELSE GateOff
    /\ IF part = "keeper" THEN Keeper!Init ELSE KeeperOff
    /\ IF part = "life" THEN Life!LifeInit ELSE LifeOff
    /\ IF part = "wire" THEN Wire!Init ELSE WireOff
    /\ IF part = "session" THEN Session!Init ELSE SessionOff

Only(p) ==
    /\ UNCHANGED part
    /\ p # "files" => UNCHANGED filesVars
    /\ p # "gate" => UNCHANGED gateVars
    /\ p # "keeper" => UNCHANGED keeperVars
    /\ p # "life" => UNCHANGED lifeVars
    /\ p # "wire" => UNCHANGED wireVars
    /\ p # "session" => UNCHANGED sessionVars

Next ==
    \/ part = "files" /\ Files!FilesNext /\ Only("files")
    \/ part = "gate" /\ Gate!GateNext /\ Only("gate")
    \/ part = "keeper" /\ Keeper!Next /\ Only("keeper")
    \/ part = "life" /\ Life!LifeNext /\ Only("life")
    \/ part = "wire" /\ Wire!Next /\ Only("wire")
    \/ part = "session" /\ Session!NextOrCalm /\ Only("session")

Spec == Init /\ [][Next]_vars

----------------------------------------------------------------------------
(* Fairness, component by component, as their modules state it: each   *)
(* property assumes that of its own component.                          *)

FilesFair ==
    /\ \A k \in FileIds : WF_filesVars(part = "files" /\ Files!attemptFallsDue(k))
    /\ \A k \in FileIds : SF_filesVars(part = "files" /\ (\E d \in Drainers : Files!claimPendingObjectDeletes(d, k)))
    /\ \A d \in Drainers : SF_filesVars(part = "files" /\ Files!deleteObject(d))
    /\ \A d \in Drainers : SF_filesVars(part = "files" /\ Files!forgetObject(d))

GateFair ==
    /\ WF_gateVars(part = "gate" /\ (\E e \in Executors : Gate!provision(e)))
    /\ \A e \in Executors : WF_gateVars(part = "gate" /\ Gate!Step(e))
    /\ WF_gateVars(part = "gate" /\ Gate!gateServes)
    /\ WF_gateVars(part = "gate" /\ Gate!RunFetchLoop)

KeeperFair ==
    /\ WF_keeperVars(part = "keeper" /\ Keeper!Tick)
    /\ WF_keeperVars(part = "keeper" /\ Keeper!Lapse)
    /\ WF_keeperVars(part = "keeper" /\ Keeper!TimeOut)
    /\ WF_keeperVars(part = "keeper" /\ Keeper!GiveUp)
    /\ WF_keeperVars(part = "keeper" /\ Keeper!Start)
    /\ WF_keeperVars(part = "keeper" /\ Keeper!Return)
    /\ WF_keeperVars(part = "keeper" /\ Keeper!Refuse)
    /\ SF_keeperVars(part = "keeper" /\ Keeper!Quit)

LifeFair ==
    /\ \A e \in LifeExecutors : WF_lifeVars(part = "life" /\ Life!RunStep(e))
    /\ \A e \in LifeExecutors : WF_lifeVars(part = "life" /\ Life!ReapStep(e))
    /\ WF_lifeVars(part = "life" /\ Life!drainObject)

WireFair ==
    /\ WF_wireVars(part = "wire" /\ Wire!Tick)
    /\ \A r \in 1 .. MaxRows : SF_wireVars(part = "wire" /\ Wire!FinalizeAbandoned(r))

SessionFair ==
    /\ WF_sessionVars(part = "session" /\ Session!CalmDown)
    /\ \A w \in Brains \union Drivers : WF_sessionVars(part = "session" /\ Session!Abort(w))
    /\ \A b \in Brains : WF_sessionVars(part = "session" /\ Session!TurnGoesOn(b))
    /\ \A w \in Drivers : WF_sessionVars(part = "session" /\ Session!PassGoesOn(w))
    /\ \A w \in Drivers : WF_job(part = "session" /\ Session!PassEnds(w))
    /\ \A s \in Session!Slots : SF_sessionVars(part = "session" /\ (\E w \in Brains \union Drivers : Session!Claim(w, s)))

----------------------------------------------------------------------------
(* The components' properties; each module says what its own mean. *)

\* SandboxGate: once faults stop, the gate runs with the live token.
GateHeals == part = "gate" /\ GateFair => Gate!GateHeals

\* LeaseKeeper: an item is given up when its lease ran out or its holder makes no progress, and only then.
KeeperIsHonest == part = "keeper" /\ KeeperFair => Keeper!KeeperIsHonest

\* SandboxLife: a deleted session leaves neither sandbox nor checkpoint; FileObjects: an owed object is deleted.
DeletedIsCollected ==
    /\ part = "files" /\ FilesFair => Files!OwedIsDeleted
    /\ part = "life" /\ LifeFair => Life!DeletedIsCollected

\* WireLane: a wind-down ends though its worker died.
WindDownEnds == part = "wire" /\ WireFair => Wire!WindDownEnds

\* SessionLoop: messages are read, and once the client is silent and the models have made their calls the session rests.
SilenceIsRest == part = "session" /\ SessionFair => Session!SilenceIsRest
=============================================================================
