---------------------------- MODULE SandboxLife ----------------------------
(***************************************************************************)
(* The life of one cloud session's sandbox (executor/executor.go,          *)
(* reaper.go, checkpoint.go).  An executor provisions the sandbox for a    *)
(* tool run, restoring the workspace a checkpoint holds; every executor's  *)
(* reaper destroys the sandbox of a session that ended, and that of one    *)
(* long idle after capturing its workspace.  An advisory lock on the       *)
(* session serialises provision and reap; the run itself holds no lock.    *)
(* Executors crash, and what they call fails, anywhere.                    *)
(***************************************************************************)
EXTENDS Integers, FiniteSets

CONSTANTS
    LifeExecutors,
    MaxWrites,      \* bound on the tools' writes to the workspace
    MaxLifeFaults   \* bound on crashes and failed calls

VARIABLES
    sess,      \* the session: "idle", "running", "archived", "terminated", "deleted"
    aged,      \* its last activity is older than the idle TTL
    item,      \* its tool work: state and claimant
    sbox,      \* the sandbox: whether it exists, is half restored, and the workspace in it
    truth,     \* the workspace the next run must find
    writes,
    marker,    \* session_checkpoints.state, "none" without a row
    blobAt,    \* the workspace in the checkpoint object, or -1
    blobOwed,  \* the object is queued for deletion
    run,       \* per executor: where its tool run stands
    reap,      \* per executor: where its reaper stands
    spool,     \* per executor: the workspace its capture exported
    lock,      \* holder of the session's advisory lock
    orphaned,  \* history: a capture read a sandbox whose restore had not ended
    lifeFaults

lifeVars == <<sess, aged, item, sbox, truth, writes, marker, blobAt, blobOwed, run, reap, spool,
              lock, orphaned, lifeFaults>>

NoBox == [is |-> FALSE, half |-> FALSE, holds |-> 0]
NoWork == [st |-> "none", by |-> "none"]
Free == <<"none", "none">>

LifeInit ==
    /\ sess = "idle" /\ aged = FALSE /\ item = NoWork /\ sbox = NoBox
    /\ truth = 0 /\ writes = 0 /\ marker = "none" /\ blobAt = -1 /\ blobOwed = FALSE
    /\ run = [e \in LifeExecutors |-> "none"] /\ reap = [e \in LifeExecutors |-> "none"]
    /\ spool = [e \in LifeExecutors |-> -1] /\ lock = Free /\ orphaned = FALSE /\ lifeFaults = 0

\* What a run finds after the sandbox is gone.
Recoverable == IF marker = "ready" THEN blobAt ELSE 0

\* A call fails, at the cost of one of the bounded faults.
Fault == lifeFaults < MaxLifeFaults /\ lifeFaults' = lifeFaults + 1
Unlock == lock' = Free
Runs(e, st) == run' = [run EXCEPT ![e] = st]
Reaps(e, st) == reap' = [reap EXCEPT ![e] = st]

----------------------------------------------------------------------------
(* The session, as the control plane and the brain change it. *)

\* A message starts a turn whose tools the executor must run.
send ==
    /\ sess = "idle" /\ item.st = "none"
    /\ sess' = "running" /\ aged' = FALSE /\ item' = [st |-> "queued", by |-> "none"]
    /\ UNCHANGED <<sbox, truth, writes, marker, blobAt, blobOwed, run, reap, spool, lock, lifeFaults, orphaned>>

\* An interrupt stops the work at once; its claimant notices later.
interrupt ==
    /\ sess = "running"
    /\ sess' = "idle" /\ aged' = FALSE
    /\ item' = IF item.st = "held" THEN [item EXCEPT !.st = "stopped"] ELSE NoWork
    /\ UNCHANGED <<sbox, truth, writes, marker, blobAt, blobOwed, run, reap, spool, lock, lifeFaults, orphaned>>

\* The claimant notices within the lease's TTL, for which a stopped item
\* counts as live (LeaseKeeper).
graceEnds ==
    /\ item.st = "stopped" /\ run[item.by] = "none"
    /\ item' = NoWork
    /\ UNCHANGED <<sess, aged, sbox, truth, writes, marker, blobAt, blobOwed, run, reap, spool, lock, lifeFaults, orphaned>>

age ==
    /\ sess = "idle" /\ ~aged /\ aged' = TRUE
    /\ UNCHANGED <<sess, item, sbox, truth, writes, marker, blobAt, blobOwed, run, reap, spool, lock, lifeFaults, orphaned>>

\* archiveSession refuses a running session; a turn may end it for good.
endSession ==
    /\ \/ sess = "idle" /\ sess' \in {"archived", "terminated"}
       \/ sess = "running" /\ item.st = "none" /\ sess' = "terminated"
    /\ UNCHANGED <<aged, item, sbox, truth, writes, marker, blobAt, blobOwed, run, reap, spool, lock, lifeFaults, orphaned>>

\* The row and the marker go, a tombstone stays, the object is queued for deletion.
deleteSession ==
    /\ sess \in {"idle", "archived", "terminated"}
    /\ sess' = "deleted" /\ marker' = "none" /\ blobOwed' = TRUE /\ item' = NoWork
    /\ UNCHANGED <<aged, sbox, truth, writes, blobAt, run, reap, spool, lock, lifeFaults, orphaned>>

drainObject ==
    /\ blobOwed /\ blobOwed' = FALSE /\ blobAt' = -1
    /\ UNCHANGED <<sess, aged, item, sbox, truth, writes, marker, run, reap, spool, lock, lifeFaults, orphaned>>

----------------------------------------------------------------------------
(* A tool run. *)

claim(e) ==
    /\ run[e] = "none" /\ item.st = "queued"
    /\ item' = [st |-> "held", by |-> e] /\ Runs(e, "claimed")
    /\ UNCHANGED <<sess, aged, sbox, truth, writes, marker, blobAt, blobOwed, reap, spool, lock, lifeFaults, orphaned>>

Mine(e) == item = [st |-> "held", by |-> e]

\* A session no longer running has its work completed without a run.
sessionForRun(e) ==
    /\ run[e] = "claimed"
    /\ IF sess = "running" THEN Runs(e, "lock") /\ UNCHANGED item
       ELSE Runs(e, "none") /\ item' = IF Mine(e) THEN NoWork ELSE item
    /\ UNCHANGED <<sess, aged, sbox, truth, writes, marker, blobAt, blobOwed, reap, spool, lock, lifeFaults, orphaned>>

\* provisionSandbox waits for the lock and reads the marker under it.
lockSession(e) ==
    /\ run[e] = "lock" /\ lock = Free
    /\ lock' = <<e, "run">> /\ Runs(e, IF marker = "ready" THEN "replace" ELSE "provision")
    /\ UNCHANGED <<sess, aged, item, sbox, truth, writes, marker, blobAt, blobOwed, reap, spool, lifeFaults, orphaned>>

\* Beside a ready marker any sandbox is a half-restored one.
replaceSandbox(e) ==
    /\ run[e] = "replace"
    /\ sbox' = NoBox /\ Runs(e, "provisionToRestore")
    /\ UNCHANGED <<sess, aged, item, truth, writes, marker, blobAt, blobOwed, reap, spool, lock, lifeFaults, orphaned>>

provisionSandbox(e) ==
    /\ run[e] \in {"provision", "provisionToRestore"}
    /\ sbox' = IF sbox.is THEN sbox ELSE [is |-> TRUE, half |-> FALSE, holds |-> 0]
    /\ IF run[e] = "provision" THEN Runs(e, "ready") /\ Unlock ELSE Runs(e, "extract") /\ UNCHANGED lock
    /\ UNCHANGED <<sess, aged, item, truth, writes, marker, blobAt, blobOwed, reap, spool, lifeFaults, orphaned>>

\* The object is there, and what a capture wrote passes the check of its walk.
ValidArchive == blobAt # -1

\* The archive is fetched, checked, shipped and extracted.
extract(e) ==
    /\ run[e] = "extract" /\ ValidArchive /\ sbox.is
    /\ \/ ~sbox.half /\ sbox' = [sbox EXCEPT !.half = TRUE] /\ UNCHANGED run
       \/ sbox.half /\ sbox' = [is |-> TRUE, half |-> FALSE, holds |-> blobAt] /\ Runs(e, "consume")
    /\ UNCHANGED <<sess, aged, item, truth, writes, marker, blobAt, blobOwed, reap, spool, lock, lifeFaults, orphaned>>

\* The marker is consumed once the workspace is whole, and the lock released; a
\* sandbox that was lost since takes the workspace along.
consumeMarker(e) ==
    /\ run[e] = "consume"
    /\ marker' = IF marker = "none" THEN "none" ELSE "consumed"
    /\ truth' = IF sbox.is THEN truth ELSE 0
    /\ Runs(e, "ready") /\ Unlock
    /\ UNCHANGED <<sess, aged, item, sbox, writes, blobAt, blobOwed, reap, spool, lifeFaults, orphaned>>

\* A call of the run fails: it ends and its lease lapses.
runFails(e) ==
    /\ run[e] \notin {"none", "claimed"} /\ (Fault \/ (run[e] = "extract" /\ ~ValidArchive /\ UNCHANGED lifeFaults))
    /\ Runs(e, "none") /\ lock' = IF lock = <<e, "run">> THEN Free ELSE lock
    /\ item' = IF Mine(e) THEN [st |-> "queued", by |-> "none"] ELSE item
    /\ UNCHANGED <<sess, aged, sbox, truth, writes, marker, blobAt, blobOwed, reap, spool, orphaned>>

startTools(e) ==
    /\ run[e] = "ready" /\ Runs(e, "tools")
    /\ UNCHANGED <<sess, aged, item, sbox, truth, writes, marker, blobAt, blobOwed, reap, spool, lock, lifeFaults, orphaned>>

toolWrites(e) ==
    /\ run[e] = "tools" /\ sbox.is /\ writes < MaxWrites
    /\ writes' = writes + 1 /\ truth' = writes + 1 /\ sbox' = [sbox EXCEPT !.holds = writes + 1]
    /\ UNCHANGED <<sess, aged, item, marker, blobAt, blobOwed, run, reap, spool, lock, lifeFaults, orphaned>>

\* The results are committed if the claim holds, and the turn ends or goes on.
settle(e) ==
    /\ run[e] = "tools" /\ Runs(e, "none")
    /\ IF Mine(e) /\ sess = "running"
       THEN \/ sess' = "idle" /\ item' = NoWork /\ aged' = FALSE
            \/ item' = [st |-> "queued", by |-> "none"] /\ UNCHANGED <<sess, aged>>
       ELSE UNCHANGED <<sess, item, aged>>
    /\ UNCHANGED <<sbox, truth, writes, marker, blobAt, blobOwed, reap, spool, lock, lifeFaults, orphaned>>

----------------------------------------------------------------------------
(* The reaper. *)

\* classifyForReap: work queued, held, or stopped within the last lease TTL is live.
ReapIdleAlone ==
    CASE sess = "deleted" -> "deleted" [] sess = "archived" -> "archived"
      [] sess = "terminated" -> "terminated"
      [] sess = "idle" /\ aged /\ item.st \notin {"queued", "held"} -> "idle"
      [] OTHER -> "none"
classifyForReap ==
    CASE sess = "deleted" -> "deleted" [] sess = "archived" -> "archived"
      [] sess = "terminated" -> "terminated"
      [] sess = "idle" /\ aged /\ item.st = "none" -> "idle"
      [] OTHER -> "none"

\* A pass lists the sandboxes there are and classifies each.
reapPass(e) ==
    /\ reap[e] = "none" /\ sbox.is /\ classifyForReap # "none"
    /\ Reaps(e, "candidate")
    /\ UNCHANGED <<sess, aged, item, sbox, truth, writes, marker, blobAt, blobOwed, run, spool, lock, lifeFaults, orphaned>>

\* A held lock skips the session; under the lock it is classified again.
tryLock(e) ==
    /\ reap[e] = "candidate"
    /\ IF lock # Free \/ classifyForReap = "none" THEN Reaps(e, "none") /\ UNCHANGED lock
       ELSE lock' = <<e, "reap">> /\ Reaps(e, classifyForReap)
    /\ UNCHANGED <<sess, aged, item, sbox, truth, writes, marker, blobAt, blobOwed, run, spool, lifeFaults, orphaned>>

\* A deleted session's object first, while the sandbox still triggers a retry.
deleteBlob(e) ==
    /\ reap[e] = "deleted"
    /\ blobAt' = -1 /\ Reaps(e, "destroy")
    /\ UNCHANGED <<sess, aged, item, sbox, truth, writes, marker, blobOwed, run, spool, lock, lifeFaults, orphaned>>

\* The other tiers bring the memory stores up to date.
syncMemory(e) ==
    /\ reap[e] \in {"archived", "terminated", "idle"}
    /\ Reaps(e, IF reap[e] = "idle" THEN "export" ELSE "destroy")
    /\ UNCHANGED <<sess, aged, item, sbox, truth, writes, marker, blobAt, blobOwed, run, spool, lock, lifeFaults, orphaned>>

\* The archive holds the roots' files, directories and links; sentinels, devices
\* and second names of a file are no part of the workspace.
Archived == sbox.holds

\* The capture reads the sandbox.  One that cannot be read, or is too large, is
\* reaped all the same, and its workspace is given up.
exportRoots(e) ==
    /\ reap[e] = "export"
    /\ \/ /\ sbox.is /\ spool' = [spool EXCEPT ![e] = Archived] /\ Reaps(e, "put")
          /\ orphaned' = (orphaned \/ marker = "ready")
          /\ UNCHANGED <<truth, lifeFaults>>
       \/ /\ Fault /\ Reaps(e, "destroy") /\ UNCHANGED <<spool, orphaned>>
          /\ truth' = Recoverable
    /\ UNCHANGED <<sess, aged, item, sbox, writes, marker, blobAt, blobOwed, run, lock>>

putBlob(e) ==
    /\ reap[e] = "put"
    /\ blobAt' = spool[e] /\ Reaps(e, "mark")
    /\ UNCHANGED <<sess, aged, item, sbox, truth, writes, marker, blobOwed, run, spool, lock, lifeFaults, orphaned>>

\* The marker needs the session's row; without it the object is withdrawn.
MarkOrLeave(e) ==
    /\ reap[e] = "mark"
    /\ marker' = IF sess = "deleted" THEN marker ELSE "ready"
    /\ Reaps(e, "destroy") /\ spool' = [spool EXCEPT ![e] = -1]
    /\ UNCHANGED <<sess, aged, item, sbox, truth, writes, blobAt, blobOwed, run, lock, lifeFaults, orphaned>>
captureCheckpoint(e) ==
    /\ reap[e] = "mark"
    /\ IF sess = "deleted" THEN blobAt' = -1 /\ UNCHANGED marker
       ELSE marker' = "ready" /\ UNCHANGED blobAt
    /\ Reaps(e, "destroy") /\ spool' = [spool EXCEPT ![e] = -1]
    /\ UNCHANGED <<sess, aged, item, sbox, truth, writes, blobOwed, run, lock, lifeFaults, orphaned>>

\* The provider destroys the sandbox, and the lock is released.
destroy(e) ==
    /\ reap[e] = "destroy"
    /\ sbox' = NoBox /\ Reaps(e, "none") /\ Unlock
    /\ UNCHANGED <<sess, aged, item, truth, writes, marker, blobAt, blobOwed, run, spool, lifeFaults, orphaned>>

\* With the sandbox gone, a capture that is given up takes the workspace along.
GiveUpSpool(e) ==
    /\ spool' = [spool EXCEPT ![e] = -1]
    /\ truth' = IF sbox.is \/ spool[e] = -1 THEN truth ELSE Recoverable

\* A failure outside the sandbox aborts the reap: the next pass retries.
reapFails(e) ==
    /\ reap[e] \notin {"none", "candidate"} /\ Fault
    /\ Reaps(e, "none") /\ GiveUpSpool(e) /\ Unlock
    /\ UNCHANGED <<sess, aged, item, sbox, writes, marker, blobAt, blobOwed, run, orphaned>>

----------------------------------------------------------------------------
(* Faults. *)

\* The executor's process dies: the database frees its lock, its lease lapses.
crash(e) ==
    /\ run[e] # "none" \/ reap[e] # "none"
    /\ Fault
    /\ Runs(e, "none") /\ Reaps(e, "none") /\ GiveUpSpool(e)
    /\ lock' = IF lock[1] = e THEN Free ELSE lock
    /\ item' = IF Mine(e) THEN [st |-> "queued", by |-> "none"] ELSE item
    /\ UNCHANGED <<sess, aged, sbox, writes, marker, blobAt, blobOwed, orphaned>>

\* The sandbox is lost with what no checkpoint holds.
sandboxDies ==
    /\ sbox.is /\ Fault
    /\ sbox' = NoBox
    /\ truth' = IF \E e \in LifeExecutors : spool[e] # -1 THEN truth ELSE Recoverable
    /\ UNCHANGED <<sess, aged, item, writes, marker, blobAt, blobOwed, run, reap, spool, lock, orphaned>>

RunStep(e) ==
    \/ sessionForRun(e) \/ lockSession(e) \/ replaceSandbox(e) \/ provisionSandbox(e)
    \/ extract(e) \/ consumeMarker(e) \/ startTools(e) \/ settle(e)
    \/ run[e] = "extract" /\ runFails(e)
ReapStep(e) ==
    \/ reapPass(e) \/ tryLock(e) \/ deleteBlob(e) \/ syncMemory(e) \/ exportRoots(e) \/ putBlob(e)
    \/ captureCheckpoint(e) \/ destroy(e)

LifeNext ==
    \/ send \/ interrupt \/ graceEnds \/ age \/ endSession \/ deleteSession \/ drainObject \/ sandboxDies
    \/ \E e \in LifeExecutors : claim(e) \/ RunStep(e) \/ toolWrites(e) \/ ReapStep(e)
                                \/ runFails(e) \/ reapFails(e) \/ crash(e)

----------------------------------------------------------------------------
WorkspaceKept ==
    \A e \in LifeExecutors :
        run[e] \in {"ready", "tools"} /\ sbox.is /\ sess \in {"idle", "running"} => ~sbox.half /\ sbox.holds = truth

\* Every tool run finds the workspace its session last had: however captures,
\* restores, interrupts, crashes and failed calls interleave, it is neither
\* rewound nor half restored, unless the sandbox itself was lost or could not
\* be read, or a capture took a sandbox whose restore had failed
\* (provisionSandbox, restoreCheckpoint, reapSession, captureCheckpoint).
WorkspaceSurvives == orphaned \/ WorkspaceKept

\* A failed restore keeps the checkpoint: "a crash mid-restore leaves `ready`
\* standing and the next provision replaces the half-restored tree"
\* (restoreCheckpoint), so the run after it finds the workspace.
FailedRestoreKeepsCheckpoint == WorkspaceKept

\* A deleted session ends with neither a sandbox nor a checkpoint object, though
\* a provision or a capture was under way when it was deleted (reapSession,
\* captureCheckpoint, deleteSession).
DeletedIsCollected == <>[](sess = "deleted" => ~sbox.is /\ blobAt = -1)
=============================================================================
