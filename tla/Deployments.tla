---------------------------- MODULE Deployments ----------------------------
(***************************************************************************)
(* A deployment and its scheduler (src/internal/api/deployments.go,        *)
(* deploymentscheduler.go, deploymentruns.go).  Every control-plane        *)
(* replica sweeps: it reads the database's clock and the deployment, picks *)
(* the latest occurrence that has fallen due, and fires it in one          *)
(* transaction that locks the deployment's row FOR SHARE, claims the       *)
(* occurrence through the unique index on the runs and creates a session.  *)
(* Clients update, pause, resume, archive and run the same deployment.     *)
(*                                                                         *)
(* Occurs gives the instants of every schedule, as module Cron computes    *)
(* them.  A transaction is modelled by the locks it holds between its      *)
(* statements; what a session creation answers is chosen freely among the  *)
(* outcomes the fire tells apart.                                          *)
(***************************************************************************)
EXTENDS Integers, Sequences, FiniteSets, FiniteSetsExt

CONSTANTS
    Replicas,       \* the control-plane processes that sweep
    Runner,         \* the client that may hold a manual run open
    Occurs,         \* the schedules a deployment may be given, by name, and
                    \* the occurrences of each
    CatchupWindow,  \* minutes an occurrence stays eligible
    LockWait,       \* how long a writer waits for the row
    StartTime, EndTime,
    MaxDeploymentEdits, MaxFireFaults

VARIABLES
    clock,      \* the database's now()
    deployment, \* the row: schedule, pause, archive, schedule_resumed_at
    steady,     \* since when it has been active on its schedule (history)
    runs,       \* the committed rows of deployment_runs, in commit order
    txs,        \* what every replica, and the runner, is in the middle of
    depleft     \* the client edits and the faults still to come

depvars == <<clock, deployment, steady, runs, txs, depleft>>

NoSchedule == "none"

Schedules == DOMAIN Occurs

Idle == [pc |-> "idle", occ |-> 0, expr |-> NoSchedule]

Actors == Replicas \union {Runner}

DepInit ==
    /\ clock = StartTime
    /\ deployment \in [expr : Schedules, paused : {"no"}, archived : {FALSE},
                       resumed : {StartTime}]
    /\ steady = StartTime
    /\ runs = <<>>
    /\ txs = [a \in Actors |-> Idle]
    /\ depleft = [edits |-> MaxDeploymentEdits, faults |-> MaxFireFaults]

\* The database's clock moves.
PassTime ==
    /\ clock < EndTime
    /\ clock' = clock + 1
    /\ UNCHANGED <<deployment, steady, runs, txs, depleft>>

---------------------------------------------------------------------------
(* The sweep.                                                              *)

Scheduled == { i \in DOMAIN runs : runs[i].trigger = "schedule" }

\* The floor below which nothing fires: the last claimed occurrence or the
\* last resume, whichever is later.
Lower == Max({deployment.resumed} \union { runs[i].at : i \in Scheduled })

FireFloor == Max({Lower, clock - CatchupWindow})

Active == ~deployment.archived /\ deployment.paused = "no"

DueNow ==
    IF Active /\ deployment.expr # NoSchedule /\ Lower < clock
    THEN Occurs[deployment.expr] \intersect (FireFloor + 1 .. clock)
    ELSE {}

Set(a, tx) == txs' = [txs EXCEPT ![a] = tx]

\* One pass of a replica: the latest due occurrence is picked, the earlier
\* ones are passed over.
DeploymentTick(r) ==
    /\ txs[r].pc = "idle"
    /\ DueNow # {}
    /\ Set(r, [pc |-> "picked", occ |-> Max(DueNow), expr |-> deployment.expr])
    /\ UNCHANGED <<clock, deployment, steady, runs, depleft>>

\* Transactions that hold the deployment's row FOR SHARE.
Sharing == { a \in Actors : txs[a].pc \in {"shared", "claimed", "pausing"} }

\* What the fire re-reads under its lock: the row still active, the schedule
\* still the one the occurrence came from, the resume floor still below it.
StillDue(r) ==
    /\ Active
    /\ deployment.expr = txs[r].expr
    /\ txs[r].occ > deployment.resumed

FireLock(r) ==
    /\ txs[r].pc = "picked"
    /\ IF StillDue(r)
       THEN Set(r, [txs[r] EXCEPT !.pc = "shared"])
       ELSE Set(r, Idle)
    /\ UNCHANGED <<clock, deployment, steady, runs, depleft>>

Holders(occ) == { a \in Actors : txs[a].pc \in {"claimed", "pausing"} /\ txs[a].occ = occ }

\* The claim: a committed run of the occurrence loses it at once, another's
\* uncommitted claim makes the insert wait.
FireClaim(r) ==
    /\ txs[r].pc = "shared"
    /\ \/ /\ \E i \in Scheduled : runs[i].at = txs[r].occ
          /\ Set(r, Idle)
       \/ /\ \A i \in Scheduled : runs[i].at # txs[r].occ
          /\ Holders(txs[r].occ) = {}
          /\ Set(r, [txs[r] EXCEPT !.pc = "claimed"])
    /\ UNCHANGED <<clock, deployment, steady, runs, depleft>>

\* lock_timeout ends a wait: on another's claim the fire is lost, at the
\* pause it is abandoned.
FireTimeout(r) ==
    /\ \/ txs[r].pc = "shared" /\ Holders(txs[r].occ) # {}
       \/ txs[r].pc = "pausing" /\ Sharing # {r}
    /\ Set(r, Idle)
    /\ UNCHANGED <<clock, deployment, steady, runs, depleft>>

RunRow(trigger, at, error) == [trigger |-> trigger, at |-> at, error |-> error]

\* The session is created, or refused for a reason that does not pause: the
\* run is settled and committed.
FireSettle(r) ==
    /\ txs[r].pc = "claimed"
    /\ \E error \in {"none", "rejected"} :
          /\ error = "none" \/ depleft.faults > 0
          /\ runs' = Append(runs, RunRow("schedule", txs[r].occ, error))
          /\ depleft' = [depleft EXCEPT !.faults = @ - (IF error = "none" THEN 0 ELSE 1)]
    /\ Set(r, Idle)
    /\ UNCHANGED <<clock, deployment, steady>>

\* A pausing refusal: the run's error is written, and the deployment's row
\* must now be written under the share lock this transaction holds.
FireRefused(r) ==
    /\ txs[r].pc = "claimed" /\ depleft.faults > 0
    /\ Set(r, [txs[r] EXCEPT !.pc = "pausing"])
    /\ depleft' = [depleft EXCEPT !.faults = @ - 1]
    /\ UNCHANGED <<clock, deployment, steady, runs>>

\* The auto-pause and the commit, once no other transaction shares the row.
FirePause(r) ==
    /\ txs[r].pc = "pausing" /\ Sharing = {r}
    /\ runs' = Append(runs, RunRow("schedule", txs[r].occ, "pausing"))
    /\ deployment' = [deployment EXCEPT !.paused = "error"]
    /\ Set(r, Idle)
    /\ UNCHANGED <<clock, steady, depleft>>

\* An unclassified failure, or the replica's crash, rolls the transaction
\* back and releases the claim.
FireAbandoned(r) ==
    /\ txs[r].pc \in {"picked", "shared", "claimed"} /\ depleft.faults > 0
    /\ Set(r, Idle)
    /\ depleft' = [depleft EXCEPT !.faults = @ - 1]
    /\ UNCHANGED <<clock, deployment, steady, runs>>

\* Two transactions each wait on what the other holds: the pausing one on the
\* other's share lock, the other on its claim or on its share lock.  The
\* database rolls one of them back.
DeadlockVictim(p, q) ==
    /\ p # q /\ txs[p].pc = "pausing"
    /\ \/ txs[q].pc = "pausing"
       \/ txs[q].pc = "shared" /\ txs[q].occ = txs[p].occ
    /\ \E victim \in {p, q} : Set(victim, Idle)
    /\ UNCHANGED <<clock, deployment, steady, runs, depleft>>

---------------------------------------------------------------------------
(* The clients.  A writer of the row waits for every share lock and gives  *)
(* up at lock_timeout, which leaves nothing behind.                        *)

Write(d) ==
    /\ depleft.edits > 0 /\ Sharing = {} /\ ~deployment.archived
    /\ deployment' = d
    /\ steady' = IF d.expr # deployment.expr \/ d.paused # deployment.paused
                  THEN clock ELSE steady
    /\ depleft' = [depleft EXCEPT !.edits = @ - 1]
    /\ UNCHANGED <<clock, runs, txs>>

\* The schedule is replaced or removed; the resume floor stays.
UpdateDeployment ==
    \E e \in Schedules \union {NoSchedule} :
        /\ e # deployment.expr
        /\ e # NoSchedule => \E o \in Occurs[e] : o > clock
        /\ Write([deployment EXCEPT !.expr = e])

PauseDeployment ==
    Write([deployment EXCEPT !.paused = IF @ = "no" THEN "manual" ELSE @])

\* A resume that restamps the floor of a deployment that never stopped.
UnpauseAlways ==
    Write([deployment EXCEPT !.paused = "no", !.resumed = clock])

\* The resume floor moves only on a real resume, to the now() of the
\* transaction's start, which its wait for the row leaves behind the write.
UnpauseDeployment ==
    \E began \in Max({StartTime, clock - LockWait}) .. clock :
        Write([deployment EXCEPT
            !.paused = "no",
            !.resumed = IF deployment.paused = "no" THEN @ ELSE began])

ArchiveDeployment == Write([deployment EXCEPT !.archived = TRUE])

\* A manual run shares the row, pause or no pause, and records its outcome;
\* it claims nothing and never pauses.
RunBegin ==
    /\ txs[Runner].pc = "idle" /\ ~deployment.archived /\ depleft.edits > 0
    /\ Set(Runner, [Idle EXCEPT !.pc = "shared"])
    /\ depleft' = [depleft EXCEPT !.edits = @ - 1]
    /\ UNCHANGED <<clock, deployment, steady, runs>>

RunSettle ==
    /\ txs[Runner].pc = "shared"
    /\ \/ \E error \in {"none", "rejected", "pausing"} :
             runs' = Append(runs, RunRow("manual", 0, error))
       \/ runs' = runs
    /\ Set(Runner, Idle)
    /\ UNCHANGED <<clock, deployment, steady, depleft>>

---------------------------------------------------------------------------

DepNext ==
    \/ PassTime
    \/ \E r \in Replicas :
          \/ DeploymentTick(r) \/ FireLock(r) \/ FireClaim(r) \/ FireTimeout(r)
          \/ FireSettle(r) \/ FireRefused(r) \/ FirePause(r) \/ FireAbandoned(r)
          \/ \E q \in Actors : DeadlockVictim(r, q)
    \/ UpdateDeployment \/ PauseDeployment \/ UnpauseDeployment \/ ArchiveDeployment
    \/ RunBegin \/ RunSettle

DepSpec == DepInit /\ [][DepNext]_depvars

---------------------------------------------------------------------------
(* Properties.                                                             *)

\* However late a fire is, what it commits is due at the commit: the
\* deployment is neither paused nor archived, the occurrence is one of its
\* schedule as it then stands, lies after the start of the last resume (what
\* fell due in a pause is not backfilled), and has no run yet; and a refusal
\* of the pausing kind stops the schedule in the same commit, never on top of
\* a client's own pause (fireScheduledTx, setDeploymentPause).
FireIsCurrent ==
    \A i \in DOMAIN runs' \ DOMAIN runs :
       LET new == runs'[i]
       IN  new.trigger = "schedule" =>
              /\ Active
              /\ new.at \in deployment.resumed + 1 .. clock
              /\ deployment.expr # NoSchedule
              /\ new.at \in Occurs[deployment.expr]
              /\ \A j \in Scheduled : runs[j].at # new.at
              /\ (new.error = "pausing") <=> (deployment'.paused = "error")


\* An occurrence stays due until it is fired or a later one is: while the
\* deployment has been active on one schedule since before it, and the
\* catch-up window is open, the next sweep will pick it or a later one,
\* whatever lost races, abandoned fires and repeated resumes came between
\* (deploymentTick; setDeploymentPause moves the floor only on a real resume).
DueStaysDue ==
    Active /\ deployment.expr # NoSchedule =>
        \A o \in Occurs[deployment.expr] :
            o \in steady + 1 .. clock /\ o > clock - CatchupWindow =>
                o \in DueNow \/ \E i \in Scheduled : runs[i].at >= o

\* Every occurrence fires as it should: what fires is current, and what is due
\* is not lost.
FiringIsExact == FireIsCurrent /\ DueStaysDue'

FiresAreExact == [][FiringIsExact]_<<deployment, runs, clock, steady>>
===========================================================================
