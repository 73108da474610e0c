---------------------------- MODULE SandboxGate ----------------------------
(***************************************************************************)
(* Provisioning one session's sandbox and the egress gate in front of it.  *)
(* On docker the gate is a container of its own whose network namespace    *)
(* the sandbox joins; on k8s it is a sidecar of the sandbox's pod.  The    *)
(* gate authenticates with a token that is minted before the create and    *)
(* persisted after it, and ends when the control plane refuses the token.  *)
(*                                                                         *)
(* Executors serialize on an advisory lock that a holder may lose with its *)
(* database connection; a call may fail, and an executor may crash between *)
(* any two steps.  Faults bounds all of these together.                    *)
(***************************************************************************)
EXTENDS Naturals, FiniteSetsExt

CONSTANTS Executors, Ids, MaxFaults

VARIABLES
    host,           \* "docker" or "k8s"
    gated,          \* does the session want a gate now
    box,            \* the container or pod with the sandbox's name
    gate,           \* docker: the container with the gate's name
    liveToken,      \* the session's live gate token, 0 when there is none
    at,             \* executor |-> its call's state
    lockedBy,       \* the holder of the session's advisory lock
    handle,         \* the last sandbox that a call returned
    faults

gateVars == <<host, gated, box, gate, liveToken, at, lockedBy, handle, faults>>

None == [id |-> 0, net |-> 0, tok |-> 0, st |-> "absent", healthy |-> FALSE]
Idle == [pc |-> "idle", gated |-> FALSE, gate |-> 0, box |-> 0, made |-> FALSE, madeBox |-> FALSE, tok |-> 0]
Nobody == "nobody"
Exists(c) == c.id # 0

GateInit ==
    /\ host \in {"docker", "k8s"} /\ gated \in BOOLEAN
    /\ box = None /\ gate = None /\ liveToken = 0
    /\ at = [e \in Executors |-> Idle] /\ lockedBy = Nobody
    /\ handle = [box |-> 0, gated |-> FALSE]
    /\ faults = MaxFaults

\* Container ids, pod UIDs and tokens are never used again: an id is fresh when
\* nothing refers to it.
Known == {liveToken, handle.box} \cup UNION {{at[e].gate, at[e].box, at[e].tok} : e \in Executors}
            \cup {box.id, box.net, box.tok, gate.id, gate.tok}
Fresh(i) == i \in Ids \ Known /\ \A j \in Ids \ Known : i <= j

Go(e, pc)  == at' = [at EXCEPT ![e].pc = pc]
Released(e) == IF lockedBy = e THEN Nobody ELSE lockedBy

\* A call that fails removes the gate and the sandbox that it made itself.
removeDetached(e) ==
    /\ gate' = IF at[e].made /\ gate.id = at[e].gate THEN None ELSE gate
    /\ box' = IF at[e].madeBox /\ box.id = at[e].box THEN None ELSE box

Fail(e) ==
    /\ removeDetached(e)
    /\ at' = [at EXCEPT ![e] = Idle] /\ lockedBy' = Released(e)

Succeed(e, b) ==
    /\ handle' = [box |-> b, gated |-> at[e].gated]
    /\ at' = [at EXCEPT ![e] = Idle] /\ lockedBy' = Released(e)

----------------------------------------------------------------------------
\* provisionSandbox: under the session's lock, with the session's current shape.
provision(e) ==
    /\ at[e].pc = "idle" /\ lockedBy = Nobody
    /\ at' = [at EXCEPT ![e] = [Idle EXCEPT !.gated = gated,
                !.pc = IF host = "k8s" THEN "pod" ELSE IF gated THEN "gate" ELSE "box"]]
    /\ lockedBy' = e
    /\ UNCHANGED <<host, gated, box, gate, liveToken, handle, faults>>

(* Docker: the gate. *)

\* A running gate is adopted; a stopped one may hold a token that was never
\* persisted or is revoked, and is replaced.
ensureGate(e) ==
    /\ at[e].pc = "gate"
    /\ IF Exists(gate) /\ gate.st = "running"
         THEN at' = [at EXCEPT ![e].pc = "healthy", ![e].gate = gate.id] /\ UNCHANGED gate
         ELSE gate' = None /\ Go(e, "mint")
    /\ UNCHANGED <<host, gated, box, liveToken, lockedBy, handle, faults>>

\* The loser of a create race adopts the winner's gate and mints nothing.
createGate(e) ==
    /\ at[e].pc = "mint"
    /\ IF Exists(gate)
         THEN at' = [at EXCEPT ![e].pc = "healthy", ![e].gate = gate.id] /\ UNCHANGED gate
         ELSE \E i \in Ids : Fresh(i) /\
                /\ gate' = [None EXCEPT !.id = i, !.tok = i, !.st = "created"]
                /\ at' = [at EXCEPT ![e].pc = "persist", ![e].gate = i, ![e].tok = i, ![e].made = TRUE]
    /\ UNCHANGED <<host, gated, box, liveToken, lockedBy, handle, faults>>

\* gatetoken.Ensure: the new token replaces every other one of the session.
Persist(e) ==
    /\ at[e].pc = "persist"
    /\ liveToken' = at[e].tok
    /\ Go(e, IF host = "k8s" THEN "ready" ELSE "start")
    /\ UNCHANGED <<host, gated, box, gate, lockedBy, handle, faults>>

startGate(e) ==
    /\ at[e].pc = "start"
    /\ IF gate.id = at[e].gate
         THEN /\ gate' = [gate EXCEPT !.st = "running"] /\ Go(e, "healthy")
              /\ UNCHANGED <<box, lockedBy>>
         ELSE Fail(e)
    /\ UNCHANGED <<host, gated, liveToken, handle, faults>>

waitGateHealthy(e) ==
    /\ at[e].pc = "healthy"
    /\ \/ /\ gate.id = at[e].gate /\ gate.st = "running" /\ gate.healthy
          /\ Go(e, "box")
          /\ UNCHANGED <<box, gate, lockedBy>>
       \/ (gate.id # at[e].gate \/ gate.st # "running") /\ Fail(e)
    /\ UNCHANGED <<host, gated, liveToken, handle, faults>>

(* Docker: the sandbox. *)

pairedWithGate(c, g) == c.net = g

NetnsUp(c) == c.net = 0 \/ (gate.id = c.net /\ gate.st = "running")

\* A sandbox in the right namespace is adopted, and started if need be; any
\* other is replaced.  Without a gate its token is revoked before.
adoptOrReplace(e) ==
    /\ at[e].pc = "box"
    /\ CASE ~Exists(box) -> Go(e, "create") /\ UNCHANGED <<box, gate, liveToken, lockedBy, handle>>
         [] Exists(box) /\ pairedWithGate(box, at[e].gate) /\ (box.st = "running" \/ NetnsUp(box)) ->
              /\ box' = [box EXCEPT !.st = "running"] /\ Succeed(e, box.id)
              /\ UNCHANGED <<gate, liveToken>>
         [] Exists(box) /\ pairedWithGate(box, at[e].gate) /\ ~(box.st = "running" \/ NetnsUp(box)) ->
              Fail(e) /\ UNCHANGED <<liveToken, handle>>
         [] OTHER ->
              /\ at' = [at EXCEPT ![e].pc = "remove", ![e].box = box.id]
              /\ liveToken' = IF at[e].gated THEN liveToken ELSE 0
              /\ UNCHANGED <<box, gate, lockedBy, handle>>
    /\ UNCHANGED <<host, gated, faults>>

removeBox(e) ==
    /\ at[e].pc = "remove"
    /\ box' = IF box.id = at[e].box THEN None ELSE box
    /\ Go(e, IF at[e].gated THEN "create" ELSE "ungate")
    /\ UNCHANGED <<host, gated, gate, liveToken, lockedBy, handle, faults>>

removeGate(e) ==
    /\ at[e].pc = "ungate"
    /\ gate' = None /\ Go(e, "create")
    /\ UNCHANGED <<host, gated, box, liveToken, lockedBy, handle, faults>>

AdoptAnyWinner(e) ==
    /\ at[e].pc = "create"
    /\ \/ /\ ~Exists(box)
          /\ \E i \in Ids : Fresh(i) /\
               /\ box' = [None EXCEPT !.id = i, !.net = at[e].gate, !.st = "created"]
               /\ at' = [at EXCEPT ![e].pc = "run", ![e].box = i, ![e].madeBox = TRUE]
          /\ UNCHANGED <<gate, lockedBy>>
       \/ /\ Exists(box)
          /\ at' = [at EXCEPT ![e].pc = "run", ![e].box = box.id]
          /\ UNCHANGED <<box, gate, lockedBy>>
    /\ UNCHANGED <<host, gated, liveToken, handle, faults>>

\* A sandbox that another executor created first must be paired with this gate.
createBox(e) ==
    /\ at[e].pc = "create"
    /\ \/ /\ ~Exists(box)
          /\ \E i \in Ids : Fresh(i) /\
               /\ box' = [None EXCEPT !.id = i, !.net = at[e].gate, !.st = "created"]
               /\ at' = [at EXCEPT ![e].pc = "run", ![e].box = i, ![e].madeBox = TRUE]
          /\ UNCHANGED <<gate, lockedBy>>
       \/ /\ Exists(box) /\ pairedWithGate(box, at[e].gate)
          /\ at' = [at EXCEPT ![e].pc = "run", ![e].box = box.id]
          /\ UNCHANGED <<box, gate, lockedBy>>
       \/ Exists(box) /\ ~pairedWithGate(box, at[e].gate) /\ Fail(e)
    /\ UNCHANGED <<host, gated, liveToken, handle, faults>>

startBox(e) ==
    /\ at[e].pc = "run"
    /\ IF box.id = at[e].box /\ NetnsUp(box)
         THEN box' = [box EXCEPT !.st = "running"] /\ Succeed(e, box.id) /\ UNCHANGED gate
         ELSE Fail(e) /\ UNCHANGED handle
    /\ UNCHANGED <<host, gated, liveToken, faults>>

----------------------------------------------------------------------------
(* Kubernetes: one pod.  net tells whether it has the sidecar. *)

hasGateSidecar(p) == p.net # 0
podReady(p, g) == p.st = "ready" /\ (g => hasGateSidecar(p))

\* A pod of the session's shape is waited for; any other is deleted by its UID.
adoptPod(e) ==
    /\ at[e].pc = "pod"
    /\ CASE ~Exists(box) -> Go(e, "createPod") /\ UNCHANGED liveToken
         [] Exists(box) /\ hasGateSidecar(box) = at[e].gated ->
              at' = [at EXCEPT ![e].pc = "ready", ![e].box = box.id] /\ UNCHANGED liveToken
         [] OTHER ->
              /\ at' = [at EXCEPT ![e].pc = "deletePod", ![e].box = box.id]
              /\ liveToken' = IF at[e].gated THEN liveToken ELSE 0
    /\ UNCHANGED <<host, gated, box, gate, lockedBy, handle, faults>>

deleteAndWaitGone(e) ==
    /\ at[e].pc = "deletePod"
    /\ box' = IF box.id = at[e].box THEN None ELSE box
    /\ Go(e, "createPod")
    /\ UNCHANGED <<host, gated, gate, liveToken, lockedBy, handle, faults>>

createPod(e) ==
    /\ at[e].pc = "createPod"
    /\ \/ /\ ~Exists(box)
          /\ \E i \in Ids : Fresh(i) /\
               /\ box' = [None EXCEPT !.id = i, !.net = IF at[e].gated THEN i ELSE 0,
                                     !.tok = IF at[e].gated THEN i ELSE 0, !.st = "starting"]
               /\ at' = [at EXCEPT ![e].pc = IF at[e].gated THEN "persist" ELSE "ready",
                                   ![e].box = i, ![e].madeBox = TRUE, ![e].tok = i]
          /\ UNCHANGED <<gate, lockedBy>>
       \/ /\ Exists(box) /\ hasGateSidecar(box) = at[e].gated
          /\ at' = [at EXCEPT ![e].pc = "lost", ![e].box = box.id]
          /\ UNCHANGED <<box, gate, lockedBy>>
       \/ Exists(box) /\ hasGateSidecar(box) # at[e].gated /\ Fail(e)
    /\ UNCHANGED <<host, gated, liveToken, handle, faults>>

NoReclaim(e) == UNCHANGED box

\* A gated pod that was adopted and a pod that was made, only that one, and
\* only while it is still not ready; the loser of a create leaves the winner's.
reclaimUnready(e) ==
    LET mine == at[e].madeBox \/ (at[e].gated /\ at[e].pc = "ready")
    IN  box' = IF mine /\ box.id = at[e].box /\ ~podReady(box, at[e].gated) THEN None ELSE box

\* A gate whose token is not the live one never passes its startup probe.
Refused(p) == hasGateSidecar(p) /\ p.tok # liveToken

\* The pod is read by its name: by now it may be another executor's.
waitReady(e) ==
    /\ host = "k8s" /\ at[e].pc \in {"ready", "lost"}
    /\ \/ Exists(box) /\ podReady(box, at[e].gated) /\ Succeed(e, box.id) /\ UNCHANGED <<box, gate>>
       \/ /\ ~Exists(box) \/ (~podReady(box, at[e].gated) /\ (Refused(box) \/ hasGateSidecar(box) # at[e].gated))
          /\ reclaimUnready(e)
          /\ at' = [at EXCEPT ![e] = Idle] /\ lockedBy' = Released(e)
          /\ UNCHANGED <<gate, handle>>
    /\ UNCHANGED <<host, gated, liveToken, faults>>

----------------------------------------------------------------------------
(* The gate's process, the reaper, and faults. *)

\* Its firewall is up and it listens; the pod's sandbox starts after it.
gateServes ==
    /\ \/ /\ Exists(gate) /\ gate.st = "running" /\ ~gate.healthy
          /\ gate' = [gate EXCEPT !.healthy = TRUE] /\ UNCHANGED box
       \/ /\ host = "k8s" /\ Exists(box) /\ box.st = "starting" /\ ~Refused(box)
          /\ box' = [box EXCEPT !.st = "ready"] /\ UNCHANGED gate
    /\ UNCHANGED <<host, gated, liveToken, at, lockedBy, handle, faults>>

\* A fetch of the policy is answered 401: a container stops, a sidecar restarts.
RunFetchLoop ==
    /\ \/ /\ Exists(gate) /\ gate.st = "running" /\ gate.tok # liveToken
          /\ gate' = [gate EXCEPT !.st = "stopped", !.healthy = FALSE] /\ UNCHANGED box
       \/ /\ host = "k8s" /\ Exists(box) /\ podReady(box, TRUE) /\ Refused(box)
          /\ box' = [box EXCEPT !.st = "starting"] /\ UNCHANGED gate
    /\ UNCHANGED <<host, gated, liveToken, at, lockedBy, handle, faults>>

Spend == faults > 0 /\ faults' = faults - 1

\* Reap, under the lock: the token, then the sandbox, then the gate, each of
\* which may be as far as it gets.
Reap ==
    /\ lockedBy = Nobody /\ Spend
    /\ liveToken' = 0
    /\ \E n \in 0..2 : /\ box' = IF n >= 1 THEN None ELSE box
                       /\ gate' = IF n = 2 THEN None ELSE gate
    /\ UNCHANGED <<host, gated, at, lockedBy, handle>>

\* The session's networking or vaults change.
reshape == gated' = ~gated /\ Spend /\ UNCHANGED <<host, box, gate, liveToken, at, lockedBy, handle>>

\* A call to the daemon fails, an executor crashes, or the lock's connection drops.
callFails(e) ==
    /\ at[e].pc # "idle" /\ Spend /\ Fail(e)
    /\ UNCHANGED <<host, gated, liveToken, handle>>

crash(e) ==
    /\ at[e].pc # "idle" /\ Spend
    /\ at' = [at EXCEPT ![e] = Idle] /\ lockedBy' = Released(e)
    /\ UNCHANGED <<host, gated, box, gate, liveToken, handle>>

lockLost(e) ==
    /\ lockedBy = e /\ Spend /\ lockedBy' = Nobody
    /\ UNCHANGED <<host, gated, box, gate, liveToken, at, handle>>

----------------------------------------------------------------------------
Step(e) ==
    \/ ensureGate(e) \/ createGate(e) \/ Persist(e) \/ startGate(e) \/ waitGateHealthy(e)
    \/ adoptOrReplace(e) \/ removeBox(e) \/ removeGate(e) \/ createBox(e) \/ startBox(e)
    \/ adoptPod(e) \/ deleteAndWaitGone(e) \/ createPod(e) \/ waitReady(e)

GateNext ==
    \/ \E e \in Executors : provision(e) \/ Step(e) \/ callFails(e) \/ crash(e) \/ lockLost(e)
    \/ gateServes \/ RunFetchLoop \/ Reap \/ reshape

\* Work keeps coming, a call that does not fail goes on, the gate's process runs.
GateFairness ==
    /\ WF_gateVars(\E e \in Executors : provision(e))
    /\ \A e \in Executors : WF_gateVars(Step(e))
    /\ WF_gateVars(gateServes) /\ WF_gateVars(RunFetchLoop)

GateSpec == GateInit /\ [][GateNext]_gateVars

----------------------------------------------------------------------------
(* A sandbox that is provisioned for a gated session is behind a gate,     *)
(* whichever executors raced to create it and whatever shape they wanted.  *)
GatedRunsBehindGate == handle.gated /\ box.id = handle.box /\ Exists(box) => box.net # 0

Serves ==
    /\ Exists(box) /\ box.id = handle.box /\ box.st \in {"running", "ready"}
    /\ handle.gated = gated
    /\ gated => /\ host = "docker" => gate.id = box.net /\ gate.st = "running" /\ gate.tok = liveToken
                /\ host = "k8s" => box.tok = liveToken

(* However the faults fell between the mint, the create, the persist and   *)
(* the start, once they stop the session ends up in a sandbox whose gate   *)
(* runs with the live token.                                               *)
GateHeals == <>[]Serves
=============================================================================
