----------------------------- MODULE WireLane -----------------------------
(***************************************************************************)
(* The wire lane: the tool_exec rows of one session of a self_hosted       *)
(* environment, as the work API (internal/api/workapi.go) hands them to    *)
(* the customer's workers (internal/worker/lease.go).                      *)
(*                                                                         *)
(* Unlike a claimant, a worker carries no proof of ownership on the wire:  *)
(* an ack or a stop names the work id alone.  What keeps a late worker off *)
(* its replacement's run is that every re-hand-out gives the row a fresh   *)
(* id; what keeps the session's calls from being stranded is that every    *)
(* statement that stops a row queues another one, in its transaction, for  *)
(* the calls still open.                                                   *)
(*                                                                         *)
(* A work id is modelled by the row it names: giving a row a fresh id      *)
(* leaves the workers that know the old one with an id that names nothing  *)
(* (404).  A last_heartbeat is modelled by whether the worker's echo of it *)
(* is current.  What nothing remembers is used again: the place of a       *)
(* stopped row that no worker and no token names, an answered call.        *)
(***************************************************************************)
EXTENDS WorkItems

CONSTANTS
    Workers,      \* the customer's worker processes
    Calls,        \* the tool calls of the session that are remembered at once
    MaxRows,      \* how many rows are remembered at once
    Reclaim,      \* reclaim_older_than_ms: the reservation a poll takes
    StartupTTL,   \* ackStartupLeaseSeconds
    TTL,          \* the lease a heartbeat buys
    WindDown      \* queue.WindDown

VARIABLES
    rows,         \* the session's work_items
    calls,        \* its tool calls: "open" (runnable and unanswered) or "answered"
    crew          \* what each worker is doing

vars == <<rows, calls, crew>>

-----------------------------------------------------------------------------
WorkRows == 1 .. MaxRows

\* claimed: last_heartbeat IS NOT NULL; wind is what is left of WindDown since
\* stop_requested_at.
Row == [state : States, lease : Nat \cup {Null}, claimed : BOOLEAN, wind : Nat \cup {Null}]

\* row is what the work id it was handed names; echo is what its next beat
\* sends: NO_HEARTBEAT, or a last_heartbeat that is still the row's or is not;
\* hb says why the heartbeat loop ended; found is what the run's last scan
\* found and is still to be answered.
Worker == [phase : {"idle", "polled", "running", "ended"}, row : WorkRows \cup {Null},
           echo : {"none", "current", "past"},
           hb : {"beating", "cancelled", "stop", "rejected", "lost"},
           scanned : BOOLEAN, found : SUBSET Calls, outcome : {"reclaim", "drain", "complete"}]

TypeOK == /\ rows \in [WorkRows -> Row]
          /\ calls \in [Calls -> {"open", "answered"}]
          /\ crew \in [Workers -> Worker]

Idle == [phase |-> "idle", row |-> Null, echo |-> "none", hb |-> "beating",
         scanned |-> FALSE, found |-> {}, outcome |-> "reclaim"]

NewRow == [state |-> "queued", lease |-> Null, claimed |-> FALSE, wind |-> Null]

Open == {k \in Calls : calls[k] = "open"}

Least(S) == {x \in S : \A y \in S : x <= y}

Forgotten(r) == \/ rows[r].state = "absent"
                \/ /\ rows[r].state = "stopped"
                   /\ rows[r].wind = 0
                   /\ \A w \in Workers : crew[w].row # r

\* The rows after Enqueue: ON CONFLICT ... WHERE state is live DO NOTHING.
Enqueue(rs) == IF \E r \in WorkRows : rs[r].state \in LiveStates THEN {rs}
               ELSE {[rs EXCEPT ![r] = NewRow] : r \in Least({q \in WorkRows : Forgotten(q)})}

\* rearm: a fresh item for the calls still open.
Rearm(rs) == IF Open = {} THEN {rs} ELSE Enqueue(rs)

Requested(wind) == IF wind = Null THEN WindDown ELSE wind

\* What a force stop, CancelSession and the finalizer make of a row.
Stopped(row) == [row EXCEPT !.state = "stopped", !.lease = Null, !.wind = Requested(@)]

-----------------------------------------------------------------------------
Init == /\ rows = [r \in WorkRows |-> [NewRow EXCEPT !.state = "absent"]]
        /\ calls = [k \in Calls |-> "answered"]
        /\ crew = [w \in Workers |-> Idle]

\* A turn commits a tool call (under the name of an answered one that no run
\* still holds) and enqueues the session's exec item.  The bound on rows leaves
\* a place for the row that stopping this one may have to queue.
AppendCall(k) ==
    /\ calls[k] = "answered"
    /\ \A w \in Workers : k \notin crew[w].found
    /\ \/ \E r \in WorkRows : rows[r].state \in LiveStates
       \/ \E q, r \in WorkRows : q # r /\ Forgotten(q) /\ Forgotten(r)
    /\ calls' = [calls EXCEPT ![k] = "open"]
    /\ rows' \in Enqueue(rows)
    /\ UNCHANGED crew

\* A row the poll may hand out.  A session has one at most.
Offerable(r) == \/ rows[r].state = "queued" /\ Available(rows[r].lease)
                \/ rows[r].state \in {"starting", "active"} /\ Lapsed(rows[r].lease)

\* The poll's claim: a reservation, under a fresh id unless this is the row's
\* first hand-out.
PollOn(w, r) ==
    /\ crew[w].phase = "idle"
    /\ Offerable(r)
    /\ rows' = [rows EXCEPT ![r] = [state |-> "queued", lease |-> Reclaim, claimed |-> FALSE, wind |-> @.wind]]
    /\ crew' = [v \in Workers |->
                  CASE v = w -> [Idle EXCEPT !.phase = "polled", !.row = r]
                    [] crew[v].row = r /\ rows[r].lease # Null -> [crew[v] EXCEPT !.row = Null]
                    [] OTHER -> crew[v]]
    /\ UNCHANGED calls

\* queued -> starting; an ack of a row past that changes nothing and succeeds,
\* and one under an id that was rotated away is a 404, dropped as an empty poll.
Ack(w) ==
    /\ crew[w].phase = "polled"
    /\ rows' = [r \in WorkRows |-> IF r = crew[w].row /\ rows[r].state = "queued"
                               THEN [rows[r] EXCEPT !.state = "starting", !.lease = StartupTTL]
                               ELSE rows[r]]
    /\ crew' = [crew EXCEPT ![w] = IF @.row = Null THEN Idle ELSE [@ EXCEPT !.phase = "running"]]
    /\ UNCHANGED calls

-----------------------------------------------------------------------------
\* The heartbeat loop runs from the ack until it exits, or until the run has
\* ended and its context with it.
Beating(w) == crew[w].phase \in {"running", "ended"} /\ crew[w].hb = "beating"

\* The precondition of a beat: NO_HEARTBEAT claims a starting row no beat has
\* reached, an echo extends the active row that holds its value.
Extends(w, r) == \/ crew[w].echo = "none" /\ rows[r].state = "starting" /\ ~rows[r].claimed
                 \/ crew[w].echo = "current" /\ rows[r].state = "active"

\* The beats answered with a stop: the echo of a worker that had claimed the
\* row, and the claim of one that had not when a graceful stop parked it.
Told(w, r) == \/ crew[w].echo = "none" /\ rows[r].state = "stopping" /\ ~rows[r].claimed
              \/ crew[w].echo = "current" /\ rows[r].state \in {"stopping", "stopped"}

\* A beat that extends the lease; its answer may be lost on the way back.
HeartbeatExtends(w) ==
    /\ Beating(w)
    /\ \E r \in WorkRows \cap {crew[w].row} :
         /\ Extends(w, r)
         /\ rows' = [rows EXCEPT ![r] = [state |-> "active", lease |-> TTL, claimed |-> TRUE, wind |-> @.wind]]
         /\ \/ crew' = [crew EXCEPT ![w].echo = "current"]
            \/ crew' = [crew EXCEPT ![w].echo = IF @ = "current" THEN "past" ELSE @]
    /\ UNCHANGED calls

\* The exits of the loop: told to stop; refused with a 412; refused with a 404,
\* which counts only while the run's context lives; or that context's end.
HeartbeatExits(w) ==
    /\ Beating(w)
    /\ \E exit \in {"stop", "lost", "rejected", "cancelled"} :
         /\ CASE exit = "stop" -> crew[w].row # Null /\ Told(w, crew[w].row)
              [] exit = "lost" -> crew[w].row # Null /\ ~Told(w, crew[w].row) /\ ~Extends(w, crew[w].row)
              [] exit = "rejected" -> crew[w].row = Null /\ crew[w].phase = "running"
              [] exit = "cancelled" -> crew[w].phase = "ended"
         /\ crew' = [crew EXCEPT ![w].hb = exit]
    /\ UNCHANGED <<rows, calls>>

\* No progress within the stall budget, or no answer for a whole TTL: the loop
\* gives the lease up.
HeartbeatGivesUp(w) ==
    /\ Beating(w)
    /\ crew[w].phase = "running"
    /\ crew' = [crew EXCEPT ![w].hb = "lost"]
    /\ UNCHANGED <<rows, calls>>

-----------------------------------------------------------------------------
\* RunSessionTools: a scan of the log, again whenever what it found is answered.
Scan(w) ==
    /\ crew[w].phase = "running"
    /\ crew[w].found = {}
    /\ crew' = [crew EXCEPT ![w].scanned = TRUE, ![w].found = Open]
    /\ UNCHANGED <<rows, calls>>

\* A result is posted; the control plane drops one for a call that has its own.
Answer(w, k) ==
    /\ crew[w].phase = "running"
    /\ k \in crew[w].found
    /\ calls' = [calls EXCEPT ![k] = "answered"]
    /\ crew' = [crew EXCEPT ![w].found = @ \ {k}]
    /\ UNCHANGED rows

\* runItem's outcome: everything it found is answered; the session was not
\* live; or a fault or a cancelled context left calls unanswered.
RunEnds(w, outcome) ==
    /\ crew[w].phase = "running"
    /\ outcome = "complete" => crew[w].scanned /\ crew[w].found = {}
    /\ outcome = "drain" => ~crew[w].scanned
    /\ crew' = [crew EXCEPT ![w].phase = "ended", ![w].outcome = outcome,
                            ![w].scanned = FALSE, ![w].found = {}]
    /\ UNCHANGED <<rows, calls>>

\* Mutant: the stop owes the session nothing.
StopWithoutRearm(r, force) ==
    CASE rows[r].state = "stopped" \/ (rows[r].state = "stopping" /\ ~force) -> rows' = rows
      [] force \/ rows[r].state = "queued" -> rows' = [rows EXCEPT ![r] = Stopped(@)]
      [] OTHER -> rows' = [rows EXCEPT ![r].state = "stopping", ![r].wind = Requested(@)]

\* stopWork: a stop that moved the row to stopped re-arms the session.
StopWork(r, force) ==
    CASE rows[r].state = "stopped" \/ (rows[r].state = "stopping" /\ ~force) -> rows' = rows
      [] force \/ rows[r].state = "queued" -> rows' \in Rearm([rows EXCEPT ![r] = Stopped(@)])
      [] OTHER -> rows' = [rows EXCEPT ![r].state = "stopping", ![r].wind = Requested(@)]

\* The exits and outcomes after which handleItem force-stops the item.
MustStop(w) == \/ crew[w].hb \in {"stop", "rejected"}
               \/ crew[w].outcome = "drain"
               \/ crew[w].outcome = "complete" /\ crew[w].hb # "lost"

\* handleItem's end: it force-stops the item or leaves it to be reclaimed.
Conclude(w) ==
    /\ crew[w].phase = "ended"
    /\ crew[w].hb # "beating"
    /\ IF MustStop(w) /\ crew[w].row # Null THEN StopWork(crew[w].row, TRUE) ELSE rows' = rows
    /\ crew' = [crew EXCEPT ![w] = Idle]
    /\ UNCHANGED calls

\* A worker dies, or the answer to its poll or ack, or its stop, is lost.
Crash(w) ==
    /\ crew[w].phase # "idle"
    /\ crew' = [crew EXCEPT ![w] = Idle]
    /\ UNCHANGED <<rows, calls>>

-----------------------------------------------------------------------------
\* A stop from outside the fleet.
OperatorStop(r, force) ==
    /\ rows[r].state \notin {"absent", "stopped"}
    /\ StopWork(r, force)
    /\ UNCHANGED <<calls, crew>>

\* Mutant: only the rows without a lease are finalized.
AbandonedLegacy(r) == rows[r].state = "stopping" /\ rows[r].lease = Null

\* A stopping row nobody is left to finish.
Abandoned(r) == /\ rows[r].state = "stopping"
                /\ Available(rows[r].lease)
                /\ rows[r].wind \in {0, Null}

\* What every poll does before its claim.
FinalizeAbandoned(r) ==
    /\ Abandoned(r)
    /\ rows' \in Rearm([rows EXCEPT ![r] = Stopped(@)])
    /\ UNCHANGED <<calls, crew>>

\* A user.interrupt: CancelSession, and every open call is answered with an error.
Interrupt ==
    /\ \E r \in WorkRows : rows[r].state \notin {"absent", "stopped"}
    /\ rows' = [r \in WorkRows |-> IF rows[r].state \in {"absent", "stopped"} THEN rows[r] ELSE Stopped(rows[r])]
    /\ calls' = [k \in Calls |-> "answered"]
    /\ UNCHANGED crew

Tick ==
    /\ \E r \in WorkRows : Aged(rows[r].lease) # rows[r].lease \/ Aged(rows[r].wind) # rows[r].wind
    /\ rows' = [r \in WorkRows |-> [rows[r] EXCEPT !.lease = Aged(@), !.wind = Aged(@)]]
    /\ UNCHANGED <<calls, crew>>

-----------------------------------------------------------------------------
WorkerStep(w) == \/ \E r \in WorkRows : PollOn(w, r)
                 \/ Ack(w)
                 \/ HeartbeatExtends(w) \/ HeartbeatExits(w) \/ HeartbeatGivesUp(w)
                 \/ Scan(w)
                 \/ \E k \in Calls : Answer(w, k)
                 \/ \E outcome \in {"reclaim", "drain", "complete"} : RunEnds(w, outcome)
                 \/ Conclude(w)
                 \/ Crash(w)

Next == \/ \E k \in Calls : AppendCall(k)
        \/ \E w \in Workers : WorkerStep(w)
        \/ \E r \in WorkRows, force \in BOOLEAN : OperatorStop(r, force)
        \/ \E r \in WorkRows : FinalizeAbandoned(r)
        \/ Interrupt
        \/ Tick

Spec == Init /\ [][Next]_vars

-----------------------------------------------------------------------------
\* No two workers know a work id that names the same row: a late worker's ack,
\* heartbeat or force stop can reach no other worker's run, though the wire
\* carries no proof of ownership.
OneWorkerPerId ==
    \A v, w \in Workers : crew[v].row = crew[w].row /\ crew[v].row # Null => v = w

\* The session's open calls always have an item that will serve them: whatever
\* stops an item (its worker, an operator, the finalizer) leaves another one for
\* the calls that a sibling thread committed while it ran.
NoCallStranded ==
    Open # {} => \E r \in WorkRows : rows[r].state \notin {"absent", "stopped"}

\* worktoken.Authenticate: the row's sessions token reaches the session.
TokenWorks(row) == CASE row.state \in {"stopping", "stopped"} -> row.wind \notin {0, Null}
                     [] OTHER -> row.lease \notin {0, Null}

\* "that settlement never re-arms a session while the abandoned item's token
\* still works" (WindDown): the finalizer waits out the token's window.
FinalizerOutwaitsToken ==
    [][\A r \in WorkRows : FinalizeAbandoned(r) => ~TokenWorks(rows[r])]_vars

\* A wind-down ends though its worker died, as long as the environment is polled.
WindDownEnds == \A r \in WorkRows : []<>(rows[r].state # "stopping")

==========================================================================
