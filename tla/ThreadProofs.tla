-------------------------- MODULE ThreadProofs --------------------------
(***************************************************************************)
(* A session's threads match its calls for every number of threads,        *)
(* brains, drivers and calls and whatever the models reply: no thread      *)
(* rests over an open call or waits for none, none runs that nothing will  *)
(* serve, and no coordinator waits for children that are done.             *)
(***************************************************************************)
EXTENDS AnswerProofs, TurnProofs

\* A new session has the invariant.
LEMMA InitThreads == ASSUME Init, SessionInv PROVE ThreadInv
<1>1. PICK env \in EnvKinds :
       db = [env |-> env,
             th |-> [t \in Threads |-> IF t = Primary THEN IdleOn("none", {})
                                       ELSE [status |-> "absent", stop |-> "none", ids |-> {}]],
             sess |-> "idle", unread |-> [t \in Threads |-> {}],
             item |-> [s \in Slots |-> "none"], chain |-> [t \in Threads |-> 0],
             own |-> [s \in Slots |-> Null], spent |-> 0,
             archived |-> FALSE, parked |-> FALSE, halted |-> FALSE]
  BY DEF Init
<1>2. log = <<>> /\ job = [w \in Workers |-> Off]
  BY DEF Init
<1>3. db \in Db
  <2> DEFINE th == [t \in Threads |-> IF t = Primary THEN IdleOn("none", {})
                                      ELSE [status |-> "absent", stop |-> "none", ids |-> {}]]
  <2>1. th \in [Threads -> St]
    BY DEF IdleOn, St
  <2>2. [t \in Threads |-> {}] \in [Threads -> SUBSET {"user", "result", "peer"}]
    OBVIOUS
  <2>3. [s \in Slots |-> "none"] \in [Slots -> {"none", "queued", "active"}] /\ [t \in Threads |-> 0] \in [Threads -> Nat]
    OBVIOUS
  <2>4. [s \in Slots |-> Null] \in [Slots -> Workers \cup {Null}]
    OBVIOUS
  <2> HIDE DEF th
  <2>5. env \in {"cloud", "self_hosted"}
    BY SessionAssumption
  <2>6. 0 \in Nat
    OBVIOUS
  <2> QED BY <1>1, <2>1, <2>2, <2>3, <2>4, <2>5, <2>6, Zenon DEF Db, th
<1>4. /\ \A t \in Threads : db.th[t].status = (IF t = Primary THEN "idle" ELSE "absent") /\ db.th[t].stop = "none"
      /\ \A s \in Slots : db.item[s] = "none" /\ db.own[s] = Null
      /\ db.sess = "idle" /\ ~db.archived /\ ~db.parked
  BY <1>1 DEF IdleOn
<1>5. \A t \in Threads : ~Flow(log, t).unsettled
  <2>1. \A t \in Threads : Unsettled(log, t) = {}
    BY <1>2 DEF Unsettled
  <2> QED BY <2>1, FlowOfQuiet
<1>6. \A t \in Threads : t \in Slots
  BY DEF Slots
<1>7. Rows(db, db, log, {})
  <2>1. \A t \in Threads : Fits(db.th[t], db.item[t], Flow(log, t)) /\ Held(db, db, t)
    BY <1>4, <1>5, <1>6 DEF Fits, Held
  <2>2. db.sess = Fold(db.th)
    BY <1>4 DEF Fold
  <2> QED BY <1>3, <1>4, <2>1, <2>2 DEF Rows
<1>8. Waited(db) /\ Ordered(log)
  BY <1>2, <1>4 DEF Waited, Ordered
<1>9. \A w \in Workers : PlanFits(w) /\ AtWork(w) /\ job[w].slot \notin Threads
  BY <1>2, SessionAssumption DEF PlanFits, AtWork, Holds, Off, Slots
<1> QED BY <1>7, <1>8, <1>9 DEF ThreadInv, Workers

\* What a client, or its fleet, does keeps the invariant.
LEMMA ClientThreads ==
    ASSUME ThreadInv, SessionInv',
           \/ SendMessage \/ SendAnswers \/ InterruptAll \/ ArchiveSession \/ FleetStops
           \/ \E t \in Threads : InterruptThread(t) \/ ArchiveThread(t)
    PROVE  ThreadInv'
<1>1. job' = job
  BY Zenon DEF SendMessage, SendAnswers, InterruptAll, ArchiveSession, FleetStops, InterruptThread, ArchiveThread
<1>2. Sound(log', db')
  BY MessageSound, AnswersSound, InterruptAllSound, ArchiveSessionSound, FleetSound,
     InterruptThreadSound, ArchiveThreadSound
<1> QED BY <1>1, <1>2, OthersKeep

\* So do claims, lapsed leases and items given back.
LEMMA QueueThreads ==
    ASSUME ThreadInv, SessionInv',
           \/ \E s \in Slots : Lapse(s) \/ \E w \in Workers : Claim(w, s)
           \/ \E w \in Workers : Abort(w)
    PROVE  ThreadInv'
<1>1. ASSUME NEW s \in Slots, Lapse(s) PROVE ThreadInv'
  <2>1. job' = job
    BY <1>1 DEF Lapse
  <2> QED BY <1>1, <2>1, LapseSound, OthersKeep
<1>2. ASSUME NEW w \in Workers, Abort(w) PROVE ThreadInv'
  <2>1. Done(w)
    BY <1>2 DEF Abort, Done
  <2> QED BY <1>2, <2>1, AbortSound, DoneKeeps
<1> QED BY <1>1, <1>2, ClaimKeeps

\* So does every step of a brain.
LEMMA BrainThreads == ASSUME ThreadInv, SessionInv', NEW b \in Brains, BrainStep(b) PROVE ThreadInv'
<1>1. b \in Workers
  BY DEF Workers
<1>2. CASE RefuseTurn(b) \/ FinishTurn(b) \/ FailTurn(b) \/ FailUnrouted(b) \/ ReleaseTurn(b)
  BY <1>1, <1>2, EndingsSound, DoneKeeps
<1>3. CASE CommitTurn(b)
  BY <1>1, <1>3, CommitSound, DoneKeeps
<1> QED BY <1>2, <1>3, AdmitKeeps, ClearKeeps, StartKeeps DEF BrainStep

\* So does every step of a driver.
LEMMA DriverThreads == ASSUME ThreadInv, SessionInv', NEW w \in Drivers, DriverStep(w) PROVE ThreadInv'
<1>1. w \in Workers
  BY DEF Workers
<1>2. CASE SettleRun(w)
  BY <1>1, <1>2, PassSound, DoneKeeps
<1>3. CASE FinishHarvest(w)
  BY <1>1, <1>3, HarvestSound, DoneKeeps
<1> QED BY <1>2, <1>3, AdmitRunKeeps, ScanKeeps DEF DriverStep

\* The invariant the properties below rest on: the thread rows and turns match
\* the calls of the log between any two transactions.
THEOREM ThreadInvariant == Spec => []ThreadInv
<1>1. Init /\ SessionInv => ThreadInv
  BY InitThreads
<1>2. ThreadInv /\ SessionInv' /\ [Next]_vars => ThreadInv'
  <2>1. ThreadInv /\ UNCHANGED vars => ThreadInv'
    BY DEF vars, ThreadInv, SessionInv, Rows, Waited, Ordered, PlanFits, AtWork, Holds, Fits, Held, Asleep, Live, Busy
  <2> QED BY <2>1, ClientThreads, QueueThreads, BrainThreads, DriverThreads DEF Next
<1> QED BY <1>1, <1>2, SessionInvariant, PTL DEF Spec

\* A thread's state is its calls' state, whoever answers, interrupts, archives,
\* delegates or commits: requires_action names the calls that wait for the
\* client, no turn runs over an open call, and calls settle in the model's order.
THEOREM ThreadsAlwaysMatchCalls == Spec => []ThreadsMatchCalls
<1>1. ThreadInv => ThreadsMatchCalls
  <2> SUFFICES ASSUME ThreadInv PROVE ThreadsMatchCalls
    OBVIOUS
  <2>1. \A t \in Threads : Fits(db.th[t], db.item[t], Flow(log, t))
    BY DEF ThreadInv, Rows
  <2>2. RestMatchesCalls
    BY <2>1 DEF RestMatchesCalls, Fits
  <2>3. NoTurnOverOpenCall
    BY <2>1, FlowOfQuiet DEF NoTurnOverOpenCall, Fits
  <2>4. SettledInOrder
    BY DEF ThreadInv, Ordered, SettledInOrder
  <2> QED BY <2>2, <2>3, <2>4 DEF ThreadsMatchCalls
<1> QED BY <1>1, ThreadInvariant, PTL

\* A running thread has a live turn or a call an executor can run, for every
\* number of threads: SettleTransition and every end of a turn move it to idle
\* when nothing is left that would go on with it.
THEOREM RunningAlwaysWorked == Spec => []RunningIsWorked
<1>1. ThreadInv => RunningIsWorked
  BY DEF ThreadInv, Rows, Fits, RunningIsWorked
<1> QED BY <1>1, ThreadInvariant, PTL

\* A coordinator parked in wait_for_agents has a busy child while its session
\* lives, for every number of children: whatever ends the last busy one (a report,
\* an error, an interrupt, an archive) wakes the coordinator in that transaction.
THEOREM CoordinatorNeverWedged == Spec => []CoordinatorNotWedged
<1>1. ThreadInv => CoordinatorNotWedged
  BY DEF ThreadInv, Waited, CoordinatorNotWedged
<1> QED BY <1>1, ThreadInvariant, PTL
===============================================================================
