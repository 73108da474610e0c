------------------------------ MODULE Dreams ------------------------------
(***************************************************************************)
(* Dreams (src/internal/api/dreams.go, dreamrunner.go, dreamstart.go): a   *)
(* background job that consolidates a memory store through the stages of a *)
(* pipeline session, driven by the ticks of every replica.                 *)
(*                                                                         *)
(* All dreams here are over one memory store and one set of input          *)
(* sessions.  A runner is one arm slot of a replica's tick: it locks a     *)
(* dream's row, reading the session's status without a lock, and takes one *)
(* step; a claimed start is rendered with no lock held and written in a    *)
(* transaction of its own.  What the pipeline session's turns come to is   *)
(* free.  updated_at and created_at are kept as two facts: whether a claim *)
(* is within its lease and whether the dream is past its timeout.          *)
(***************************************************************************)
EXTENDS Integers, FiniteSets

CONSTANTS
    Dreams, Runners,
    Placements,         \* whether a dream works in place: a subset of BOOLEAN
    StageCount,         \* dreamStageCount
    StartAttempts       \* dreamStartAttempts

VARIABLES
    dreams,             \* the rows of dreams, each with its pipeline session
    runners,            \* what each arm slot is doing
    inputs              \* the input store is live and the input sessions exist

dvars == <<dreams, runners, inputs>>

Terminal == {"completed", "failed", "canceled"}

NoSession == [status |-> "none", archived |-> FALSE, outcome |-> "none", over |-> FALSE]

\* finished is history: the stages whose turns ended well.
NoDream ==
    [status |-> "absent", inPlace |-> FALSE, stage |-> 0, attempts |-> 0, leased |-> FALSE, late |-> FALSE,
     archived |-> FALSE, closed |-> FALSE, files |-> FALSE, owed |-> FALSE, session |-> NoSession, finished |-> {}]

Idle == [phase |-> "idle", id |-> CHOOSE d \in Dreams : TRUE, saw |-> "none", attempt |-> 0]

DreamInit ==
    /\ dreams = [d \in Dreams |-> NoDream]
    /\ runners = [r \in Runners |-> Idle]
    /\ inputs = TRUE

\* An arm's transaction holds the dream's row; the API's transactions and
\* the start's wait for it.
Locked(d) == \E r \in Runners : runners[r].phase = "armed" /\ runners[r].id = d

---------------------------------------------------------------------------
(* The API.                                                                *)

\* The unique index on the target store of open dreams.
Held == \E d \in Dreams : dreams[d].status # "absent" /\ dreams[d].inPlace /\ ~dreams[d].closed

CheckDreamInputsExist == inputs

CreateDream(d, inPlace) ==
    /\ dreams[d].status = "absent"
    /\ CheckDreamInputsExist
    /\ inPlace => ~Held
    /\ dreams' = [dreams EXCEPT ![d].status = "pending", ![d].inPlace = inPlace]
    /\ UNCHANGED <<runners, inputs>>

DreamAction(d) == dreams[d].status # "absent" /\ ~Locked(d)

ArchiveDream(d) ==
    /\ DreamAction(d)
    /\ dreams[d].status \in Terminal
    /\ dreams' = [dreams EXCEPT ![d].archived = TRUE]
    /\ UNCHANGED <<runners, inputs>>

\* Every live thread's calls are answered, the threads idle and the queued
\* work is cancelled; an archived session has nothing to interrupt.
Interrupt(s) ==
    IF s.archived \/ s.status # "running" THEN s ELSE [s EXCEPT !.status = "idle", !.outcome = "interrupted"]

\* A pending dream closes with its cancel; a running one is left to the
\* runner's closing arm.
CancelDream(d) ==
    /\ DreamAction(d)
    /\ \/ /\ dreams[d].status = "pending"
          /\ dreams' = [dreams EXCEPT ![d].status = "canceled", ![d].closed = TRUE]
       \/ /\ dreams[d].status = "running"
          /\ dreams' = [dreams EXCEPT ![d].status = "canceled", ![d].session = Interrupt(@)]
    /\ UNCHANGED <<runners, inputs>>

---------------------------------------------------------------------------
(* The tick.                                                               *)

Candidate(d) ==
    /\ dreams[d].status # "absent" /\ ~dreams[d].closed
    /\ ~(dreams[d].status = "pending" /\ dreams[d].attempts > 0 /\ dreams[d].leased)

\* FOR UPDATE SKIP LOCKED; the session is read without a lock.
LockDream(r, d) ==
    /\ runners[r].phase = "idle"
    /\ Candidate(d) /\ ~Locked(d)
    /\ runners' = [runners EXCEPT ![r] = [phase |-> "armed", id |-> d,
                                          saw |-> dreams[d].session.status, attempt |-> 0]]
    /\ UNCHANGED <<dreams, inputs>>

Found(x) == x.session.status # "none"

\* The transcripts' rows go and their objects are written down as owed.
EnqueueDreamBlobs(x) == [x EXCEPT !.files = FALSE, !.owed = @ \/ x.files]

\* The terminal row; a dream with no session to wind down closes with it.
DreamSettle(x, status) ==
    IF Found(x) THEN [x EXCEPT !.status = status]
    ELSE [EnqueueDreamBlobs(x) EXCEPT !.status = status, !.closed = TRUE]

\* The session is interrupted unless the unlocked read says it is over.
DreamFail(x, saw) ==
    IF Found(x) /\ ~x.session.archived /\ saw # "terminated"
    THEN DreamSettle([x EXCEPT !.session = Interrupt(@)], "failed")
    ELSE DreamSettle(x, "failed")

\* A session that still runs, read again under its lock, is interrupted
\* again and the close waits; any other is archived.
DreamClosingArm(x) ==
    IF Found(x) /\ x.session.status = "running"
    THEN [x EXCEPT !.session = Interrupt(@)]
    ELSE [EnqueueDreamBlobs(x) EXCEPT !.session.archived = Found(x), !.closed = TRUE]

\* What posting a stage to the session comes to: refused for good when it
\* is archived or holds an unanswered call ("open", which no tool of the
\* pipeline leaves), refused for now when it moved since the unlocked read.
PostDreamStage(s) ==
    CASE s.archived \/ (s.status = "idle" /\ s.outcome = "open") -> "refused"
      [] ~s.archived /\ s.status # "idle" -> "later"
      [] OTHER -> "posted"

DreamAdvanceArm(x, saw) ==
    CASE PostDreamStage(x.session) = "later" -> x
      [] PostDreamStage(x.session) = "refused" -> DreamFail(x, saw)
      [] PostDreamStage(x.session) = "posted" ->
             [x EXCEPT !.stage = @ + 1,
                       !.session.status = "running", !.session.outcome = "none", !.session.over = FALSE]

\* The last stage's answer: a memory that holds a credential fails it.
DreamCompleteArm(x, saw, leaks) == IF leaks THEN DreamFail(x, saw) ELSE DreamSettle(x, "completed")

DreamTurnArms(x, saw, leaks) ==
    LET busy == saw \in {"running", "rescheduling"}
        asks == x.session.outcome = "asking"
    IN  CASE x.session.over -> DreamFail(x, saw)
          [] ~x.session.over /\ busy -> x
          [] ~x.session.over /\ ~busy /\ asks -> DreamFail(x, saw)
          [] ~x.session.over /\ ~busy /\ ~asks /\ x.stage < StageCount -> DreamAdvanceArm(x, saw)
          [] OTHER -> DreamCompleteArm(x, saw, leaks)

DreamUnavailable == ~inputs

\* The session ended, or its primary thread gave up since the stage opened.
StageFailed(x, saw) == saw = "terminated" \/ (saw = "idle" /\ x.session.outcome = "failed")

\* What one arm leaves of a dream that is not to be claimed.
DreamStep(x, saw, leaks) ==
    LET failing == x.late \/ DreamUnavailable \/ StageFailed(x, saw)
    IN  CASE x.status \in Terminal -> DreamClosingArm(x)
          [] x.status = "pending" -> DreamFail(x, saw)
          [] x.status = "running" /\ failing -> DreamFail(x, saw)
          [] x.status = "running" /\ ~failing -> DreamTurnArms(x, saw, leaks)

Claimable(x) == x.status = "pending" /\ ~x.late /\ x.attempts < StartAttempts

DreamArm(r) ==
    LET d == runners[r].id
        x == dreams[d]
    IN  /\ runners[r].phase = "armed" /\ ~Claimable(x)
        /\ \E leaks \in BOOLEAN : dreams' = [dreams EXCEPT ![d] = DreamStep(x, runners[r].saw, leaks)]
        /\ runners' = [runners EXCEPT ![r].phase = "idle", ![r].saw = "none"]
        /\ UNCHANGED inputs

\* The arm's transaction fails or the process dies: the row is as it was.
ArmLost(r) ==
    /\ runners[r].phase = "armed"
    /\ runners' = [runners EXCEPT ![r].phase = "idle", ![r].saw = "none"]
    /\ UNCHANGED <<dreams, inputs>>

\* The claim counts an attempt and starts a lease; the start follows it.
DreamClaim(r) ==
    LET d == runners[r].id
    IN  /\ runners[r].phase = "armed" /\ Claimable(dreams[d])
        /\ dreams' = [dreams EXCEPT ![d].attempts = @ + 1, ![d].leased = TRUE]
        /\ runners' = [runners EXCEPT ![r].phase = "starting", ![r].saw = "none", ![r].attempt = dreams[d].attempts + 1]
        /\ UNCHANGED inputs

---------------------------------------------------------------------------
(* The start.                                                              *)

\* The transcripts are put before any row names them.
RenderDreamInputs(r) ==
    /\ runners[r].phase = "starting"
    /\ runners' = [runners EXCEPT ![r].phase = "rendered"]
    /\ UNCHANGED <<dreams, inputs>>

CreateDreamSession == [NoSession EXCEPT !.status = "running"]

\* What the write refuses of a dream that is still pending.
DreamStartChecks(d) == IF inputs THEN {"pass", "refused"} ELSE {"refused"}

\* Wrong: writes the start of a dream whatever became of it meanwhile.
WriteDreamStartBlind(r) ==
    LET d == runners[r].id
    IN  /\ runners[r].phase = "rendered" /\ ~Locked(d)
        /\ dreams' = [dreams EXCEPT ![d].status = "running", ![d].stage = 1, ![d].files = TRUE,
                                    ![d].session = CreateDreamSession]
        /\ runners' = [runners EXCEPT ![r].phase = "idle", ![r].attempt = 0]
        /\ UNCHANGED inputs

\* One transaction: nothing for a dream no longer pending, a failed and
\* closed dream for inputs gone or too large, or the transcripts' rows, the
\* session and the first stage.  Objects no row names are discarded.
WriteDreamStart(r) ==
    LET d == runners[r].id
    IN  /\ runners[r].phase = "rendered" /\ ~Locked(d)
        /\ \/ dreams[d].status # "pending" /\ UNCHANGED dreams
           \/ dreams[d].status = "pending" /\ "pass" \in DreamStartChecks(d)
              /\ dreams' = [dreams EXCEPT ![d].status = "running", ![d].stage = 1, ![d].files = TRUE,
                                          ![d].session = CreateDreamSession]
           \/ dreams[d].status = "pending" /\ "refused" \in DreamStartChecks(d)
              /\ dreams' = [dreams EXCEPT ![d].status = "failed", ![d].closed = TRUE]
        /\ runners' = [runners EXCEPT ![r].phase = "idle", ![r].attempt = 0]
        /\ UNCHANGED inputs

\* The render or the write fails: the last attempt goes on to settle.
StartFails(r) ==
    /\ runners[r].phase \in {"starting", "rendered"}
    /\ runners' = [runners EXCEPT ![r].phase = IF runners[r].attempt >= StartAttempts THEN "settling" ELSE "idle",
                                  ![r].attempt = 0]
    /\ UNCHANGED <<dreams, inputs>>

SettleExhaustedDream(r) ==
    LET d == runners[r].id
    IN  /\ runners[r].phase = "settling" /\ ~Locked(d)
        /\ dreams' = IF dreams[d].status = "pending"
                     THEN [dreams EXCEPT ![d].status = "failed", ![d].closed = TRUE] ELSE dreams
        /\ runners' = [runners EXCEPT ![r].phase = "idle"]
        /\ UNCHANGED inputs

\* The process dies between the claim and the end of the start.
StartLost(r) ==
    /\ runners[r].phase \in {"starting", "rendered", "settling"}
    /\ runners' = [runners EXCEPT ![r].phase = "idle", ![r].attempt = 0]
    /\ UNCHANGED <<dreams, inputs>>

---------------------------------------------------------------------------
(* The pipeline session, the clock and the inputs.                         *)

\* The stage's turns go over their cap, end well, give up or ask.
SessionMoves(d) ==
    LET s == dreams[d].session
    IN  /\ s.status = "running"
        /\ \/ /\ ~s.over
              /\ dreams' = [dreams EXCEPT ![d].session.over = TRUE]
           \/ dreams' = [dreams EXCEPT ![d].session.status = "idle", ![d].session.outcome = "good",
                                       ![d].finished = @ \union {dreams[d].stage}]
           \/ \E end \in {"failed", "asking"} :
                 dreams' = [dreams EXCEPT ![d].session.status = "idle", ![d].session.outcome = end]
        /\ UNCHANGED <<runners, inputs>>

LeaseLapses(d) ==
    /\ dreams[d].leased /\ dreams[d].status = "pending"
    /\ dreams' = [dreams EXCEPT ![d].leased = FALSE]
    /\ UNCHANGED <<runners, inputs>>

TimesOut(d) ==
    /\ dreams[d].status \in {"pending", "running"} /\ ~dreams[d].late
    /\ dreams' = [dreams EXCEPT ![d].late = TRUE]
    /\ UNCHANGED <<runners, inputs>>

InputsGo ==
    /\ inputs
    /\ inputs' = FALSE
    /\ UNCHANGED <<dreams, runners>>

DreamNext ==
    \/ \E d \in Dreams : \/ \E inPlace \in Placements : CreateDream(d, inPlace)
                         \/ CancelDream(d)
                         \/ ArchiveDream(d)
                         \/ SessionMoves(d)
                         \/ LeaseLapses(d)
                         \/ TimesOut(d)
                         \/ \E r \in Runners : LockDream(r, d)
    \/ \E r \in Runners : \/ DreamArm(r)
                          \/ ArmLost(r)
                          \/ DreamClaim(r)
                          \/ RenderDreamInputs(r)
                          \/ WriteDreamStart(r)
                          \/ StartFails(r)
                          \/ SettleExhaustedDream(r)
                          \/ StartLost(r)
    \/ InputsGo

---------------------------------------------------------------------------
(* Properties                                                              *)

\* A dream that ended is over.  Closed, it has let go of its store: its
\* session, if it ever had one, is archived and no turn of it runs, and its
\* transcript rows are gone with their objects owed; the unique index
\* releases the store on closed_at, so no two sessions ever consolidate one
\* store in place (dreamClosingArm, dreamSettle, writeDreamStart).  Completed,
\* it ran every stage: each stage's turn ended well, none gave up and left
\* the session idle (dreamStep, dreamTurnArms).
EndedDreamsAreOver ==
    \A d \in Dreams :
        /\ dreams[d].closed =>
              /\ ~dreams[d].files
              /\ Found(dreams[d]) => /\ dreams[d].session.archived /\ dreams[d].session.status # "running"
                                     /\ dreams[d].owed
        /\ dreams[d].status = "completed" => dreams[d].finished = 1 .. StageCount

===========================================================================
