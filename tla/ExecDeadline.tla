---------------------------- MODULE ExecDeadline ----------------------------
(***************************************************************************)
(* One command of a sandbox and its deadline, for both container backends. *)
(* A wrapper in the container starts the command and a watchdog that marks *)
(* and kills it.  Exec, outside, waits for the command's output stream to  *)
(* close, asks at two instants whether the command is alive, and decides   *)
(* from these answers, the exit code, the watchdog's mark and (k8s) the    *)
(* wrapper's record whether the command timed out.                         *)
(*                                                                         *)
(* Time is discrete and counted from Exec's start.  Timers are prompt; an  *)
(* answer to a probe takes up to Latency.  A command may kill its watchdog *)
(* or (k8s) its wrapper, close its own output, and leave a child that      *)
(* holds the stream open.                                                  *)
(***************************************************************************)
EXTENDS Integers, FiniteSetsExt

CONSTANTS
    Deadline,       \* the request's timeout, rounded up to whole seconds
    ProbeLead, OverrunSlop, KillGrace,
    Latency,        \* the longest a probe's answer takes
    Horizon         \* the instant at which the clock stops

VARIABLES
    job,            \* the backend and whether the request has a timeout
    now,
    cmd,            \* the command: its state, birth, end and exit code, and whether its output is closed
    dog,            \* the watchdog and the instant it was launched
    mark,           \* the watchdog's mark, $3.killed
    record,         \* k8s: the wrapper's readings at its watchdog's launch and its reap
    stream,         \* the exec's output stream
    probe,          \* the two probes: their state and the instant they were asked
    exec,           \* Exec: its state and its result
    blind           \* history: a probe was answered for without a look

execVars == <<job, now, cmd, dog, mark, record, stream, probe, exec, blind>>

Sigkill == 137
Probes  == {"lead", "overrun"}
DueAt   == [p \in Probes |-> IF p = "lead" THEN Deadline - ProbeLead ELSE Deadline + OverrunSlop]
Timed   == job.timed
K8s     == job.backend = "k8s"
GiveUpAt == Deadline + KillGrace

ExecInit ==
    /\ job \in [backend : {"docker", "k8s"}, timed : BOOLEAN]
    /\ now = 0
    /\ cmd = [st |-> "unborn", born |-> 0, ended |-> 0, code |-> 0, muted |-> FALSE]
    /\ dog = [st |-> "none", at |-> 0]
    /\ mark = FALSE
    /\ record = [tw |-> 0, t1 |-> 0, st |-> "none"]
    /\ stream = "open"
    /\ probe = [p \in Probes |-> [st |-> "asleep", at |-> 0]]
    /\ exec = [st |-> "waiting", code |-> 0, timedOut |-> FALSE]
    /\ blind = FALSE

----------------------------------------------------------------------------
(* In the container. *)

\* docker: the wrapper starts the watchdog and becomes the command.
dockerWrapper ==
    /\ ~K8s /\ cmd.st = "unborn"
    /\ cmd' = [cmd EXCEPT !.st = "running", !.born = now]
    /\ dog' = IF Timed THEN [st |-> "counts", at |-> now] ELSE dog
    /\ UNCHANGED <<job, now, mark, record, stream, probe, exec, blind>>

\* k8s: the wrapper starts the command, and then, at its own pace, the watchdog.
k8sWrapper ==
    /\ K8s
    /\ \/ /\ cmd.st = "unborn"
          /\ cmd' = [cmd EXCEPT !.st = "running", !.born = now]
          /\ UNCHANGED <<dog, record>>
       \/ /\ cmd.st # "unborn" /\ record.st = "none"
          /\ record' = [record EXCEPT !.tw = now, !.st = "watching"]
          /\ dog' = IF Timed THEN [st |-> "counts", at |-> now] ELSE dog
          /\ UNCHANGED cmd
    /\ UNCHANGED <<job, now, mark, stream, probe, exec, blind>>

\* The wrapper reaps the command and writes its exit line.
exitLine ==
    /\ K8s /\ record.st = "watching" /\ cmd.st = "done"
    /\ record' = [record EXCEPT !.t1 = now, !.st = "written"]
    /\ UNCHANGED <<job, now, cmd, dog, mark, stream, probe, exec, blind>>

\* The command ends by itself, with any exit code.
commandEnds ==
    /\ cmd.st = "running"
    /\ \E code \in {0, Sigkill} : cmd' = [cmd EXCEPT !.st = "done", !.ended = now, !.code = code]
    /\ UNCHANGED <<job, now, dog, mark, record, stream, probe, exec, blind>>

\* The command kills its watchdog, or its wrapper.
commandKills ==
    /\ cmd.st = "running"
    /\ \/ dog.st = "counts" /\ dog' = [dog EXCEPT !.st = "gone"] /\ UNCHANGED record
       \/ K8s /\ record.st = "watching" /\ record' = [record EXCEPT !.st = "killed"] /\ UNCHANGED dog
    /\ UNCHANGED <<job, now, cmd, mark, stream, probe, exec, blind>>

\* k8s: the command closes its stdout and stderr.  The docker daemon holds the
\* stream open until the process exits, so there it changes nothing; nor does
\* it here while the wrapper lives, and when it was done is not told apart.
commandMutes ==
    /\ K8s /\ cmd.st = "running" /\ record.st = "killed" /\ ~cmd.muted
    /\ cmd' = [cmd EXCEPT !.muted = TRUE]
    /\ UNCHANGED <<job, now, dog, mark, record, stream, probe, exec, blind>>

\* The watchdog has counted the deadline's seconds and looks for the command;
\* it marks (mkdir may fail) and then kills what it saw.
watchdogLooks ==
    /\ dog.st = "counts" /\ (cmd.st = "done" \/ now >= dog.at + Deadline)
    /\ dog' = [dog EXCEPT !.st = IF cmd.st = "done" THEN "gone" ELSE "marks"]
    /\ UNCHANGED <<job, now, cmd, mark, record, stream, probe, exec, blind>>

watchdogMarks ==
    /\ dog.st = "marks"
    /\ dog' = [dog EXCEPT !.st = "kills"]
    /\ mark' \in BOOLEAN
    /\ UNCHANGED <<job, now, cmd, record, stream, probe, exec, blind>>

watchdogKills ==
    /\ dog.st = "kills"
    /\ dog' = [dog EXCEPT !.st = "gone"]
    /\ cmd' = IF cmd.st = "running"
                THEN [cmd EXCEPT !.st = "done", !.ended = now, !.code = Sigkill] ELSE cmd
    /\ UNCHANGED <<job, now, mark, record, stream, probe, exec, blind>>

\* The pid is there until it is reaped, by the wrapper or, if that is dead, by init.
Reaped == cmd.st = "done" /\ (K8s => record.st \in {"written", "killed"})

\* The stream closes once the command, the wrapper and every child that
\* inherited it are gone, or hold it no more: the k8s wrapper keeps its own
\* copy, so a muted command's stream closes early only when that is dead.
streamCloses ==
    /\ stream = "open" /\ (Reaped \/ (cmd.muted /\ record.st = "killed"))
    /\ stream' = "closed"
    /\ UNCHANGED <<job, now, cmd, dog, mark, record, probe, exec, blind>>

----------------------------------------------------------------------------
(* The probes.  A look finds the command alive or dead, fails, or is       *)
(* cancelled.                                                              *)

\* docker asks again when the daemon fails; a cancellation before the deadline
\* is a stream that closed early.
dockerAlive(look) == look \in {"alive", "failed"} \/ (look = "cancelled" /\ now >= Deadline)

k8sAlive(look) == look \in {"alive", "failed"}

dockerAliveOrTimedOut(look) == look # "dead"

k8sAliveOrTimedOut(look) == look # "dead"

Alive(p, look) ==
    IF p = "lead" THEN IF K8s THEN k8sAlive(look) ELSE dockerAlive(look)
    ELSE IF K8s THEN k8sAliveOrTimedOut(look) ELSE dockerAliveOrTimedOut(look)

\* sleepCtx ends when the stream has closed and when Exec gives up.
Probing == exec.st = "waiting"

sleepUntil(p) ==
    /\ Timed /\ probe[p].st = "asleep"
    /\ IF Probing THEN /\ now >= DueAt[p]
                       /\ probe' = [probe EXCEPT ![p] = [st |-> "asked", at |-> now]]
                  ELSE probe' = [probe EXCEPT ![p] = [st |-> "no", at |-> now]]
    /\ UNCHANGED <<job, now, cmd, dog, mark, record, stream, exec, blind>>

Answer(p, look) ==
    /\ probe' = [probe EXCEPT ![p].st = IF Alive(p, look) THEN "yes" ELSE "no"]
    /\ blind' = (blind \/ (look \in {"failed", "cancelled"} /\ Alive(p, look)))
    /\ UNCHANGED <<job, now, cmd, dog, mark, record, stream, exec>>

\* What the daemon says of the pid (docker), or kill -0 in the pod, where a pid
\* that is not recorded yet reads as alive (k8s).
Look == IF Reaped THEN "dead" ELSE "alive"

probeAlive(p) ==
    /\ probe[p].st = "asked"
    /\ \E look \in {Look, "failed"} : Answer(p, look)

\* Only the lead probe is cancelled by the stream; the other has until Exec's
\* own bound.
probeCancelled(p) ==
    /\ probe[p].st = "asked"
    /\ IF p = "lead" THEN ~Probing ELSE now >= GiveUpAt
    /\ Answer(p, "cancelled")

----------------------------------------------------------------------------
(* Exec. *)

\* It waits for the stream, no longer than the deadline and the grace.
wait ==
    /\ exec.st = "waiting"
    /\ \/ stream = "closed" /\ exec' = [exec EXCEPT !.st = "drained"]
       \/ Timed /\ now >= GiveUpAt /\ exec' = [exec EXCEPT !.st = "abandoned"]
    /\ UNCHANGED <<job, now, cmd, dog, mark, record, stream, probe, blind>>

Probed == Timed => \A p \in Probes : probe[p].st \in {"yes", "no"}
Verdict(p) == Timed /\ probe[p].st = "yes"

Return(code, timedOut) == exec' = [st |-> "returned", code |-> code, timedOut |-> timedOut]

\* The stream is not waited for any more and the command was seen past its deadline.
callTimeout ==
    /\ exec.st = "abandoned" /\ Probed /\ Verdict("overrun")
    /\ Return(Sigkill, TRUE)
    /\ UNCHANGED <<job, now, cmd, dog, mark, record, stream, probe, blind>>

\* Mutant: whatever was SIGKILLed is a timeout.
EverySigkill(code, fired) == Timed /\ (code = Sigkill \/ Verdict("overrun"))

dockerClassify(code, fired) ==
    Timed /\ ((code = Sigkill /\ (fired \/ Verdict("lead"))) \/ Verdict("overrun"))

\* The daemon's exit code; the mark is asked for only when it decides, and may
\* not be readable.
dockerCollect ==
    /\ ~K8s /\ exec.st \in {"drained", "abandoned"} /\ Probed
    /\ exec.st = "abandoned" => ~Verdict("overrun")
    /\ cmd.st = "done"
    /\ \E fired \in {mark /\ cmd.code = Sigkill, FALSE} :
         Return(cmd.code, dockerClassify(cmd.code, fired))
    /\ UNCHANGED <<job, now, cmd, dog, mark, record, stream, probe, blind>>

k8sClassify(code, fired, sinceLaunch, sinceWatchdog) ==
    /\ Timed
    /\ \/ code = Sigkill
          /\ (fired \/ Verdict("lead") \/ sinceWatchdog > Deadline - ProbeLead)
       \/ Verdict("overrun") \/ sinceLaunch > Deadline + OverrunSlop

\* The exit line is read through one more exec, which may lose the end of its
\* answer: the readings, the code too, or everything.
k8sCollect ==
    /\ K8s /\ exec.st \in {"drained", "abandoned"} /\ Probed
    /\ exec.st = "abandoned" => ~Verdict("overrun")
    /\ \E kept \in 0..3 :
         LET line == IF record.st = "written" THEN kept ELSE Min({kept, 1})
             code == IF line >= 2 THEN cmd.code ELSE Sigkill
             run  == IF line = 3 THEN record.t1 - cmd.born ELSE 0
             kill == IF line = 3 THEN record.t1 - record.tw ELSE 0
         IN  Return(code, k8sClassify(code, mark /\ line >= 1, run, kill))
    /\ UNCHANGED <<job, now, cmd, dog, mark, record, stream, probe, blind>>

\* The caller's context, the stream or the reading of the code fails.
execFails ==
    /\ exec.st \in {"waiting", "drained", "abandoned"}
    /\ exec' = [exec EXCEPT !.st = "failed"]
    /\ UNCHANGED <<job, now, cmd, dog, mark, record, stream, probe, blind>>

----------------------------------------------------------------------------
\* Time passes when no timer is due, nobody who is prompt has a step to take,
\* and no answer is late.
tick ==
    /\ now < Horizon
    /\ exec.st \in {"waiting", "drained", "abandoned"} /\ ~(exec.st # "waiting" /\ Probed)
    /\ exec.st = "waiting" => stream = "open" /\ (Timed => now < GiveUpAt)
    /\ Timed => \A p \in Probes :
         /\ probe[p].st = "asleep" => Probing /\ now < DueAt[p]
         /\ probe[p].st = "asked" => now < probe[p].at + Latency
    /\ ~(record.st = "watching" /\ cmd.st = "done")
    /\ now' = now + 1
    /\ UNCHANGED <<job, cmd, dog, mark, record, stream, probe, exec, blind>>

ExecNext ==
    /\ exec.st \in {"waiting", "drained", "abandoned"}
    /\ \/ dockerWrapper \/ k8sWrapper \/ exitLine \/ commandEnds \/ commandKills \/ commandMutes
       \/ watchdogLooks \/ watchdogMarks \/ watchdogKills \/ streamCloses
       \/ \E p \in Probes : sleepUntil(p) \/ probeAlive(p) \/ probeCancelled(p)
       \/ wait \/ callTimeout \/ dockerCollect \/ k8sCollect \/ execFails \/ tick

ExecSpec == ExecInit /\ [][ExecNext]_execVars

----------------------------------------------------------------------------
Returned == exec.st = "returned"
ReapedAt == IF K8s /\ record.st = "written" THEN record.t1 ELSE cmd.ended

(* k8s: the stream may end under a command that runs on, which stops the   *)
(* probes, and the wrapper that would have recorded the run is dead.       *)
HidesItsRun == K8s /\ cmd.muted /\ record.st = "killed"

(* A command that is still running when Exec returns, or that ran past its *)
(* deadline, the slop and a probe's latency, is reported as timed out,     *)
(* whatever it exited with and whoever it killed, unless (k8s) it has both *)
(* closed its output and killed its wrapper.                               *)
OverrunIsReported ==
    Returned /\ Timed /\ ~HidesItsRun /\ (cmd.st # "done" \/ cmd.ended > Deadline + OverrunSlop + Latency)
        => exec.timedOut

(* A command is reported as timed out only if it was not reaped before the *)
(* deadline less the lead, or a probe got no answer: one that is SIGKILLed *)
(* early by its own hand is not, and one without a timeout never is.       *)
EarlyKillIsNoTimeout ==
    Returned /\ exec.timedOut => Timed /\ (blind \/ ~Reaped \/ ReapedAt >= Deadline - ProbeLead)

\* A command's end is told as it was, by either reading of the clock: every
\* overrun is a timeout and no early kill is one (execDeadline, classify).
DeadlineIsTold == OverrunIsReported /\ EarlyKillIsNoTimeout
=============================================================================
