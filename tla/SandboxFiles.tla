---------------------------- MODULE SandboxFiles ----------------------------
(***************************************************************************)
(* Writing files into a sandbox (sandbox/docker, sandbox/k8s,              *)
(* sandbox/bulkwrite.go).  A write lands its bytes under temporary names   *)
(* beside the targets and renames them into place.  The docker daemon      *)
(* lands them as root from outside; the k8s backend pipes them to a script *)
(* in the pod.  The renames are a script in the sandbox, which runs on     *)
(* when its answer is lost; the agent's own commands run beside it.  A     *)
(* reader may read the first target meanwhile.                             *)
(***************************************************************************)
EXTENDS Integers, FiniteSets

CONSTANTS
    MaxMember,   \* members of a batch, 1 .. MaxMember
    MaxMeddles   \* bound on what the agent's commands do to the batch's files

VARIABLES
    write,    \* the call: backend, op, and whether the new bytes pass the reader's limit
    dir,      \* the targets' directory: "missing", "mine" (the sandbox user's), "roots", "blocked"
    target,   \* what each target holds
    temp,     \* what each member's temporary holds
    list,     \* the batch's manifest and directory list
    script,   \* the script that names the members, in the sandbox
    step,     \* where the call stands
    outcome,  \* what the call returned
    landed,   \* members whose rename replaced the target
    broken,   \* what failed besides the write: "exec", "daemon", "answer", "list"
    meddles,
    reader    \* the read of target 1

sfVars == <<write, dir, target, temp, list, script, step, outcome, landed, broken, meddles, reader>>

Members == 1 .. MaxMember
Ops == {"WriteFile", "WriteFileStream", "WriteFiles"}
Batch == IF write.op = "WriteFiles" THEN Members ELSE {1}

Idle == [st |-> "none", i |-> 1, code |-> 0, heard |-> FALSE, left |-> {}, lost |-> FALSE]
NoRead == [st |-> "start", got |-> "none"]
NoTemp == [m \in Members |-> "absent"]

FilesInit ==
    /\ write \in [backend : {"docker", "k8s"}, op : Ops, big : BOOLEAN]
    /\ dir \in {"missing", "mine", "roots", "blocked"}
    /\ target \in [Members -> {"absent", "old", "dir", "device"}]
    /\ dir \in {"missing", "blocked"} => \A m \in Members : target[m] = "absent"
    /\ \A m \in Members \ Batch : target[m] = "absent"
    /\ temp = NoTemp /\ list = "absent" /\ script = Idle /\ outcome = "none"
    /\ step = CASE write.backend = "k8s" -> "script"
                [] write.op = "WriteFile" -> "put"
                [] write.op = "WriteFileStream" -> "mkdir"
                [] OTHER -> "book"
    /\ landed = {} /\ broken = {} /\ meddles = 0 /\ reader = NoRead

----------------------------------------------------------------------------
(* The sandbox's filesystem, as the sandbox user and as the daemon see it. *)

\* rm -f by the sandbox user, who cannot unlink from a directory of root's.
Removed(S) == [m \in Members |-> IF m \in S /\ dir = "mine" THEN "absent" ELSE temp[m]]

There == {m \in Batch : temp[m] # "absent"}

\* What an extraction leaves: all of it, or a prefix of the members and a
\* piece of the next one.
Whole == [m \in Members |-> IF m \in Batch THEN "new" ELSE temp[m]]
Cut   == {[m \in Members |-> CASE m \notin Batch \/ m > k -> temp[m]
                               [] m < k -> "new"
                               [] OTHER -> piece] : k \in Batch, piece \in {"part", "absent"}}

\* The daemon empties each of the names in S (Emptying, reclaim).
Emptied(S) == [m \in Members |-> IF m \in S THEN "empty" ELSE temp[m]]

\* mkdir -p as the sandbox user.
mkdirAll ==
    \/ dir = "missing" /\ dir' = "mine"
    \/ dir \in {"mine", "roots"} /\ dir' = dir

----------------------------------------------------------------------------
(* The docker backend. *)

Docker(s) == write.backend = "docker" /\ step = s

Fail(how) == outcome' = how /\ step' = "done"

\* The archive endpoint takes the temporaries, or refuses, or the transfer dies.
put ==
    /\ Docker("put") \/ Docker("put2")
    /\ \/ dir \in {"mine", "roots"} /\ temp' = Whole /\ step' = "rename"
       \/ /\ \/ temp' = temp
             \/ dir \in {"mine", "roots"} /\ temp' \in Cut
          /\ step' = IF step = "put" /\ write.op = "WriteFile" THEN "mkdir" ELSE "discard"
    /\ UNCHANGED <<write, dir, target, list, script, outcome, landed, broken, meddles, reader>>

\* WriteFile makes the directory after a refusal, WriteFileStream before it sends.
mkdir ==
    /\ Docker("mkdir")
    /\ \/ mkdirAll /\ step' = "put2" /\ UNCHANGED outcome
       \/ /\ UNCHANGED dir
          /\ IF write.op = "WriteFile" THEN step' = "discard" /\ UNCHANGED outcome
             ELSE Fail("undelivered")
    /\ UNCHANGED <<write, target, temp, list, script, landed, broken, meddles, reader>>

\* rm -f by exec, on a budget of its own.  next is where the call goes then.
discardTo(next) ==
    /\ \/ temp' = Removed(Batch) /\ UNCHANGED broken
       \/ broken' = broken \cup {"exec"} /\ UNCHANGED temp
    /\ step' = next

\* What __map_bulk_discard removes, and what __map_bulk_left then names.
Shed(l) == IF l = "there" THEN Removed(Batch) ELSE temp
LeftBehind(t) == {m \in Batch : t[m] # "absent"}

\* The batch's discard: without its list there is nothing it can name.
discardBulk(next) ==
    /\ \/ temp' = Shed(list) /\ list' = "absent" /\ UNCHANGED broken
       \/ broken' = broken \cup {"exec"} /\ UNCHANGED <<temp, list>>
    /\ step' = next

\* After a failed put nothing moves the temporary, and the daemon may empty it.
discard ==
    /\ Docker("discard")
    /\ discardTo("reclaim")
    /\ UNCHANGED <<write, dir, target, list, script, outcome, landed, meddles, reader>>

reclaim ==
    /\ Docker("reclaim")
    /\ \/ temp' = Emptied(There) /\ UNCHANGED broken
       \/ There # {} /\ broken' = broken \cup {"daemon"} /\ UNCHANGED temp
    /\ Fail(IF script.code # 0 THEN "unrenamed" ELSE "undelivered")
    /\ UNCHANGED <<write, dir, target, list, script, landed, meddles, reader>>

\* The exec that renames: refused before it ran (a command too long, or any
\* other error), or started.
rename ==
    /\ Docker("rename")
    /\ \/ /\ script' = [Idle EXCEPT !.st = IF write.op = "WriteFiles" THEN "list" ELSE "check",
                                    !.heard = TRUE]
          /\ step' = "wait" /\ UNCHANGED broken
       \/ write.op # "WriteFiles" /\ step' = "discard" /\ UNCHANGED <<script, broken>>
       \/ step' = "unanswered" /\ broken' = broken \cup {"answer"} /\ UNCHANGED script
    /\ UNCHANGED <<write, dir, target, temp, list, outcome, landed, meddles, reader>>

\* An error does not say the script never ran: remove, never empty.
ReclaimUnanswered ==
    /\ Docker("unanswered")
    /\ temp' = Emptied(There) /\ step' = "unanswered2"
    /\ UNCHANGED <<write, dir, target, list, script, outcome, landed, broken, meddles, reader>>
renameUnanswered ==
    /\ Docker("unanswered")
    /\ IF write.op = "WriteFiles" THEN discardBulk("unanswered2") ELSE discardTo("unanswered2") /\ UNCHANGED list
    /\ UNCHANGED <<write, dir, target, script, outcome, landed, meddles, reader>>
returnUnanswered ==
    /\ Docker("unanswered2")
    /\ Fail("unrenamed")
    /\ UNCHANGED <<write, dir, target, temp, list, script, landed, broken, meddles, reader>>

\* The script's status arrived, so nothing of it still moves.
renameAnswered ==
    /\ Docker("wait") /\ write.op # "WriteFiles" /\ script.st = "over"
    /\ script' = [script EXCEPT !.st = "none"]
    /\ IF script.code = 0 THEN Fail("ok") ELSE step' = "reclaim" /\ UNCHANGED outcome
    /\ UNCHANGED <<write, dir, target, temp, list, landed, broken, meddles, reader>>

----------------------------------------------------------------------------
(* The docker backend's batch. *)

\* The manifest and the directory list go to the workdir.
putBookkeeping ==
    /\ Docker("book")
    /\ \/ list' = "there" /\ step' = "prepare"
       \/ list' \in {"absent", "there"} /\ step' = "shed"
    /\ UNCHANGED <<write, dir, target, temp, script, outcome, landed, broken, meddles, reader>>

\* The directories are made inside the sandbox, from the list.
prepareBulk ==
    /\ Docker("prepare")
    /\ \/ list = "absent" /\ UNCHANGED dir /\ step' = "members"
       \/ list = "there" /\ mkdirAll /\ step' = "members"
       \/ UNCHANGED dir /\ step' = "shed"
    /\ UNCHANGED <<write, target, temp, list, script, outcome, landed, broken, meddles, reader>>

\* Without the prepared directory the daemon would make it, as root's.
putMembers ==
    /\ Docker("members")
    /\ \/ /\ dir # "blocked" /\ dir' = IF dir = "missing" THEN "roots" ELSE dir
          /\ \/ temp' = Whole /\ step' = "rename"
             \/ temp' \in Cut /\ step' = "shed"
       \/ step' = "shed" /\ UNCHANGED <<dir, temp>>
    /\ UNCHANGED <<write, target, list, script, outcome, landed, broken, meddles, reader>>

\* discardBulk, then reclaimBulk of what its report names.
shedBulk ==
    /\ Docker("shed")
    /\ \/ LET left == IF list = "there" THEN LeftBehind(Shed(list)) ELSE {} IN
            /\ list' = "absent"
            /\ \/ temp' = [m \in Members |-> IF m \in left THEN "empty" ELSE Shed(list)[m]]
                  /\ UNCHANGED broken
               \/ left # {} /\ temp' = Shed(list) /\ broken' = broken \cup {"daemon"}
       \/ broken' = broken \cup {"exec"} /\ UNCHANGED <<temp, list>>
    /\ Fail("undelivered")
    /\ UNCHANGED <<write, dir, target, script, landed, meddles, reader>>

reclaimBulk ==
    /\ Docker("wait") /\ write.op = "WriteFiles" /\ script.st = "over"
    /\ LET paths == IF script.lost THEN Batch ELSE script.left IN
         \/ temp' = Emptied(paths) /\ UNCHANGED broken
         \/ paths # {} /\ broken' = broken \cup {"daemon"} /\ UNCHANGED temp
    /\ script' = [script EXCEPT !.st = "none"]
    /\ Fail(IF script.code = 0 THEN "ok" ELSE "unrenamed")
    /\ UNCHANGED <<write, dir, target, list, landed, meddles, reader>>

----------------------------------------------------------------------------
(* The scripts in the sandbox. *)

Script(s) == script.st = s

Over(code) == script' = [script EXCEPT !.st = "over", !.code = code]

\* The script ends its run: a batch removes its lists and names what is left.
EndBatch(code, t) ==
    /\ list' = "absent"
    /\ script' = [script EXCEPT !.st = "over", !.code = code, !.left = LeftBehind(t)]

\* __map_bulk_rename reads the manifest; a member that is missing stops it.
readManifest ==
    /\ Script("list")
    /\ IF list = "there" /\ There = Batch
       THEN script' = [script EXCEPT !.st = "check"] /\ UNCHANGED <<temp, list>>
       ELSE /\ temp' = Shed(list)
            /\ list' = "absent"
            /\ script' = [script EXCEPT !.st = "over", !.code = 17,
                                        !.left = IF list = "there" THEN LeftBehind(Shed(list)) ELSE {},
                                        !.lost = list = "absent"]
    /\ UNCHANGED <<write, dir, target, step, outcome, landed, broken, meddles, reader>>

Last == script.i = MaxMember \/ write.op # "WriteFiles"

\* On to the next member; the first failure's code stays.
Onward(code, t) ==
    IF ~Last THEN script' = [script EXCEPT !.st = "check", !.i = @ + 1, !.code = code] /\ UNCHANGED list
    ELSE IF write.op = "WriteFiles" THEN EndBatch(code, t)
    ELSE Over(code) /\ UNCHANGED list

\* A member after a failure is removed; a directory, and for one write a
\* device, is refused.
checkTarget ==
    /\ Script("check")
    /\ LET i == script.i
           code == CASE script.code # 0 -> script.code
                     [] target[i] = "dir" -> 16
                     [] target[i] = "device" /\ write.op # "WriteFiles" -> 19
                     [] OTHER -> 0
       IN IF code = 0 THEN script' = [script EXCEPT !.st = "move"] /\ UNCHANGED <<temp, list>>
          ELSE temp' = Removed({i}) /\ Onward(code, Removed({i}))
    /\ UNCHANGED <<write, dir, target, step, outcome, landed, broken, meddles, reader>>

\* mv -f: into a directory made meanwhile, or onto the target.
move ==
    /\ Script("move")
    /\ LET i == script.i IN
         \/ /\ temp[i] # "absent" /\ dir = "mine"
            /\ temp' = [temp EXCEPT ![i] = "absent"]
            /\ IF target[i] = "dir" THEN UNCHANGED <<target, landed>>
               ELSE target' = [target EXCEPT ![i] = temp[i]] /\ landed' = landed \cup {i}
            /\ script' = [script EXCEPT !.st = "recheck"] /\ UNCHANGED list
         \/ /\ temp' = Removed({i}) /\ Onward(1, Removed({i}))
            /\ UNCHANGED <<target, landed>>
    /\ UNCHANGED <<write, dir, step, outcome, broken, meddles, reader>>

\* Asked again: a file moved into a directory is taken out and refused.
recheckTarget ==
    /\ Script("recheck")
    /\ Onward(IF target[script.i] = "dir" THEN 16 ELSE 0, temp)
    /\ UNCHANGED <<write, dir, target, temp, step, outcome, landed, broken, meddles, reader>>

----------------------------------------------------------------------------
(* The k8s backend. *)

K8s(s) == write.backend = "k8s" /\ step = s

\* The exec starts one of the scripts.  A batch's comes back here once, after
\* its directories were made.
k8sStart ==
    /\ K8s("script") \/ K8s("again")
    /\ script' = [Idle EXCEPT !.st = IF write.op = "WriteFiles" THEN "untar" ELSE "create", !.heard = TRUE]
    /\ step' = IF step = "again" THEN "wait2" ELSE "wait"
    /\ UNCHANGED <<write, dir, target, temp, list, outcome, landed, broken, meddles, reader>>

\* writeScript: the directory, the refusals, then the temporary, empty.
createTemp ==
    /\ Script("create")
    /\ \/ mkdirAll /\ LET code == CASE target[1] = "dir" -> 16 [] target[1] = "device" -> 19
                                    [] dir' = "roots" -> 20 [] OTHER -> 0
                      IN IF code # 0 THEN Over(code) /\ UNCHANGED temp
                         ELSE /\ temp' = [temp EXCEPT ![1] = "empty"]
                              /\ script' = [script EXCEPT !.st = "stream"]
       \/ UNCHANGED <<dir, temp>> /\ Over(IF dir = "blocked" THEN 15 ELSE 20)
    /\ UNCHANGED <<write, target, list, step, outcome, landed, broken, meddles, reader>>

\* tee counts what arrives: the length decides whether the stream was whole.
teeStream ==
    /\ Script("stream")
    /\ \/ temp' = [temp EXCEPT ![1] = "new"] /\ script' = [script EXCEPT !.st = "check"]
       \/ temp' = [temp EXCEPT ![1] = "absent"] /\ \E code \in {1, 14} : Over(code)
    /\ UNCHANGED <<write, dir, target, list, step, outcome, landed, broken, meddles, reader>>

\* tar in the pod: the bookkeeping comes first.  A stream that ends between two
\* members is no error to tar; one that ends inside a member, and a directory
\* that cannot take it, is.
untar ==
    /\ Script("untar")
    /\ \/ /\ mkdirAll /\ dir' # "roots"
          /\ \/ temp' = Whole \/ temp' \in {c \in Cut : \A m \in Members : c[m] # "part"}
          /\ list' = "there" /\ script' = [script EXCEPT !.st = "list"]
       \/ /\ UNCHANGED dir
          /\ list' \in {list, "there"} /\ temp' \in {temp} \cup (IF dir = "mine" THEN Cut ELSE {})
          /\ temp' # temp => list' = "there"
          /\ Over(18)
    /\ UNCHANGED <<write, target, step, outcome, landed, broken, meddles, reader>>

\* The script's status arrived.
k8sAnswered ==
    /\ K8s("wait") \/ K8s("wait2")
    /\ Script("over")
    /\ script' = [script EXCEPT !.st = "none"]
    /\ IF script.code = 18
       THEN /\ step' = IF step = "wait" THEN "k8sPrepare" ELSE "k8sDiscard"
            /\ UNCHANGED outcome
       ELSE Fail(IF script.code = 0 THEN "ok" ELSE "unrenamed")
    /\ UNCHANGED <<write, dir, target, temp, list, landed, broken, meddles, reader>>

\* Make the directories, which also classifies a blocked path, and deliver again.
k8sPrepare ==
    /\ K8s("k8sPrepare")
    /\ \/ /\ IF list = "there" THEN mkdirAll ELSE UNCHANGED dir
          /\ step' = "again"
       \/ UNCHANGED dir /\ step' = "k8sDiscard"
    /\ UNCHANGED <<write, target, temp, list, script, outcome, landed, broken, meddles, reader>>

\* The shed is the sandbox user's rm, safe beside a script that still runs.
k8sDiscard ==
    /\ K8s("k8sDiscard")
    /\ \/ temp' = Shed(list) /\ list' = "absent" /\ UNCHANGED broken
       \/ broken' = broken \cup {"exec"} /\ UNCHANGED <<temp, list>>
    /\ Fail("undelivered")
    /\ UNCHANGED <<write, dir, target, script, landed, meddles, reader>>

----------------------------------------------------------------------------
(* What the code does not decide. *)

\* The caller, its connection or an image's startup loses a script's answer;
\* the script runs on.
loseAnswer ==
    /\ step \in {"wait", "wait2"} /\ script.heard
    /\ script' = [script EXCEPT !.heard = FALSE]
    /\ broken' = broken \cup {"answer"}
    /\ \/ write.backend = "docker" /\ step' = "unanswered" /\ UNCHANGED outcome
       \/ write.backend = "k8s" /\ write.op = "WriteFiles" /\ step' = "k8sDiscard" /\ UNCHANGED outcome
       \/ write.backend = "k8s" /\ write.op # "WriteFiles" /\ Fail("unrenamed")
    /\ UNCHANGED <<write, dir, target, temp, list, landed, meddles, reader>>

\* A script nobody waits for ends.
scriptEnds ==
    /\ Script("over") /\ ~script.heard
    /\ script' = [script EXCEPT !.st = "none"]
    /\ UNCHANGED <<write, dir, target, temp, list, step, outcome, landed, broken, meddles, reader>>

\* The agent's commands make a target a directory or delete the batch's list.
meddle ==
    /\ meddles < MaxMeddles /\ meddles' = meddles + 1
    /\ \/ /\ dir = "mine"
          /\ \E m \in Batch : target[m] # "dir" /\ target' = [target EXCEPT ![m] = "dir"]
          /\ UNCHANGED <<list, broken>>
       \/ list = "there" /\ list' = "absent" /\ broken' = broken \cup {"list"} /\ UNCHANGED target
    /\ UNCHANGED <<write, dir, temp, script, step, outcome, landed, reader>>

----------------------------------------------------------------------------
(* A read of target 1 under a limit only the new bytes may pass. *)

TooLarge(content) == content = "new" /\ write.big

Refusal(content) ==
    CASE content = "absent" -> "ErrFileNotExist" [] content = "dir" -> "ErrIsDirectory"
      [] content = "device" -> "ErrNotRegularFile" [] TooLarge(content) -> "ErrFileTooLarge"
      [] OTHER -> "none"

\* The daemon's archive is one consistent file with its size in its header.
openFile ==
    /\ write.backend = "docker" /\ reader.st = "start"
    /\ reader' = [st |-> "done", got |-> IF Refusal(target[1]) = "none" THEN target[1] ELSE Refusal(target[1])]
    /\ UNCHANGED <<write, dir, target, temp, list, script, step, outcome, landed, broken, meddles>>

\* readScript tests and measures the path, then reads it.
statFile ==
    /\ write.backend = "k8s" /\ reader.st = "start"
    /\ reader' = IF Refusal(target[1]) = "none" THEN [st |-> "cat", got |-> "none"]
                 ELSE [st |-> "done", got |-> Refusal(target[1])]
    /\ UNCHANGED <<write, dir, target, temp, list, script, step, outcome, landed, broken, meddles>>

\* What was measured may have been replaced: the answer is measured again.
CatAnswer(content) == IF content \in {"absent", "dir"} THEN "failed" ELSE content
readStdout(content) == IF TooLarge(content) THEN "ErrFileTooLarge" ELSE CatAnswer(content)

catFile ==
    /\ reader.st = "cat"
    /\ reader' = [st |-> "done", got |-> readStdout(target[1])]
    /\ UNCHANGED <<write, dir, target, temp, list, script, step, outcome, landed, broken, meddles>>

SandboxFilesNext ==
    \/ put \/ mkdir \/ discard \/ reclaim \/ rename \/ renameUnanswered \/ returnUnanswered
    \/ renameAnswered \/ putBookkeeping \/ prepareBulk \/ putMembers \/ shedBulk \/ reclaimBulk
    \/ readManifest \/ checkTarget \/ move \/ recheckTarget
    \/ k8sStart \/ createTemp \/ teeStream \/ untar \/ k8sAnswered \/ k8sPrepare \/ k8sDiscard
    \/ loseAnswer \/ scriptEnds \/ meddle \/ openFile \/ statFile \/ catFile

----------------------------------------------------------------------------
\* A target holds what it held or the whole of the new bytes, at every moment
\* and in whatever order scripts, cleanups and the agent run; and a write that
\* returned success renamed every member onto its target (rename, reclaim,
\* __map_bulk_rename, writeScript).
WritesAreAtomic ==
    /\ \A m \in Members : target[m] \in {"absent", "old", "new", "dir", "device"}
    /\ outcome = "ok" => landed = Batch

\* Where the write's cleanups ran and its scripts answered, a failed write
\* leaves no payload in the sandbox: at most an empty file, and that only
\* where the sandbox user cannot unlink it or the batch's list was lost
\* (discard, reclaim, shedBulk, reclaimBulk, discardBulk).
FailedWritesShed ==
    outcome \in {"undelivered", "unrenamed"} /\ script.st = "none"
      /\ broken \subseteq (IF write.op # "WriteFiles" THEN {"exec"}
                           ELSE IF write.backend = "docker" /\ outcome = "unrenamed" THEN {"list"} ELSE {})
    => \A m \in Members : temp[m] = "absent" \/ (temp[m] = "empty" /\ (dir = "roots" \/ broken # {}))

\* A read under a limit never returns bytes past it, though the file was
\* replaced between the script's measurement and its cat (readStdout).
ReadsAreBounded == ~TooLarge(reader.got)

\* Files move whole or not at all, leave nothing behind, and are read within
\* the limit, whatever fails on the way (WriteFile, WriteFiles, ReadFile).
FilesMoveWhole == WritesAreAtomic /\ FailedWritesShed /\ ReadsAreBounded
=============================================================================
