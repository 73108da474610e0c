---------------------------- MODULE FileObjects ----------------------------
(***************************************************************************)
(* The objects that the files table names.  An upload, a harvested output  *)
(* and a dream's transcript own an object; a session's mount of a file is  *)
(* a row of its own that names the object of its source.  Rows are removed *)
(* by several kinds of transaction, on any replica; each one records, in   *)
(* the same transaction, the keys that it may have left without a name,    *)
(* and a trigger drops the keys that some row still names.  A drain on     *)
(* every replica deletes what is owed.                                     *)
(*                                                                         *)
(* Transactions are READ COMMITTED and interleave statement by statement:  *)
(* the row locks and the advisory locks that they wait for are explicit.   *)
(***************************************************************************)
EXTENDS Naturals, FiniteSetsExt

CONSTANTS
    FileIds,        \* row ids in their order; an object's key is its first row's id
    FileSessions,   \* sessions that mount and produce files
    FileRequests,   \* transactions at work at a time
    Drainers,       \* replicas that drain
    MaxFileRequests \* requests begun in a behaviour

VARIABLES
    fileRows,       \* id |-> [st, key, kind, sess]
    fileTx,         \* request |-> its transaction
    begun,          \* requests begun so far
    fileSess,       \* session |-> "absent", "live" or "gone"
    lapsed,         \* keys whose rows are past their expiry and its grace
    objects,        \* keys present in the object store
    owed,           \* keys in pending_object_deletes
    due,            \* those whose next_attempt_at has come
    drain           \* drainer |-> the key it works on and how far it got

fileVars == <<fileRows, fileTx, begun, fileSess, lapsed, objects, owed, due, drain>>

Unused == [st |-> "unused", key |-> 0, kind |-> "none", sess |-> "none"]
Removed(st, key) == [st |-> st, key |-> key, kind |-> "none", sess |-> "none"]
NoTx   == [op |-> "none"]
NoWork == [key |-> 0, at |-> "idle"]

FilesInit ==
    /\ fileRows = [f \in FileIds |-> Unused]
    /\ fileTx = [a \in FileRequests |-> NoTx] /\ begun = 0
    /\ fileSess = [s \in FileSessions |-> "absent"]
    /\ lapsed = {} /\ objects = {} /\ owed = {} /\ due = {}
    /\ drain = [d \in Drainers |-> NoWork]

----------------------------------------------------------------------------
(* Rows and locks. *)

Live(f)   == fileRows[f].st = "live"
Fresh(f)  == fileRows[f].st = "unused" /\ \A g \in FileIds : g < f => fileRows[g].st # "unused"
Open(a)   == fileTx[a].op # "none"
At(a, ph) == Open(a) /\ fileTx[a].phase = ph

\* files_name_object, in a statement of transaction a: rows committed by others
\* and not deleted by a itself.
Named(a, k) == \E f \in FileIds \ fileTx[a].dels : Live(f) /\ fileRows[f].key = k

\* No other transaction holds the lock in a mode that excludes this one.
Free(a, lock, mode) ==
    \A b \in FileRequests \ {a} : Open(b) =>
        \A h \in fileTx[b].held : h.lock = lock => mode = "share" /\ h.mode = "share"

FileLock(f)    == <<"file", f>>
KeyLock(k)     == <<"key", k>>
SessionLock(s) == <<"session", s>>

Begin(a, op, s, phase, todo, news) ==
    /\ fileTx' = [fileTx EXCEPT ![a] =
        [op |-> op, sess |-> s, phase |-> phase, todo |-> todo, news |-> news,
         held |-> {}, dels |-> {}, keys |-> {}, owe |-> {}]]
    /\ begun' = begun + 1

Idle(a) == ~Open(a) /\ begun < MaxFileRequests

\* The mode in which a transaction takes the rows of its list.
Mode(a) == IF fileTx[a].op \in {"create", "add"} THEN "share" ELSE "own"

----------------------------------------------------------------------------
(* What requests begin with. *)

\* insertFile: the row goes in first, uncommitted, then its object.
createFile(a, f) ==
    /\ Idle(a) /\ Fresh(f)
    /\ fileRows' = [fileRows EXCEPT ![f] = [st |-> "pending", key |-> f, kind |-> "upload", sess |-> "none"]]
    /\ Begin(a, "upload", "none", "put", {}, {f})
    /\ UNCHANGED <<fileSess, lapsed, objects, owed, due, drain>>

\* putDreamFile: a dream's transcripts are in the store before the transaction
\* that inserts their rows begins.
renderDreamInputs(a, f) ==
    /\ Idle(a) /\ Fresh(f)
    /\ fileRows' = [fileRows EXCEPT ![f] = [st |-> "pending", key |-> f, kind |-> "transcript", sess |-> "none"]]
    /\ objects' = objects \cup {f}
    /\ Begin(a, "start", "none", "commit", {}, {f})
    /\ UNCHANGED <<fileSess, lapsed, owed, due, drain>>

\* collectOutputs: a deliverable is staged under an id of its own before the
\* settlement's transaction.
collectOutputs(a, s, f) ==
    /\ Idle(a) /\ Fresh(f) /\ fileSess[s] = "live"
    /\ fileRows' = [fileRows EXCEPT ![f] = [st |-> "pending", key |-> f, kind |-> "output", sess |-> s]]
    /\ objects' = objects \cup {f}
    /\ Begin(a, "harvest", s, "session", {}, {f})
    /\ UNCHANGED <<fileSess, lapsed, owed, due, drain>>

Copy(f, s) == [st |-> "pending", key |-> fileRows[f].key, kind |-> "copy", sess |-> s]

\* The files a create mounts, each with the id of its copy.
Mountable(f) == Live(f) /\ fileRows[f].key \notin lapsed

\* lockFileRows: every source, before any copy is made.
MountSources(srcs) == srcs

\* createSession with file resources: its session row is new, so it waits for
\* the files alone.
createSession(a, s, srcs) ==
    LET unused == {g \in FileIds : fileRows[g].st = "unused"}
        slot(f) == CHOOSE g \in unused : Cardinality({h \in unused : h < g}) = Cardinality({e \in srcs : e < f})
    IN
    /\ Idle(a) /\ fileSess[s] = "absent" /\ \A b \in FileRequests : Open(b) => fileTx[b].sess # s
    /\ \A f \in srcs : Mountable(f)
    /\ Cardinality(srcs) <= Cardinality(unused)
    /\ fileRows' = [g \in FileIds |->
                      IF \E f \in srcs : slot(f) = g THEN Copy(CHOOSE f \in srcs : slot(f) = g, s) ELSE fileRows[g]]
    /\ Begin(a, "create", s, "lock", MountSources(srcs), {slot(f) : f \in srcs})
    /\ UNCHANGED <<fileSess, lapsed, objects, owed, due, drain>>

\* addSessionResource: the session's row first, then the one file.
addSessionResource(a, s, f, g) ==
    /\ Idle(a) /\ fileSess[s] = "live" /\ Mountable(f) /\ Fresh(g)
    /\ fileRows' = [fileRows EXCEPT ![g] = Copy(f, s)]
    /\ Begin(a, "add", s, "session", MountSources({f}), {g})
    /\ UNCHANGED <<fileSess, lapsed, objects, owed, due, drain>>

deleteSession(a, s) ==
    /\ Idle(a) /\ fileSess[s] = "live"
    /\ Begin(a, "deleteSession", s, "session", {}, {})
    /\ UNCHANGED <<fileRows, fileSess, lapsed, objects, owed, due, drain>>

\* A transcript of a dream that is open is refused.
deleteFile(a, f) ==
    /\ Idle(a) /\ Live(f) /\ fileRows[f].kind # "transcript"
    /\ Begin(a, "deleteFile", "none", "lock", {f}, {})
    /\ UNCHANGED <<fileRows, fileSess, lapsed, objects, owed, due, drain>>

enqueueDreamBlobs(a) ==
    LET rows == {f \in FileIds : Live(f) /\ fileRows[f].kind = "transcript"} IN
    /\ Idle(a) /\ rows # {}
    /\ Begin(a, "closeDream", "none", "lock", rows, {})
    /\ UNCHANGED <<fileRows, fileSess, lapsed, objects, owed, due, drain>>

\* The sweep takes, in one statement, the expired rows that nobody has locked.
purgeExpiredFiles(a) ==
    LET rows == {f \in FileIds : Live(f) /\ fileRows[f].key \in lapsed /\ Free(a, FileLock(f), "own")} IN
    /\ Idle(a) /\ rows # {}
    /\ fileTx' = [fileTx EXCEPT ![a] =
         [op |-> "purge", sess |-> "none", phase |-> "lock", todo |-> {}, news |-> {}, dels |-> rows,
          held |-> {[lock |-> FileLock(f), mode |-> "own"] : f \in rows},
          keys |-> {fileRows[f].key : f \in rows}, owe |-> {}]]
    /\ begun' = begun + 1
    /\ UNCHANGED <<fileRows, fileSess, lapsed, objects, owed, due, drain>>

----------------------------------------------------------------------------
(* How a transaction goes on. *)

putObject(a) ==
    /\ At(a, "put")
    /\ objects' = objects \cup fileTx[a].news
    /\ fileTx' = [fileTx EXCEPT ![a].phase = "commit"]
    /\ UNCHANGED <<begun, fileRows, fileSess, lapsed, owed, due, drain>>

\* The rows that the transaction locks once it has its session.
Listed(a) ==
    LET s == fileTx[a].sess IN
    CASE fileTx[a].op = "deleteSession" -> {f \in FileIds : Live(f) /\ fileRows[f].sess = s}
      [] fileTx[a].op = "harvest" -> {f \in FileIds : Live(f) /\ fileRows[f].sess = s /\ fileRows[f].kind = "output"}
      [] OTHER -> fileTx[a].todo

lockSession(a) ==
    LET lock == SessionLock(fileTx[a].sess) IN
    /\ At(a, "session") /\ Free(a, lock, "own") /\ fileSess[fileTx[a].sess] = "live"
    /\ fileTx' = [fileTx EXCEPT ![a].phase = "lock", ![a].todo = Listed(a),
                                ![a].held = {[lock |-> lock, mode |-> "own"]}]
    /\ UNCHANGED <<begun, fileRows, fileSess, lapsed, objects, owed, due, drain>>

\* Every statement that takes several rows takes them by id.
LockNext(a) == Min(fileTx[a].todo)

\* A row deleted while the statement waited is skipped by a remover.
lockFileRows(a) ==
    /\ At(a, "lock") /\ fileTx[a].todo # {}
    /\ LET f == LockNext(a)
           removes == Mode(a) = "own"
       IN /\ Live(f) => Free(a, FileLock(f), Mode(a))
          /\ Live(f) \/ removes
          /\ fileTx' = [fileTx EXCEPT
               ![a].todo = @ \ {f},
               ![a].held = IF Live(f) THEN @ \cup {[lock |-> FileLock(f), mode |-> Mode(a)]} ELSE @,
               ![a].dels = IF Live(f) /\ removes THEN @ \cup {f} ELSE @,
               ![a].keys = IF Live(f) /\ removes THEN @ \cup {fileRows[f].key} ELSE @]
    /\ UNCHANGED <<begun, fileRows, fileSess, lapsed, objects, owed, due, drain>>

\* Every row of the list is taken: the keys are next.
Counting(a) == At(a, "lock") /\ fileTx[a].todo = {}

\* Mutant: a key that a row names is dropped at the first look.
CountOnce(a) ==
    /\ Counting(a) /\ fileTx[a].keys # {}
    /\ LET k == Min(fileTx[a].keys) IN
         fileTx' = [fileTx EXCEPT ![a].keys = @ \ {k}, ![a].owe = IF Named(a, k) THEN @ ELSE @ \cup {k}]
    /\ UNCHANGED <<begun, fileRows, fileSess, lapsed, objects, owed, due, drain>>

\* EnqueueObjectDeletes, key by key in one order: the trigger's first look, and
\* for a key that is named the wait for its advisory lock.
EnqueueObjectDeletes(a) ==
    /\ Counting(a) /\ fileTx[a].keys # {}
    /\ LET k == Min(fileTx[a].keys) IN
         \/ /\ ~Named(a, k)
            /\ fileTx' = [fileTx EXCEPT ![a].keys = @ \ {k}, ![a].owe = @ \cup {k}]
         \/ /\ Named(a, k) /\ Free(a, KeyLock(k), "own")
            /\ fileTx' = [fileTx EXCEPT ![a].phase = "recount",
                                        ![a].held = @ \cup {[lock |-> KeyLock(k), mode |-> "own"]}]
    /\ UNCHANGED <<begun, fileRows, fileSess, lapsed, objects, owed, due, drain>>

\* The second look, in a snapshot taken under the lock.
skipReferenced(a) ==
    /\ At(a, "recount")
    /\ LET k == Min(fileTx[a].keys) IN
         fileTx' = [fileTx EXCEPT ![a].phase = "lock", ![a].keys = @ \ {k},
                                  ![a].owe = IF Named(a, k) THEN @ ELSE @ \cup {k}]
    /\ UNCHANGED <<begun, fileRows, fileSess, lapsed, objects, owed, due, drain>>

\* The commit publishes the rows, the removals and the debt together.
commitFiles(a) ==
    LET t == fileTx[a] IN
    /\ At(a, "commit") \/ (Counting(a) /\ t.keys = {})
    /\ fileRows' = [f \in FileIds |-> IF f \in t.news THEN [fileRows[f] EXCEPT !.st = "live"]
                                      ELSE IF f \in t.dels THEN Removed("gone", fileRows[f].key)
                                      ELSE fileRows[f]]
    /\ fileSess' = IF t.op \in {"create", "deleteSession"}
                   THEN [fileSess EXCEPT ![t.sess] = IF t.op = "create" THEN "live" ELSE "gone"]
                   ELSE fileSess
    /\ owed' = owed \cup t.owe /\ due' = due \cup t.owe
    /\ fileTx' = [fileTx EXCEPT ![a] = NoTx]
    /\ UNCHANGED <<begun, lapsed, objects, drain>>

\* A refusal, an error or a crash before the commit: nothing of the transaction
\* stays.  An object put for it is discarded, best-effort, or stays unnamed.
rollbackFiles(a) ==
    LET t == fileTx[a] IN
    /\ Open(a)
    /\ fileRows' = [f \in FileIds |-> IF f \in t.news THEN Removed("void", 0) ELSE fileRows[f]]
    /\ \/ objects' = objects
       \/ objects' = objects \ {f \in t.news : fileRows[f].key = f}
    /\ fileTx' = [fileTx EXCEPT ![a] = NoTx]
    /\ UNCHANGED <<begun, fileSess, lapsed, owed, due, drain>>

\* expires_at passes for an upload and, with it, for the copies that carry it.
lapse(f) ==
    /\ fileRows[f].st = "live" /\ fileRows[f].kind = "upload" /\ f \notin lapsed
    /\ lapsed' = lapsed \cup {f}
    /\ UNCHANGED <<begun, fileRows, fileTx, fileSess, objects, owed, due, drain>>

----------------------------------------------------------------------------
(* The drain. *)

claimPendingObjectDeletes(d, k) ==
    /\ drain[d].at = "idle" /\ k \in due
    /\ due' = due \ {k}
    /\ drain' = [drain EXCEPT ![d] = [key |-> k, at |-> "claimed"]]
    /\ UNCHANGED <<begun, fileRows, fileTx, fileSess, lapsed, objects, owed>>

deleteObject(d) ==
    /\ drain[d].at = "claimed"
    /\ objects' = objects \ {drain[d].key}
    /\ drain' = [drain EXCEPT ![d].at = "deleted"]
    /\ UNCHANGED <<begun, fileRows, fileTx, fileSess, lapsed, owed, due>>

\* The row goes once its object has gone.
forgetObject(d) ==
    /\ drain[d].at = "deleted"
    /\ owed' = owed \ {drain[d].key} /\ due' = due \ {drain[d].key}
    /\ drain' = [drain EXCEPT ![d] = NoWork]
    /\ UNCHANGED <<begun, fileRows, fileTx, fileSess, lapsed, objects>>

\* The store refuses, the pass outlives its claim or the replica dies: the row
\* stays owed, not yet due.
deferPendingObjectDelete(d) ==
    /\ drain[d].at # "idle"
    /\ drain' = [drain EXCEPT ![d] = NoWork]
    /\ UNCHANGED <<begun, fileRows, fileTx, fileSess, lapsed, objects, owed, due>>

\* next_attempt_at comes: a claim's lease ends or a backoff does, even under a
\* replica that is still at work on the key.
attemptFallsDue(k) ==
    /\ k \in owed \ due
    /\ due' = due \cup {k}
    /\ UNCHANGED <<begun, fileRows, fileTx, fileSess, lapsed, objects, owed, drain>>

----------------------------------------------------------------------------
fileBegins(a) ==
    /\ Idle(a)
    /\ \/ \E f \in FileIds : createFile(a, f) \/ renderDreamInputs(a, f) \/ deleteFile(a, f)
       \/ \E s \in FileSessions :
            \/ deleteSession(a, s)
            \/ \E f \in FileIds : collectOutputs(a, s, f)
            \/ \E f, g \in FileIds : createSession(a, s, {f, g}) \/ addSessionResource(a, s, f, g)
       \/ enqueueDreamBlobs(a) \/ purgeExpiredFiles(a)

fileGoesOn(a) ==
    \/ putObject(a) \/ lockSession(a) \/ lockFileRows(a)
    \/ EnqueueObjectDeletes(a) \/ skipReferenced(a) \/ commitFiles(a)

drains(d) ==
    \/ \E k \in FileIds : claimPendingObjectDeletes(d, k)
    \/ deleteObject(d) \/ forgetObject(d) \/ deferPendingObjectDelete(d)

FilesNext ==
    \/ \E a \in FileRequests : fileBegins(a) \/ fileGoesOn(a) \/ rollbackFiles(a)
    \/ \E d \in Drainers : drains(d)
    \/ \E f \in FileIds : lapse(f) \/ attemptFallsDue(f)

\* The drain's loop runs on every replica for as long as it lives, and the
\* store accepts a delete that is tried again and again.
FilesFairness ==
    /\ \A k \in FileIds : WF_fileVars(attemptFallsDue(k))
    /\ \A k \in FileIds : SF_fileVars(\E d \in Drainers : claimPendingObjectDeletes(d, k))
    /\ \A d \in Drainers : SF_fileVars(deleteObject(d)) /\ SF_fileVars(forgetObject(d))

FilesSpec == FilesInit /\ [][FilesNext]_fileVars

----------------------------------------------------------------------------
(* Properties. *)

\* A committed row's object is in the store: no remover owes an object that a
\* copy minted meanwhile names, and no put follows its row's commit.
NamedHaveBytes == \A f \in FileIds : Live(f) => fileRows[f].key \in objects

\* An object whose last row is gone is owed to the drain, also when two
\* transactions each removed one of its last two rows (#578).
UnnamedAreOwed ==
    \A f \in FileIds :
        fileRows[f].st = "gone" /\ fileRows[f].key \in objects =>
            \/ fileRows[f].key \in owed
            \/ \E g \in FileIds : Live(g) /\ fileRows[g].key = fileRows[f].key

\* What transaction a waits for, if anything.
Wanted(a) ==
    CASE At(a, "session") -> {[lock |-> SessionLock(fileTx[a].sess), mode |-> "own"]}
      [] At(a, "lock") /\ fileTx[a].todo # {} -> {[lock |-> FileLock(LockNext(a)), mode |-> Mode(a)]}
      [] Counting(a) /\ fileTx[a].keys # {} -> {[lock |-> KeyLock(Min(fileTx[a].keys)), mode |-> "own"]}
      [] OTHER -> {}

WaitsFor(a, b) ==
    /\ a # b /\ Open(b)
    /\ \E w \in Wanted(a) : \E h \in fileTx[b].held : h.lock = w.lock /\ ~(h.mode = "share" /\ w.mode = "share")

\* Transactions never wait for each other in a circle: sessions before files,
\* files by id, keys in one order, the sweep waiting for no row.
NoLockCycle ==
    \A group \in SUBSET FileRequests \ {{}} : \E a \in group : \A b \in group : ~WaitsFor(a, b)

\* Rows and objects agree at every moment and no removal waits in a circle,
\* however uploads, copies, deletions and drains interleave.
ObjectsFollowRows == NamedHaveBytes /\ UnnamedAreOwed /\ NoLockCycle

\* What is owed is deleted in the end, whatever the drains' replicas do.  (Only
\* the drain that deleted an object strikes it off.)
OwedIsDeleted == \A k \in FileIds : []<>(k \notin owed)
============================================================================
