---------------------------- MODULE MemorySync -----------------------------
(***************************************************************************)
(* A memory store and a session's directory of it: the store's routes      *)
(* (internal/api/memories.go, memorystores.go), the plan a sync decides    *)
(* from (internal/memsync/plan.go), and the sync's phases as the executor  *)
(* runs them, settling in one transaction under the store's lock, and as a *)
(* self-hosted worker runs them, one wire call at a time.  The agent edits *)
(* the directory and clients edit the store at any moment; batches into    *)
(* the sandbox can land in part and wire answers can be lost.              *)
(***************************************************************************)
EXTENDS Integers, Sequences, FiniteSets, SequencesExt

CONSTANTS
    PathSeq,        \* the paths, in byte order
    Above,          \* pairs <<p, q>>: p is a path prefix of q
    AgentShas,      \* the contents an agent writes, by digest
    ClientShas,     \* the contents clients write
    Invalid,        \* contents the rules refuse
    Mounts,         \* attachments: [kind: executor or worker, access]
    Seeds,          \* the memories the store begins with
    MaxMemoriesPerStore,
    MaxIds,         \* bound: memories ever created
    MemBudgets      \* bounds: [agent, client, faults], edits and failures

VARIABLES
    mount,      \* [kind, access]: fixed per behaviour
    store,      \* [rows, nid, archived, exists]
    tree,       \* [marker, files, synced, refused]: directory and baseline
    sync,       \* the sync in flight
    memhist,    \* history: see below
    memleft     \* [agent, client, faults]: what may still happen

mvars == <<mount, store, tree, sync, memhist, memleft>>

Paths == ToSet(PathSeq)
Nothing == [p \in Paths |-> 0]      \* 0 is an absent file or entry

\* A batch lands in order and stops at its first failure.
Landings == {{PathSeq[i] : i \in 1 .. n} : n \in 0 .. Len(PathSeq)}

\* A file cannot share its name with a directory, nor a memory its path with
\* another's prefix.
Clash(p, q) == p = q \/ <<p, q>> \in Above \/ <<q, p>> \in Above

\* memhist: seen, the contents the directory ever held; quiet, nothing was
\* edited since the sync began; agreed, the last sync ended quiet and nothing
\* was edited since; wiped, files that went in one sweep of a directory whose
\* baseline remembered several; destroyed, what syncs took from the store
\* as <<content, wiped>>.
Seeing(files) == memhist.seen \cup {files[p] : p \in Paths}
Edited == [memhist EXCEPT !.quiet = FALSE, !.agreed = FALSE]

-----------------------------------------------------------------------------
(* The store's routes.  Each runs under the store row's lock.              *)

RowsAt(st, p) == {m \in st.rows : m.path = p}
occupiedBy(st, p, except) == {m \in st.rows : m.id # except /\ Clash(m.path, p)}
Row(st, id) == {m \in st.rows : m.id = id}
Fresh(st, p, s) ==
    [st EXCEPT !.rows = @ \cup {[id |-> st.nid, path |-> p, sha |-> s]}, !.nid = @ + 1]

ClientEdits(st) ==
    /\ store' = st /\ st # store
    /\ memleft.client > 0 /\ memleft' = [memleft EXCEPT !.client = @ - 1]
    /\ memhist' = Edited
    /\ UNCHANGED <<mount, tree, sync>>

createMemory(p, s) ==
    /\ store.exists /\ ~store.archived
    /\ occupiedBy(store, p, 0) = {}
    /\ Cardinality(store.rows) < MaxMemoriesPerStore /\ store.nid <= MaxIds
    /\ ClientEdits(Fresh(store, p, s))

updateMemory(m, p, s) ==
    /\ ~store.archived /\ m \in store.rows
    /\ occupiedBy(store, p, m.id) = {}
    /\ ClientEdits([store EXCEPT !.rows = (@ \ {m}) \cup {[m EXCEPT !.path = p, !.sha = s]}])

\* An archived store still takes deletions.
deleteMemory(m) ==
    m \in store.rows /\ ClientEdits([store EXCEPT !.rows = @ \ {m}])

archiveMemoryStore ==
    store.exists /\ ClientEdits([store EXCEPT !.archived = TRUE])

deleteMemoryStore ==
    store.exists /\ ClientEdits([store EXCEPT !.exists = FALSE, !.rows = {}])

-----------------------------------------------------------------------------
(* The agent's edits of its directory, and a sandbox replaced.             *)

AgentEdits(files, wiped) ==
    /\ files # tree.files
    /\ memleft.agent > 0 /\ memleft' = [memleft EXCEPT !.agent = @ - 1]
    /\ tree' = [tree EXCEPT !.files = files]
    /\ memhist' = [Edited EXCEPT !.seen = Seeing(files), !.wiped = wiped]
    /\ UNCHANGED <<mount, store, sync>>

WriteMemoryFile(p, s) ==
    /\ \A q \in Paths \ {p} : Clash(p, q) => tree.files[q] = 0
    /\ AgentEdits([tree.files EXCEPT ![p] = s], {})

RemoveMemoryFile(p) == AgentEdits([tree.files EXCEPT ![p] = 0], memhist.wiped \ {p})

WipeDirectory ==
    AgentEdits(Nothing,
               IF Cardinality({p \in Paths : tree.synced[p] # 0}) > 1
               THEN {p \in Paths : tree.files[p] # 0} ELSE {})

LoseMarker ==
    /\ tree.marker = "ok" /\ memleft.agent > 0
    /\ memleft' = [memleft EXCEPT !.agent = @ - 1]
    /\ tree' \in {[tree EXCEPT !.marker = k] : k \in {"absent", "altered"}}
    /\ memhist' = Edited
    /\ UNCHANGED <<mount, store, sync>>

FreshDirectory == [marker |-> "absent", files |-> Nothing, synced |-> Nothing,
                   refused |-> Nothing]

ReplaceSandbox ==
    /\ sync.phase = "idle" /\ tree # FreshDirectory /\ memleft.faults > 0
    /\ memleft' = [memleft EXCEPT !.faults = @ - 1]
    /\ tree' = FreshDirectory
    /\ memhist' = [Edited EXCEPT !.wiped = {}]
    /\ UNCHANGED <<mount, store, sync>>

-----------------------------------------------------------------------------
(* Writing into the sandbox.                                               *)

\* A batch: all of it, unless a file is in the way of a member's directory.
Fits(files, writes) ==
    \A p, q \in Paths : /\ p # q /\ Clash(p, q)
                        /\ writes[p] # 0
                        => files[q] = 0
Landed(files, writes, ps) ==
    [p \in Paths |-> IF p \in ps /\ writes[p] # 0 THEN writes[p] ELSE files[p]]

Idle == [phase |-> "idle", mode |-> "sync", local |-> Nothing, synced |-> Nothing,
         refused |-> Nothing, trusted |-> FALSE, unmarked |-> FALSE, acts |-> <<>>,
         next |-> Nothing, nrefused |-> Nothing, writes |-> Nothing,
         removals |-> {}, archived |-> FALSE, restamp |-> FALSE]

\* The files that landed are in sight, and no longer missing.
Arrived(h, files) == [h EXCEPT !.seen = Seeing(files),
                               !.wiped = {p \in h.wiped : files[p] = 0}]

\* materializeStore: an empty directory without this store's marker gets an
\* empty baseline and the marker first, so that what lands after in part is
\* never taken for the agent's deletions.
materializeStore ==
    /\ sync.phase = "idle" /\ tree.marker # "ok"
    /\ tree.files = Nothing
    /\ store.exists
    /\ tree' = [tree EXCEPT !.marker = "ok", !.synced = Nothing, !.refused = Nothing]
    /\ sync' = [Idle EXCEPT !.phase = "landing"]
    /\ memhist' = Edited
    /\ UNCHANGED <<mount, store, memleft>>

Heads(st) == [p \in Paths |-> IF RowsAt(st, p) = {} THEN [id |-> 0, path |-> p, sha |-> 0]
                              ELSE CHOOSE m \in RowsAt(st, p) : TRUE]

\* The store's memories and the baseline that names them, in one batch.
LandStore(ps, whole) ==
    LET writes == [p \in Paths |-> Heads(store)[p].sha]
        files == Landed(tree.files, writes, ps)
        lands == whole /\ ps = Paths /\ Fits(tree.files, writes)
    IN  /\ sync.phase = "landing" /\ store.exists
        /\ \/ lands /\ UNCHANGED memleft
           \/ /\ ~whole /\ memleft.faults > 0
              /\ memleft' = [memleft EXCEPT !.faults = @ - 1]
        /\ tree' = [tree EXCEPT !.files = files, !.synced = IF lands THEN writes ELSE @]
        /\ memhist' = Arrived(Edited, files)
        /\ sync' = Idle
        /\ UNCHANGED <<mount, store>>

\* The store is gone, or a file is in the batch's way.  The worker, whose
\* listing is its first look at the store, withdraws the marker on a 404.
LandNothing ==
    /\ sync.phase = "landing"
    /\ \/ ~store.exists
       \/ ~Fits(tree.files, [p \in Paths |-> Heads(store)[p].sha])
    /\ sync' = Idle
    /\ tree' = IF mount.kind = "worker" /\ ~store.exists
              THEN [tree EXCEPT !.marker = "absent"] ELSE tree
    /\ UNCHANGED <<mount, store, memhist, memleft>>

-----------------------------------------------------------------------------
(* The plan (memsync.Plan).                                                *)

Step(kind, p, m, s) == [kind |-> kind, path |-> p, id |-> m.id, local |-> s.local[p],
                        base |-> IF m.id = 0 THEN 0 ELSE s.synced[p]]

Refused(s, p) == s.local[p] # 0 /\ s.refused[p] = s.local[p]

\* One path: gone from the store, gone from the directory, or in both.  What
\* no action settles stays in the baseline as "synced".
Decide(s, heads, pullOnly, p) ==
    LET l == s.local[p]
        b == s.synced[p]
        h == heads[p]
        withheld == pullOnly \/ Refused(s, p)
        push == IF withheld THEN {} ELSE {Step("push", p, h, s)}
        pull == {Step("pull", p, h, s)}
    IN  IF h.id = 0
        THEN [acts |-> IF l = 0 THEN {} ELSE IF l = b THEN {Step("remove", p, h, s)} ELSE push,
              synced |-> 0]
        ELSE IF l = 0
        THEN [acts |-> IF b # h.sha THEN pull
                       ELSE IF pullOnly THEN {} ELSE {Step("delete", p, h, s)},
              synced |-> IF b = h.sha /\ pullOnly THEN b ELSE 0]
        ELSE [acts |-> IF l = h.sha THEN {} ELSE IF b = h.sha THEN push ELSE pull,
              synced |-> IF l = h.sha THEN l ELSE IF b = h.sha /\ withheld THEN b ELSE 0]

\* An empty directory against a baseline of several files is a wiped mount,
\* and an empty unmarked one is fresh: everything is pulled.
Rebuild(s) ==
    /\ s.local = Nothing
    /\ s.unmarked \/ Cardinality({p \in Paths : s.synced[p] # 0}) > 1

InOrder(acts) ==
    FlattenSeq([i \in 1 .. Len(PathSeq) |-> SetToSeq({a \in acts : a.path = PathSeq[i]})])

\* Deletions settle first: a create may need the room, or the path, they free.
Plan(s, st, pullOnly) ==
    LET heads == Heads(st)
        rebuild == Rebuild(s)
        all == IF rebuild
               THEN {Step("pull", p, heads[p], s) : p \in {q \in Paths : heads[q].id # 0}}
               ELSE UNION {Decide(s, heads, pullOnly, p).acts : p \in Paths}
    IN  [s EXCEPT
          !.acts = InOrder({a \in all : a.kind = "delete"}) \o
                   InOrder({a \in all : a.kind # "delete"}),
          !.next = [p \in Paths |-> IF rebuild THEN 0
                                    ELSE Decide(s, heads, pullOnly, p).synced],
          !.nrefused = [p \in Paths |-> IF ~rebuild /\ Refused(s, p) THEN s.local[p] ELSE 0],
          !.restamp = rebuild]

-----------------------------------------------------------------------------
(* Settling.  A state x is [st, s, h, err]: the store, the sync, the       *)
(* history and whether the settlement failed.                              *)

KeepAs(x, p, b) == [x EXCEPT !.s.next[p] = b]

Pull(x, a) ==
    IF Row(x.st, a.id) = {} THEN KeepAs(x, a.path, a.base)
    ELSE LET m == CHOOSE r \in Row(x.st, a.id) : TRUE
         IN  [x EXCEPT !.s.writes[a.path] = m.sha, !.s.next[a.path] = m.sha]

Destroyed(x, m, p) ==
    [x.h EXCEPT !.destroyed = @ \cup {<<m.sha, p \in memhist.wiped>>}]

\* DELETE where the head is still the baseline.
DeleteRemote(x, a) ==
    LET held == Row(x.st, a.id)
        m == CHOOSE r \in held : TRUE
    IN  IF x.s.archived THEN KeepAs(x, a.path, a.base)
        ELSE IF held = {} THEN x
        ELSE IF m.sha # a.base THEN KeepAs(x, a.path, a.base)
        ELSE [x EXCEPT !.st.rows = @ \ {m}, !.h = Destroyed(x, m, a.path)]

Create(x, a) ==
    CASE ~x.st.exists -> [x EXCEPT !.err = TRUE]
      [] x.st.exists /\ x.st.archived -> KeepAs([x EXCEPT !.s.archived = TRUE], a.path, a.base)
      [] x.st.exists /\ ~x.st.archived /\ occupiedBy(x.st, a.path, 0) # {} ->
           IF a.id = 0 THEN [x EXCEPT !.s.removals = @ \cup {a.path}]
           ELSE KeepAs(x, a.path, a.base)
      [] OTHER ->
           IF Cardinality(x.st.rows) >= MaxMemoriesPerStore THEN x
           ELSE KeepAs([x EXCEPT !.st = Fresh(x.st, a.path, a.local)], a.path, a.local)

\* Mutant: an update is sent without its precondition.
UpdateUnconditioned(x, m, a) ==
    KeepAs([x EXCEPT !.st.rows = (@ \ {m}) \cup {[m EXCEPT !.sha = a.local]},
                   !.h = Destroyed(x, m, "")], a.path, a.local)

\* UPDATE conditioned on the head the baseline recorded; one that changes
\* nothing succeeds whatever its condition.
Update(x, m, a) ==
    CASE x.st.archived -> KeepAs([x EXCEPT !.s.archived = TRUE], a.path, a.base)
      [] ~x.st.archived /\ m.sha = a.local -> KeepAs(x, a.path, a.local)
      [] ~x.st.archived /\ m.sha # a.local /\ m.sha # a.base -> KeepAs(x, a.path, a.base)
      [] OTHER -> KeepAs([x EXCEPT !.st.rows = (@ \ {m}) \cup {[m EXCEPT !.sha = a.local]},
                                 !.h = Destroyed(x, m, "")], a.path, a.local)

\* push: an update that finds its memory gone creates it again.
Push(x, a) ==
    IF x.s.archived THEN KeepAs(x, a.path, a.base)
    ELSE IF a.id # 0 /\ Row(x.st, a.id) # {}
    THEN Update(x, CHOOSE r \in Row(x.st, a.id) : TRUE, a)
    ELSE Create(x, a)

settleOne(x, a) ==
    CASE x.err -> x
      [] ~x.err /\ a.kind = "pull" -> Pull(x, a)
      [] ~x.err /\ a.kind = "remove" -> [x EXCEPT !.s.removals = @ \cup {a.path}]
      [] ~x.err /\ a.kind = "delete" -> DeleteRemote(x, a)
      [] OTHER -> Push(x, a)

Settling(st, s) == [st |-> st, s |-> s, h |-> memhist, err |-> FALSE]

-----------------------------------------------------------------------------
(* A sync's phases.                                                        *)

\* The bytes of what changed are read, and those the rules refuse are refused
\* until they change.
ReadRefusals ==
    [p \in Paths |-> IF tree.files[p] \in Invalid /\ tree.files[p] # tree.synced[p]
                      THEN tree.files[p] ELSE tree.refused[p]]

\* readStore: the marker, the listing, the baseline and what changed.
readStore(mode) ==
    /\ sync.phase = "idle"
    /\ mode = "flush" => /\ mount.kind = "worker" /\ mount.access = "read_write"
                         /\ tree.marker = "ok"
    /\ sync' = [Idle EXCEPT !.phase = "read", !.mode = mode, !.local = tree.files,
                            !.synced = tree.synced, !.refused = ReadRefusals,
                            !.trusted = tree.marker = "ok",
                            !.unmarked = tree.marker = "absent"]
    /\ memhist' = [memhist EXCEPT !.quiet = mode = "sync", !.agreed = FALSE]
    /\ UNCHANGED <<mount, store, tree, memleft>>

PullOnly(s, archived) == mount.access = "read_only" \/ archived \/ ~s.trusted

\* settleStore in the executor's transaction: listed, planned and applied
\* under the store's lock.
settleStore ==
    LET s == Plan(sync, store, PullOnly(sync, store.archived))
        x == FoldLeft(settleOne, Settling(store, s), s.acts)
    IN  /\ mount.kind = "executor" /\ sync.phase = "read"
        /\ x.st.nid <= MaxIds + 1
        /\ IF store.exists
           THEN /\ store' = x.st /\ memhist' = x.h
                /\ sync' = [x.s EXCEPT !.phase = "apply", !.acts = <<>>]
           ELSE sync' = Idle /\ UNCHANGED <<store, memhist>>
        /\ UNCHANGED <<mount, tree, memleft>>

\* flushStore's own choice: new files, and edits of heads that did not move.
FlushPlan(s, st) ==
    LET heads == Heads(st)
        sends(p) == /\ s.local[p] \notin {0, s.synced[p], s.refused[p]}
                    /\ heads[p].id # 0 => /\ heads[p].sha # s.local[p]
                                          /\ heads[p].sha = s.synced[p]
    IN  [s EXCEPT !.acts = InOrder({Step("push", p, heads[p], s) : p \in {q \in Paths : sends(q)}})]

\* The worker's listing; it learns of an archive from a refusal.
ListHeads ==
    /\ mount.kind = "worker" /\ sync.phase = "read"
    /\ sync' = IF ~store.exists THEN Idle
               ELSE [(IF sync.mode = "flush" THEN FlushPlan(sync, store)
                      ELSE Plan(sync, store, PullOnly(sync, FALSE))) EXCEPT !.phase = "settle"]
    /\ UNCHANGED <<mount, store, tree, memhist, memleft>>

\* One wire call.  A lost answer is retried by the client: the route runs
\* twice, and the second answer is the one judged.
SendOne(again) ==
    LET a == Head(sync.acts)
        once == settleOne(Settling(store, sync), a)
        x == IF again THEN settleOne([once EXCEPT !.s = sync], a) ELSE once
        stops == x.err \/ (sync.mode = "flush" /\ x.s.archived)
    IN  /\ sync.phase = "settle" /\ sync.acts # <<>>
        /\ x.st.nid <= MaxIds + 1
        /\ again => memleft.faults > 0 /\ once.st # store
        /\ memleft' = IF again THEN [memleft EXCEPT !.faults = @ - 1] ELSE memleft
        /\ store' = x.st /\ memhist' = [x.h EXCEPT !.quiet = @ /\ ~again]
        /\ sync' = IF stops THEN Idle ELSE [x.s EXCEPT !.acts = Tail(@)]
        /\ UNCHANGED <<mount, tree>>

Settled ==
    /\ sync.phase = "settle" /\ sync.acts = <<>>
    /\ sync' = IF sync.mode = "flush" THEN Idle ELSE [sync EXCEPT !.phase = "apply"]
    /\ UNCHANGED <<mount, store, tree, memhist, memleft>>

\* The transaction or the wire fails; the baseline stays.
SyncFails ==
    /\ sync.phase \in {"read", "settle"} /\ memleft.faults > 0
    /\ memleft' = [memleft EXCEPT !.faults = @ - 1]
    /\ sync' = Idle
    /\ UNCHANGED <<mount, store, tree, memhist>>

\* A removal fails, before anything is written.
RemovalFails(ps) ==
    LET files == [p \in Paths |-> IF p \in ps THEN 0 ELSE tree.files[p]]
    IN  /\ sync.phase = "apply" /\ ps \subseteq sync.removals /\ ps # sync.removals
        /\ memleft.faults > 0 /\ memleft' = [memleft EXCEPT !.faults = @ - 1]
        /\ tree' = [tree EXCEPT !.files = files]
        /\ sync' = Idle
        /\ UNCHANGED <<mount, store, memhist>>

\* applyMemory: the removals, then the changes, the marker of a rebuilt
\* directory and the baseline in one batch, which lands whole or fails.
applyMemory(ps, whole) ==
    LET kept == [p \in Paths |-> IF p \in sync.removals THEN 0 ELSE tree.files[p]]
        fits == Fits(kept, sync.writes)
        lands == whole /\ fits
        files == IF fits THEN Landed(kept, sync.writes, ps) ELSE kept
    IN  /\ sync.phase = "apply"
        /\ whole => ps = Paths
        /\ ~whole => memleft.faults > 0
        /\ memleft' = IF whole THEN memleft ELSE [memleft EXCEPT !.faults = @ - 1]
        /\ tree' = IF lands
                  THEN [tree EXCEPT !.files = files, !.synced = sync.next,
                                   !.refused = sync.nrefused,
                                   !.marker = IF sync.restamp THEN "ok" ELSE @]
                  ELSE [tree EXCEPT !.files = files]
        /\ memhist' = [Arrived(memhist, files) EXCEPT !.agreed = lands /\ memhist.quiet]
        /\ sync' = Idle
        /\ UNCHANGED <<mount, store>>

-----------------------------------------------------------------------------
NoHistory == [seen |-> {0}, quiet |-> FALSE, agreed |-> FALSE, wiped |-> {}, destroyed |-> {}]

MemInit ==
    /\ mount \in Mounts
    /\ store = [rows |-> Seeds, nid |-> Cardinality(Seeds) + 1, archived |-> FALSE, exists |-> TRUE]
    /\ tree = FreshDirectory
    /\ sync = Idle
    /\ memhist = NoHistory
    /\ memleft \in MemBudgets

\* The bounds and the phases come first: there is nothing to try without them.
MemNext ==
    \/ /\ memleft.client > 0
       /\ \/ \E p \in Paths, s \in ClientShas :
               \/ createMemory(p, s)
               \/ \E m \in store.rows : updateMemory(m, p, s)
          \/ \E m \in store.rows : deleteMemory(m)
          \/ archiveMemoryStore \/ deleteMemoryStore
    \/ /\ memleft.agent > 0
       /\ \/ \E p \in Paths : RemoveMemoryFile(p) \/ \E s \in AgentShas : WriteMemoryFile(p, s)
          \/ WipeDirectory \/ LoseMarker
    \/ ReplaceSandbox
    \/ materializeStore \/ LandNothing
    \/ sync.phase = "landing" /\ \E ps \in Landings, whole \in BOOLEAN : LandStore(ps, whole)
    \/ /\ sync.phase = "apply"
       /\ \/ \E ps \in Landings, whole \in BOOLEAN : applyMemory(ps, whole)
          \/ \E ps \in SUBSET Paths : RemovalFails(ps)
    \/ \E mode \in {"sync", "flush"} : readStore(mode)
    \/ settleStore \/ ListHeads \/ Settled \/ SyncFails
    \/ \E again \in BOOLEAN : SendOne(again)

MemSpec == MemInit /\ [][MemNext]_mvars

-----------------------------------------------------------------------------
\* A sync never destroys what the session had no part in: every content it
\* overwrote or deleted in the store is one its own directory had held,
\* whatever clients wrote between the sync's listing and its writes.
SyncDestroysOnlySeen == \A d \in memhist.destroyed : d[1] \in memhist.seen

\* A sync that ran whole while nobody edited either side leaves the directory
\* and the store the same, when the directory may write to the store at all:
\* only files the rules refuse and creates past the cap stay apart.
QuietSyncAgrees ==
    LET full == Cardinality(store.rows) >= MaxMemoriesPerStore
    IN  /\ memhist.agreed /\ store.exists /\ ~store.archived
        /\ mount.access = "read_write" /\ tree.marker = "ok"
        => \A p \in Paths :
             LET sha == Heads(store)[p].sha
             IN  \/ tree.files[p] = sha
                 \/ tree.files[p] \in Invalid
                 \/ full /\ sha = 0

\* A pull that did not land is pending, never a deletion: what went in one
\* sweep of a directory that remembered several files is never deleted from
\* the store.
WipeDeletesNothing == \A d \in memhist.destroyed : ~d[2]

\* A sync takes nothing it did not see, and leaves both sides the same.
SyncIsFaithful == SyncDestroysOnlySeen /\ QuietSyncAgrees
=============================================================================
