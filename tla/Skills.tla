------------------------------- MODULE Skills -------------------------------
(***************************************************************************)
(* The skills registry (api/skills.go, api/skillsimport.go), its archives  *)
(* (skills/), and their materialization into a sandbox by the platform's   *)
(* executor (executor/skills.go) or a worker (worker/skills.go).           *)
(*                                                                         *)
(* A version is the number minted for it; its version id is in one to one  *)
(* correspondence with it and only tells the forms of a pin apart.  An     *)
(* archive is the number of the upload that stored it, which its digest    *)
(* stands for.  Every version has a SKILL.md and one file the others lack; *)
(* a directory of the sandbox holds files, each as some version wrote it.  *)
(***************************************************************************)
EXTENDS Naturals, Sequences, FiniteSets

CONSTANTS SkillIds, Imported,   \* the skills, and the ones the importer owns
          Titles,               \* names in SKILL.md; an imported skill's is its id
          Sessions,             \* the references a session's agent may hold
          Uploaders,            \* requests or importers under way
          Bundles,              \* archives to validate and to extract
          MaxVersion,           \* bound on the versions minted
          Starts                \* bounds on uploads, passes and faults, and how many versions there are

VARIABLES skillRows,   \* each skill: none, live or gone, and its latest version
          releases,    \* the version rows
          archives,    \* the archives in object storage: upload by key
          doomed,      \* the keys queued for deletion
          uploads,     \* each uploader's request
          stored,      \* uploads begun so far
          minted,      \* the last reading a version was minted from
          lane,        \* who materializes: executor or worker
          refs,        \* the session's references
          skillTree,   \* the files in each directory under skills/
          skillMarker, \* what the sentinel file records
          pass,        \* the materialization under way
          spent,       \* uploads, passes and faults still to come
          doubt,       \* a pass wrote and did not record it: history
          bundle       \* the archive under examination

skvars == <<skillRows, releases, archives, doomed, uploads, stored, minted, lane, refs, skillTree, skillMarker, pass, spent, doubt, bundle>>

sandboxVars == <<lane, refs, skillTree, skillMarker, pass, doubt, bundle>>

catalogVars == <<skillRows, releases, archives, doomed, uploads, stored, minted, lane, refs, bundle>>

-----------------------------------------------------------------------------
(* Archives: a member has a path of segments and a kind.                   *)

Manifest == "SKILL.md"

Plain(f) == f.kind \in {"file", "dir"}

\* Path-qualified, with no empty, relative or parent segment.
CheckPath(p) == Len(p) >= 2 /\ \A i \in DOMAIN p : p[i] \notin {"", ".", ".."}

\* An upload is refused unless its members share one top-level directory
\* and a regular SKILL.md stands in it.
FromZip(zip) ==
    /\ zip # <<>>
    /\ \A i \in DOMAIN zip :
          \/ CheckPath(zip[i].path)
          \/ zip[i].kind = "dir" /\ Len(zip[i].path) = 1 /\ zip[i].path[1] \notin {"", ".", ".."}
    /\ \A i, j \in DOMAIN zip : zip[i].path[1] = zip[j].path[1]
    /\ LET named == {i \in DOMAIN zip : zip[i].kind # "dir" /\ zip[i].path = <<zip[1].path[1], Manifest>>}
       IN named # {} /\ zip[CHOOSE i \in named : \A j \in named : j =< i].kind = "file"

\* Loose files: every one a regular file, no path twice.
FromFiles(files) ==
    /\ FromZip(files)
    /\ \A i \in DOMAIN files : files[i].kind = "file"
    /\ \A i, j \in DOMAIN files : i # j => files[i].path # files[j].path

\* The one directory all plain members share, when one of them is below it.
TopDir(zip) ==
    LET plain == {zip[i].path : i \in {k \in DOMAIN zip : Plain(zip[k])}}
    IN IF /\ \A p, q \in plain : p[1] = q[1]
          /\ \E p \in plain : Len(p) > 1
       THEN {p[1] : p \in plain} ELSE {}

\* The regular files of an archive, its top directory stripped; nothing when
\* a member is refused.
Extract(zip) ==
    IF zip = <<>> \/ \E i \in DOMAIN zip : \E k \in DOMAIN zip[i].path : zip[i].path[k] \in {"", ".", ".."} THEN {}
    ELSE {[path |-> IF zip[i].path[1] \in TopDir(zip) /\ Len(zip[i].path) > 1
                    THEN SubSeq(zip[i].path, 2, Len(zip[i].path)) ELSE zip[i].path] :
             i \in {k \in DOMAIN zip : zip[k].kind = "file"}}

-----------------------------------------------------------------------------
(* The registry.                                                           *)

Of(s) == {r \in releases : r.skill = s}

Newest(rows) == IF rows = {} THEN 0 ELSE (CHOOSE r \in rows : \A q \in rows : q.number =< r.number).number

\* The skill's row is locked by the upload that has claimed its version.
LockFree(s) == \A u \in Uploaders : ~ (uploads[u].at \in {"claimed", "stored"} /\ uploads[u].skill = s)

NoUpload == [at |-> "idle", skill |-> "", number |-> 0, title |-> "", copy |-> 0]

Key(u) == <<uploads[u].skill, uploads[u].number>>

\* A version's number is the clock's reading, taken before the row is
\* locked: two uploads may read the same one, and claim in either order.
MintSkillVersion ==
    {minted + 1} \union {n \in {minted} : \E u \in Uploaders : uploads[u].number = n /\ uploads[u].skill \notin Imported}

\* Requests are alike: the next one takes a free slot.
FreeSlot ==
    LET free == {u \in Uploaders : uploads[u] = NoUpload}
    IN IF free = {} THEN 0 ELSE CHOOSE u \in free : TRUE

Begin(u, s, n, t, at) ==
    /\ bundle = <<>> /\ u = FreeSlot /\ spent.uploads > 0
    /\ uploads' = [uploads EXCEPT ![u] = [at |-> at, skill |-> s, number |-> n, title |-> t, copy |-> stored + 1]]
    /\ stored' = stored + 1
    /\ minted' = IF s \in Imported THEN minted ELSE n
    /\ spent' = [spent EXCEPT !.uploads = @ - 1]
    /\ UNCHANGED <<skillRows, releases, archives, doomed>> /\ UNCHANGED sandboxVars

\* A new skill's row is its own transaction's: nothing contends for it.
CreateSkill(u, s, t) ==
    /\ s \notin Imported /\ skillRows[s].state = "none"
    /\ \A v \in Uploaders : uploads[v].skill # s
    /\ \E n \in MintSkillVersion : n =< MaxVersion /\ Begin(u, s, n, t, "claimed")

CreateSkillVersion(u, s, t) ==
    /\ s \notin Imported /\ skillRows[s].state = "live"
    /\ \E n \in MintSkillVersion : n =< MaxVersion /\ Begin(u, s, n, t, "minted")

\* The importer names the version itself: the date of its checkout.
ImportAnthropicSkills(u, s, n) == s \in Imported /\ Begin(u, s, n, s, "minted")

Refused(u) ==
    /\ uploads' = [uploads EXCEPT ![u] = NoUpload]
    /\ UNCHANGED <<skillRows, releases, archives, doomed, stored, minted, spent>> /\ UNCHANGED sandboxVars

Claim(u) ==
    /\ uploads' = [uploads EXCEPT ![u].at = "claimed"]
    /\ UNCHANGED <<skillRows, releases, archives, doomed, stored, minted, spent>> /\ UNCHANGED sandboxVars

\* Under the row's lock the version is claimed: the skill is there, its name
\* is the one the newest version has, and the number is free.
InsertSkillVersion(u) ==
    LET s == uploads[u].skill
        rows == Of(s)
    IN /\ uploads[u].at = "minted" /\ s \notin Imported /\ LockFree(s)
       /\ IF /\ skillRows[s].state = "live"
             /\ \A r \in rows : r.number = Newest(rows) => r.title = uploads[u].title
             /\ \A r \in rows : r.number # uploads[u].number
          THEN Claim(u) ELSE Refused(u)

\* The importer makes the skill's row where there is none.
ImportSkillDir(u) ==
    LET s == uploads[u].skill
    IN /\ uploads[u].at = "minted" /\ s \in Imported /\ LockFree(s)
       /\ IF \A r \in Of(s) : r.number # uploads[u].number THEN Claim(u) ELSE Refused(u)

\* The archive is stored before the commit; a put that fails rolls back.
PutArchive(u) ==
    /\ uploads[u].at = "claimed"
    /\ \/ Refused(u)
       \/ /\ archives' = {a \in archives : a.key # Key(u)} \union {[key |-> Key(u), copy |-> uploads[u].copy]}
          /\ uploads' = [uploads EXCEPT ![u].at = "stored"]
          /\ UNCHANGED <<skillRows, releases, doomed, stored, minted, spent>> /\ UNCHANGED sandboxVars

LatestBlind(s, n) == n

\* The latest version moves only to a newer one.
LatestAfter(s, n) == IF n > skillRows[s].latest THEN n ELSE skillRows[s].latest

DiscardUncommittedArchive(u) == {a \in archives : a.key # Key(u)}

\* The commit, or its failure with the archive removed or, failing that too,
\* left behind.
CommitUpload(u) ==
    LET s == uploads[u].skill
        n == uploads[u].number
    IN /\ uploads[u].at = "stored"
       /\ uploads' = [uploads EXCEPT ![u] = NoUpload]
       /\ \/ /\ skillRows' = [skillRows EXCEPT ![s] = [state |-> "live", latest |-> LatestAfter(s, n)]]
             /\ releases' = releases \union {[skill |-> s, number |-> n, title |-> uploads[u].title, copy |-> uploads[u].copy]}
             /\ UNCHANGED <<archives, spent>>
          \/ /\ spent.faults > 0
             /\ spent' = [spent EXCEPT !.faults = @ - 1]
             /\ archives' \in {archives, DiscardUncommittedArchive(u)}
             /\ UNCHANGED <<skillRows, releases>>
       /\ UNCHANGED <<doomed, stored, minted>> /\ UNCHANGED sandboxVars

\* A delete takes the skill, its versions and the debt of their archives in
\* one transaction.
DeleteSkill(s) ==
    /\ s \notin Imported /\ skillRows[s].state = "live" /\ LockFree(s)
    /\ skillRows' = [skillRows EXCEPT ![s] = [state |-> "gone", latest |-> 0]]
    /\ releases' = releases \ Of(s)
    /\ doomed' = doomed \union {<<s, r.number>> : r \in Of(s)}
    /\ UNCHANGED <<archives, uploads, stored, minted, spent>> /\ UNCHANGED sandboxVars

\* A skill's only version cannot be deleted.  No upload that minted the same
\* number is still on its way to the lock.
DeleteSkillVersion(r) ==
    LET rest == Of(r.skill) \ {r}
    IN /\ r.skill \notin Imported /\ LockFree(r.skill)
       /\ rest # {}
       /\ \A u \in Uploaders : Key(u) # <<r.skill, r.number>>
       /\ releases' = releases \ {r}
       /\ skillRows' = [skillRows EXCEPT ![r.skill].latest = Newest(rest)]
       /\ doomed' = doomed \union {<<r.skill, r.number>>}
       /\ UNCHANGED <<archives, uploads, stored, minted, spent>> /\ UNCHANGED sandboxVars

DrainArchive(k) ==
    /\ k \in doomed
    /\ doomed' = doomed \ {k}
    /\ archives' = {a \in archives : a.key # k}
    /\ UNCHANGED <<skillRows, releases, uploads, stored, minted, spent>> /\ UNCHANGED sandboxVars

-----------------------------------------------------------------------------
(* Materialization.                                                        *)

NoPass == [at |-> "idle", next |-> 1, version |-> 0, resolved |-> <<>>, misses |-> 0, landed |-> {}]

\* What a pin names, where it names anything: the latest version, or the one
\* it gives by id or by number.  A number is taken as it stands.
ResolveSkillVersion(ref) ==
    CASE ref.pin = "latest" -> IF skillRows[ref.skill].latest = 0 THEN {} ELSE {skillRows[ref.skill].latest}
      [] ref.pin = "id" -> {r.number : r \in {q \in Of(ref.skill) : q.number = ref.number}}
      [] ref.pin = "number" -> {ref.number}
      [] OTHER -> {}

SkillVersionMeta(ref, n) ==
    {[skill |-> ref.skill, number |-> n, dir |-> r.title, copy |-> r.copy] : r \in {q \in Of(ref.skill) : q.number = n}}

\* What the model is told of, read at once from the catalog.
ResolveSkillsBlock ==
    UNION {UNION {SkillVersionMeta(refs[i], n) : n \in ResolveSkillVersion(refs[i])} :
              i \in {k \in DOMAIN refs : \A j \in 1 .. k - 1 : refs[j].skill # refs[k].skill}}

Passing(p) == pass' = p /\ UNCHANGED catalogVars /\ UNCHANGED <<skillTree, skillMarker, spent, doubt>>

BeginPass ==
    /\ bundle = <<>> /\ pass = NoPass /\ spent.passes > 0
    /\ pass' = [NoPass EXCEPT !.at = "resolve"]
    /\ spent' = [spent EXCEPT !.passes = @ - 1]
    /\ UNCHANGED catalogVars /\ UNCHANGED <<skillTree, skillMarker, doubt>>

Ref == refs[pass.next]

Missed == [pass EXCEPT !.at = "resolve", !.next = @ + 1, !.misses = @ + 1]

Found(meta) == [pass EXCEPT !.at = "resolve", !.next = @ + 1, !.version = 0, !.resolved = Append(@, meta)]

\* The first reference to a skill wins; then its version, and in a second
\* read that version's row.  A worker gets both in one answer.
MaterializeSkills ==
    /\ pass.at = "resolve" /\ pass.next =< Len(refs)
    /\ IF \E j \in 1 .. pass.next - 1 : refs[j].skill = Ref.skill
       THEN Passing([pass EXCEPT !.next = @ + 1])
       ELSE /\ lane = "executor"
            /\ IF ResolveSkillVersion(Ref) = {} THEN Passing(Missed)
               ELSE Passing([pass EXCEPT !.at = "meta", !.version = CHOOSE n \in ResolveSkillVersion(Ref) : TRUE])

ReadMeta ==
    /\ pass.at = "meta"
    /\ LET metas == SkillVersionMeta(Ref, pass.version)
       IN Passing(IF metas = {} THEN [Missed EXCEPT !.version = 0] ELSE Found(CHOOSE m \in metas : TRUE))

SetupSkills ==
    /\ pass.at = "resolve" /\ pass.next =< Len(refs) /\ lane = "worker"
    /\ \A j \in 1 .. pass.next - 1 : refs[j].skill # Ref.skill
    /\ LET metas == UNION {SkillVersionMeta(Ref, n) : n \in ResolveSkillVersion(Ref)}
       IN Passing(IF metas = {} THEN Missed ELSE Found(CHOOSE m \in metas : TRUE))

Entries(metas) == {<<m.skill, m.number>> : m \in metas}

AllOf(seq) == {seq[i] : i \in DOMAIN seq}

\* The marker proves the resolved set landed: the same entries, and every
\* directory still holds its SKILL.md.
SentinelMatches(resolved) ==
    /\ skillMarker = {Entries(resolved)}
    /\ \A m \in resolved : \E f \in skillTree[m.dir] : f.name = <<Manifest>>

CheckSentinel ==
    /\ pass.at = "resolve" /\ pass.next > Len(refs)
    /\ Passing(IF pass.misses = 0 /\ SentinelMatches(AllOf(pass.resolved)) THEN NoPass
               ELSE [pass EXCEPT !.at = "land", !.next = 1])

\* The archive a download answers with: the executor reads storage, a worker
\* asks for a version that must still be there.
ReadArchive(m) ==
    {a \in archives : /\ a.key = <<m.skill, m.number>>
                      /\ a.copy = m.copy
                      /\ lane = "worker" => \E r \in releases : <<r.skill, r.number>> = a.key}

\* The files of a version.
FilesOf(m) == {[name |-> n, of |-> <<m.skill, m.number>>] : n \in {<<Manifest>>, <<m.skill, m.number>>}}

\* A write goes over what the directory holds: a file it does not name stays.
WriteFiles(dir, files) == {f \in skillTree[dir] : \A w \in files : w.name # f.name} \union files

\* One skill lands, is skipped, or is left half written.
MaterializeSkill ==
    LET m == pass.resolved[pass.next]
        on == [pass EXCEPT !.next = @ + 1]
    IN /\ pass.at = "land" /\ pass.next =< Len(pass.resolved)
       /\ UNCHANGED catalogVars /\ UNCHANGED skillMarker
       /\ \/ /\ ReadArchive(m) = {}
             /\ pass' = on
             /\ UNCHANGED <<skillTree, spent, doubt>>
          \/ /\ ReadArchive(m) # {}
             /\ pass' = [on EXCEPT !.landed = @ \union {m}]
             /\ skillTree' = [skillTree EXCEPT ![m.dir] = WriteFiles(m.dir, FilesOf(m))]
             /\ doubt' = TRUE
             /\ UNCHANGED spent
          \/ /\ ReadArchive(m) # {} /\ spent.faults > 0
             /\ spent' = [spent EXCEPT !.faults = @ - 1]
             /\ pass' = on
             /\ \E files \in SUBSET FilesOf(m) \ {FilesOf(m)} : skillTree' = [skillTree EXCEPT ![m.dir] = WriteFiles(m.dir, files)]
             /\ doubt' = TRUE

\* The marker records what landed, and no more; failing to write it is only
\* logged.
Sentinel ==
    /\ pass.at = "land" /\ pass.next > Len(pass.resolved)
    /\ pass' = NoPass
    /\ \/ skillMarker' = {Entries(pass.landed)} /\ doubt' = FALSE /\ UNCHANGED spent
       \/ /\ spent.faults > 0
          /\ spent' = [spent EXCEPT !.faults = @ - 1]
          /\ UNCHANGED <<skillMarker, doubt>>
    /\ UNCHANGED catalogVars /\ UNCHANGED skillTree

\* The process dies in the middle of a pass; a tool call removes a directory.
PassDies ==
    /\ pass # NoPass /\ spent.faults > 0
    /\ spent' = [spent EXCEPT !.faults = @ - 1]
    /\ pass' = NoPass
    /\ UNCHANGED catalogVars /\ UNCHANGED <<skillTree, skillMarker, doubt>>

ToolRemoves(t) ==
    /\ skillTree[t] # {} /\ spent.faults > 0
    /\ spent' = [spent EXCEPT !.faults = @ - 1]
    /\ skillTree' = [skillTree EXCEPT ![t] = {}]
    /\ UNCHANGED catalogVars /\ UNCHANGED <<skillMarker, pass, doubt>>

-----------------------------------------------------------------------------
SkillsInit ==
    /\ \E start \in Starts :
          /\ spent = [uploads |-> start.uploads, passes |-> start.passes, faults |-> start.faults]
          /\ skillRows = [s \in SkillIds |-> [state |-> IF start.versions = 0 THEN "none" ELSE "live", latest |-> start.versions]]
          /\ releases = {[skill |-> s, number |-> n, copy |-> 0,
                         title |-> IF s \in Imported THEN s ELSE CHOOSE t \in Titles : t \notin Imported] :
                            s \in SkillIds, n \in 1 .. start.versions}
          /\ minted = start.versions
    /\ archives = {[key |-> <<r.skill, r.number>>, copy |-> 0] : r \in releases}
    /\ doomed = {}
    /\ uploads = [u \in Uploaders |-> NoUpload] /\ stored = 0
    /\ \/ bundle = <<>> /\ spent.passes = 0 /\ lane = "executor" /\ refs = <<>>
       \/ bundle = <<>> /\ spent.passes > 0 /\ lane \in {"executor", "worker"} /\ refs \in Sessions
       \/ bundle \in Bundles /\ lane = "executor" /\ refs = <<>> /\ spent.uploads = 0
    /\ skillTree = [t \in Titles |-> {}] /\ skillMarker = {} /\ pass = NoPass
    /\ doubt = FALSE

SkillsNext ==
    \/ /\ spent.uploads > 0
       /\ \E u \in Uploaders, s \in SkillIds :
             \/ \E t \in Titles : CreateSkill(u, s, t) \/ CreateSkillVersion(u, s, t)
             \/ \E n \in 1 .. MaxVersion : ImportAnthropicSkills(u, s, n)
    \/ \E u \in Uploaders :
          \/ InsertSkillVersion(u) \/ ImportSkillDir(u) \/ PutArchive(u) \/ CommitUpload(u)
    \/ \E s \in SkillIds : DeleteSkill(s)
    \/ \E r \in releases : DeleteSkillVersion(r)
    \/ \E k \in doomed : DrainArchive(k)
    \/ BeginPass \/ MaterializeSkills \/ ReadMeta \/ SetupSkills \/ CheckSentinel
    \/ MaterializeSkill \/ Sentinel \/ PassDies
    \/ \E t \in Titles : ToolRemoves(t)

SkillsSpec == SkillsInit /\ [][SkillsNext]_skvars
-----------------------------------------------------------------------------
\* The registry is whole at every moment, and a sandbox that would be left
\* alone is right.  A skill has a version, its latest is the newest, all have
\* one name, and each has the archive it was stored with.  Where the marker
\* agrees with what the catalog resolves now, so that a pass would skip,
\* every directory the model is told of holds every file of the version it is
\* told of, as that version has it: a pass that wrote without recording it,
\* and two skills of one name, apart.  A file an earlier version had and this
\* one dropped may be there too (docs/DIVERGENCES.md): a write clears nothing.
\* An archive accepted on upload extracts, and its SKILL.md stands at the root.
SkillsAreWhole ==
    /\ \A s \in SkillIds :
          /\ skillRows[s].latest = Newest(Of(s))
          /\ skillRows[s].state = "live" <=> Of(s) # {}
          /\ \A r, q \in Of(s) : r.title = q.title /\ (r.number = q.number => r = q)
    /\ \A r \in releases : [key |-> <<r.skill, r.number>>, copy |-> r.copy] \in archives
    /\ (SentinelMatches(ResolveSkillsBlock) /\ ~ doubt) =>
          \A m \in ResolveSkillsBlock :
             (\A q \in ResolveSkillsBlock : q.dir = m.dir => q = m) => FilesOf(m) \subseteq skillTree[m.dir]
    /\ (FromZip(bundle) \/ FromFiles(bundle)) =>
          \E f \in Extract(bundle) : f.path = <<Manifest>>
=============================================================================
