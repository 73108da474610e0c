------------------------------ MODULE Mounts ------------------------------
(***************************************************************************)
(* What a session is made of: its environment, vaults and mounted          *)
(* resources (src/internal/api/sessions.go, sessionresources.go).          *)
(*                                                                         *)
(* A path is a record of whether it is absolute and its segments, "." and  *)
(* ".." among them; a mount path is the segments of a clean absolute one.  *)
(* A memory store's name is the sequence of the pieces its slug is made    *)
(* of, so a suffix is one more piece.  Creating a session is one           *)
(* transaction that takes shared locks row by row and holds them to its    *)
(* commit.  Requests refused for their form, for a running session, a      *)
(* dream's session or a missing read tool change nothing and are left out. *)
(***************************************************************************)
EXTENDS Integers, Sequences, SequencesExt, FiniteSets

CONSTANTS
    MountFiles, MountStores,
    SlugOf,             \* store -> its name's slug
    SuffixTries,           \* "-2", "-3", ... : the suffixes tried in turn
    MemoryNameMax,
    CreateRequests,     \* the resource lists creations give
    AddRequests,        \* the file resources added later
    PathProbes          \* raw paths resolved on their own

VARIABLES
    world,              \* "env", "vault", each file and store -> live, archived or gone
    creation,           \* the transaction creating the session
    made,               \* the session: status, resources, credentials
    rawPath

mvars == <<world, creation, made, rawPath>>

NoCreation == [step |-> "none", inputs |-> <<>>, begun |-> FALSE]

Unmade == [status |-> "none", resources |-> <<>>, credentials |-> {}, sound |-> TRUE]

MountsInit ==
    /\ world = [x \in {"env", "vault"} \union MountFiles \union MountStores |-> "live"]
    /\ creation = NoCreation
    /\ made = Unmade
    /\ rawPath \in PathProbes

---------------------------------------------------------------------------
(* Paths.                                                                  *)

DefaultMountRoot == <<"mnt", "session", "uploads">>
DefaultRepoMountRoot == <<"workspace">>
MemoryMountParent == <<"mnt", "memory">>

\* path.Clean: "." goes, ".." takes the segment before it and stops at the
\* root; a relative path keeps the ".." it cannot resolve.
Clean(p) ==
    FoldLeft(LAMBDA out, s :
                 CASE s = "." -> out
                   [] s = ".." /\ out # <<>> -> IF Last(out) = ".." THEN Append(out, s) ELSE Front(out)
                   [] s = ".." /\ out = <<>> -> IF p.abs THEN out ELSE <<s>>
                   [] OTHER -> Append(out, s),
             <<>>, p.segs)

ProperPathAncestor(a, b) == IsStrictPrefix(a, b)

\* A refused path is <<>>.  Under the uploads root, by its name or its
\* alias, or joined to it; the alias alone means the file's default.
ResolveMountPath(p, file) ==
    LET clean == Clean(p)
        resolved ==
            IF p.abs /\ IsPrefix(DefaultMountRoot, clean) THEN clean
            ELSE IF clean = <<"uploads">> THEN Append(DefaultMountRoot, file)
            ELSE IF clean # <<>> /\ clean[1] = "uploads" THEN DefaultMountRoot \o Tail(clean)
            ELSE Clean([abs |-> TRUE, segs |-> DefaultMountRoot \o clean])
    IN  IF ProperPathAncestor(DefaultMountRoot, resolved) THEN resolved ELSE <<>>

\* Wrong: joins without looking for a path that climbs out.
ResolveRepoMountPathJoined(p, repo) ==
    LET clean == Clean(p)
        rel == IF p.abs /\ IsPrefix(DefaultRepoMountRoot, clean) THEN Tail(clean)
               ELSE IF ~p.abs /\ Len(clean) > 1 /\ clean[1] = "workspace" THEN Tail(clean)
               ELSE clean
        resolved == Clean([abs |-> TRUE, segs |-> DefaultRepoMountRoot \o rel])
    IN  IF resolved = DefaultRepoMountRoot THEN Append(resolved, repo) ELSE resolved

\* Rooted at /workspace, once; a path that climbs out is refused, and the
\* root itself means the repository's default below it.
ResolveRepoMountPath(p, repo) ==
    LET clean == Clean(p)
        rel == IF p.abs /\ IsPrefix(DefaultRepoMountRoot, clean) THEN Tail(clean)
               ELSE IF ~p.abs /\ Len(clean) > 1 /\ clean[1] = "workspace" THEN Tail(clean)
               ELSE clean
    IN  IF rel # <<>> /\ rel[1] = ".." THEN <<>>
        ELSE IF rel = <<>> THEN Append(DefaultRepoMountRoot, repo)
        ELSE DefaultRepoMountRoot \o rel

---------------------------------------------------------------------------
(* Requests: [kind, name, path], the path omitted when it has no segments. *)

FileResource(in) ==
    IF in.path.segs = <<>> THEN Append(DefaultMountRoot, in.name) ELSE ResolveMountPath(in.path, in.name)

RepoResource(in) == ResolveRepoMountPath(in.path, in.name)

\* A store's path is its name's, and never the request's.
MemoryResource(in) == MemoryMountParent \o SlugOf[in.name]

MountOf(in) ==
    CASE in.kind = "file" -> FileResource(in)
      [] in.kind = "repo" -> RepoResource(in)
      [] in.kind = "memory" -> MemoryResource(in)

\* What parseResources lets through: every path resolves, no two files or
\* repositories share one, no repository lies above another, and no store is
\* attached twice.
ParseResources(inputs) ==
    LET pathed == {i \in DOMAIN inputs : inputs[i].kind # "memory"}
        repos == {i \in DOMAIN inputs : inputs[i].kind = "repo"}
    IN  /\ \A i \in pathed : MountOf(inputs[i]) # <<>>
        /\ \A i, j \in pathed : MountOf(inputs[i]) = MountOf(inputs[j]) => i = j
        /\ \A i, j \in DOMAIN inputs \ pathed : inputs[i].name = inputs[j].name => i = j
        /\ \A i, j \in repos : ~ProperPathAncestor(MountOf(inputs[i]), MountOf(inputs[j]))

\* Shortened when the suffix would not fit.
Suffixed(slug, n) ==
    Append(IF Len(slug) + 1 > MemoryNameMax THEN SubSeq(slug, 1, MemoryNameMax - 1) ELSE slug, SuffixTries[n])

\* The stores' mounts, in order: the first with a slug keeps it, then each
\* later one takes the first suffix nothing has claimed.
SuffixCollidingMemoryMounts(slugs) ==
    LET lost == {i \in DOMAIN slugs : \E j \in 1 .. i - 1 : slugs[j] = slugs[i]}
        kept == {slugs[i] : i \in DOMAIN slugs \ lost}
    IN  FoldLeft(LAMBDA out, i :
                     IF i \notin lost THEN Append(out, slugs[i])
                     ELSE LET claimed == kept \union Range(out)
                              n == CHOOSE n \in DOMAIN SuffixTries :
                                      /\ Suffixed(slugs[i], n) \notin claimed
                                      /\ \A m \in 1 .. n - 1 : Suffixed(slugs[i], m) \in claimed
                          IN  Append(out, Suffixed(slugs[i], n)),
                 <<>>, [i \in DOMAIN slugs |-> i])

\* The stored resources; each repository's token is sealed beside its id.
MaterializeResourceInputs(inputs) ==
    LET stores == SelectSeq(inputs, LAMBDA in : in.kind = "memory")
        mounts == SuffixCollidingMemoryMounts([i \in DOMAIN stores |-> SlugOf[stores[i].name]])
    IN  [i \in DOMAIN inputs |->
            [kind |-> inputs[i].kind, name |-> inputs[i].name,
             mount |-> IF inputs[i].kind # "memory" THEN MountOf(inputs[i])
                       ELSE MemoryMountParent \o mounts[CHOOSE j \in DOMAIN stores : stores[j] = inputs[i]]]]

Repos(resources) == {resources[i].name : i \in {i \in DOMAIN resources : resources[i].kind = "repo"}}

Named(inputs, kind) == {inputs[i].name : i \in {i \in DOMAIN inputs : inputs[i].kind = kind}}

---------------------------------------------------------------------------
(* Creating a session.                                                     *)

Reached(step) ==
    {"env"} \union (IF step \in {"vaults", "files", "made"} THEN {"vault"} ELSE {})
            \union (IF step \in {"files", "made"} THEN Named(creation.inputs, "file") ELSE {})
            \union (IF step = "made" THEN Named(creation.inputs, "memory") ELSE {})

\* The rows the transaction holds FOR SHARE.
Held(x) == creation.step # "none" /\ x \in Reached(creation.step)

\* The environment is locked and live; begun says events come with it.
CreateSession(inputs, begun) ==
    /\ creation = NoCreation /\ made = Unmade
    /\ ParseResources(inputs)
    /\ world["env"] = "live"
    /\ creation' = [step |-> "env", inputs |-> inputs, begun |-> begun]
    /\ UNCHANGED <<world, made, rawPath>>

Refused == creation' = NoCreation /\ UNCHANGED <<world, made, rawPath>>

Advance(step) == creation' = [creation EXCEPT !.step = step] /\ UNCHANGED <<world, made, rawPath>>

ValidateAttachedVaults ==
    /\ creation.step = "env"
    /\ IF world["vault"] = "live" THEN Advance("vaults") ELSE Refused

\* Every mount's source row, in one order; whether they live is for later.
LockFileRows ==
    /\ creation.step = "vaults"
    /\ Advance("files")

\* Each store is locked and live; each file's live row is copied.
SnapshotAndCopy ==
    /\ creation.step = "files"
    /\ IF \A x \in Named(creation.inputs, "file") \union Named(creation.inputs, "memory") : world[x] = "live"
       THEN Advance("made") ELSE Refused

CreateSessionInTx ==
    /\ creation.step = "made"
    /\ LET resources == MaterializeResourceInputs(creation.inputs)
       IN  made' = [status |-> IF creation.begun THEN "running" ELSE "idle",
                    resources |-> resources,
                    credentials |-> Repos(resources),
                    sound |-> \A x \in Reached("made") : world[x] = "live"]
    /\ creation' = NoCreation
    /\ UNCHANGED <<world, rawPath>>

---------------------------------------------------------------------------
(* Its resources, under the session's row lock.                            *)

AddSessionResource(in) ==
    /\ made.status \in {"idle", "running"}
    /\ MountOf(in) # <<>>
    /\ \A i \in DOMAIN made.resources :
          /\ made.resources[i].mount # MountOf(in)
          /\ made.resources[i].kind = "repo" => ~ProperPathAncestor(MountOf(in), made.resources[i].mount)
    /\ world[in.name] = "live"
    /\ made' = [made EXCEPT !.resources = Append(@, [kind |-> "file", name |-> in.name, mount |-> MountOf(in)])]
    /\ UNCHANGED <<world, creation, rawPath>>

\* A repository stays; a store's entry has no id to be addressed by.
DeleteSessionResource(i) ==
    /\ made.status \in {"idle", "running"}
    /\ made.resources[i].kind = "file"
    /\ made' = [made EXCEPT !.resources = RemoveAt(@, i)]
    /\ UNCHANGED <<world, creation, rawPath>>

\* The credential row must be there to be replaced.
RotateResourceToken(i) ==
    /\ made.status \in {"idle", "running"}
    /\ made.resources[i].kind = "repo"
    /\ made.resources[i].name \in made.credentials
    /\ made' = [made EXCEPT !.credentials = (@ \ {made.resources[i].name}) \union {made.resources[i].name}]
    /\ UNCHANGED <<world, creation, rawPath>>

SessionSettles ==
    /\ made.status = "running"
    /\ made' = [made EXCEPT !.status = "idle"]
    /\ UNCHANGED <<world, creation, rawPath>>

ArchiveSession ==
    /\ made.status = "idle"
    /\ made' = [made EXCEPT !.status = "archived"]
    /\ UNCHANGED <<world, creation, rawPath>>

\* With its rows, its resources and its credentials.
DeleteSession ==
    /\ made.status \in {"idle", "archived"}
    /\ made' = Unmade
    /\ UNCHANGED <<world, creation, rawPath>>

---------------------------------------------------------------------------
(* What it names, changed by others.                                       *)

Archive(x) ==
    /\ x \notin MountFiles /\ world[x] = "live" /\ ~Held(x)
    /\ world' = [world EXCEPT ![x] = "archived"]
    /\ UNCHANGED <<creation, made, rawPath>>

\* An environment a session uses is not deleted.
Delete(x) ==
    /\ world[x] # "gone" /\ ~Held(x)
    /\ x = "env" => made.status = "none"
    /\ world' = [world EXCEPT ![x] = "gone"]
    /\ UNCHANGED <<creation, made, rawPath>>

\* A behaviour follows a session, or looks at one raw path.
MountsNext ==
    /\ rawPath.segs = <<>>
    /\ \/ /\ made = Unmade
          /\ \E inputs \in CreateRequests, begun \in BOOLEAN : CreateSession(inputs, begun)
       \/ ValidateAttachedVaults \/ LockFileRows \/ SnapshotAndCopy \/ CreateSessionInTx
       \/ \E in \in AddRequests : AddSessionResource(in)
       \/ \E i \in DOMAIN made.resources : DeleteSessionResource(i) \/ RotateResourceToken(i)
       \/ SessionSettles \/ ArchiveSession \/ DeleteSession
       \/ \E x \in DOMAIN world : Archive(x) \/ Delete(x)

---------------------------------------------------------------------------
(* Properties                                                              *)

\* A session gets what it names, each thing at a place of its own.  A given
\* path is refused or resolves strictly below its kind's root, and a resolved
\* path given back means the same place (resolveMountPath,
\* resolveRepoMountPath).  No two resources of a session share a mount,
\* whatever was added and removed since, and no repository contains another;
\* stores whose names collide are told apart (suffixCollidingMemoryMounts).
\* Every repository has its sealed token, and the environment, the vaults, the
\* files and the stores the session named were live when it was committed
\* (createSessionInTx); its agent is read without a lock, and may by then have
\* been archived (resolveAgent).
MountsAreApart ==
    /\ \A path \in {ResolveMountPath(rawPath, "f")} \ {<<>>} :
          /\ IsStrictPrefix(DefaultMountRoot, path) /\ ".." \notin Range(path)
          /\ ResolveMountPath([abs |-> TRUE, segs |-> path], "f") = path
    /\ \A path \in {ResolveRepoMountPath(rawPath, "r")} \ {<<>>} :
          /\ IsStrictPrefix(DefaultRepoMountRoot, path) /\ ".." \notin Range(path)
          /\ ResolveRepoMountPath([abs |-> TRUE, segs |-> path], "r") = path
    /\ \A i, j \in DOMAIN made.resources : i # j =>
          /\ made.resources[i].mount # made.resources[j].mount
          /\ {made.resources[i].kind, made.resources[j].kind} = {"repo"} =>
                ~IsStrictPrefix(made.resources[i].mount, made.resources[j].mount)
    /\ Repos(made.resources) \subseteq made.credentials
    /\ made.sound

===========================================================================
