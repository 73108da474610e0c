----------------------------- MODULE Listings -----------------------------
(***************************************************************************)
(* The paged lists of the API (src/internal/api/page.go and the list       *)
(* handlers): a client walks a list page by page while rows are inserted,  *)
(* archived, changed and deleted under it.                                 *)
(*                                                                         *)
(* A row is an id of RowIds, which is also its rank where ids break ties,  *)
(* its version or its sequence number.  What a handler filters by is       *)
(* abstracted to three facts of a row: its group (the scope, agent,        *)
(* thread, source, trigger or type a query names), whether it is internal, *)
(* and its condition.  "flagged" stands for what each      *)
(* table's status column tells apart: a paused deployment, a terminated    *)
(* session, a failed run, an ended dream, a disabled principal, a revoked  *)
(* key.  A leg is a walk in one direction from a cursor the API gave out,  *)
(* or from no cursor.                                                      *)
(***************************************************************************)
EXTENDS Integers, Sequences, FiniteSets, FiniteSetsExt, SequencesExt

CONSTANTS
    RowIds,             \* row ids, a range of naturals
    CreatedAt,          \* the created_at of each
    Group,              \* the group of each
    Internal,           \* the ids of internal rows
    Rolled,             \* at depth 1, the directory of each memory, or 0
    Unnamed,            \* a query that names no group
    Endpoints, Requests,
    Tables,             \* the tables a walk may begin over
    MaxTableChanges

VARIABLES
    listing,            \* the endpoint called and the request's parameters
    table,              \* each row's condition, or "absent"
    leg                 \* the client's walk and what was there throughout

lvars == <<listing, table, leg>>

NoCursor == [dir |-> "n", kind |-> "none", pos |-> <<0, 0>>]

Present == {i \in RowIds : table[i] # "absent"}
Archived == {i \in RowIds : table[i] = "archived"}
Flagged == {i \in RowIds : table[i] = "flagged"}

---------------------------------------------------------------------------
(* Cursors.                                                                *)

\* The position a row has in a list of each kind; a version, a sequence
\* number or a path decodes to no time and no id.
Position(kind, i) == IF kind = "time" THEN <<CreatedAt[i], i>> ELSE <<i, 0>>

Before(p, q) == p[1] < q[1] \/ (p[1] = q[1] /\ p[2] < q[2])

\* A list refuses a cursor of a kind or a direction it does not issue.
Accepts(L, cur) ==
    \/ cur = NoCursor
    \/ cur.kind = L.kind /\ (cur.dir = "n" \/ L.both)

\* The rows in a list's own order.
Ordered(S, kind, ascending) ==
    LET rank(i) == Cardinality({j \in S : IF ascending
                                           THEN Before(Position(kind, j), Position(kind, i))
                                           ELSE Before(Position(kind, i), Position(kind, j))})
    IN  [k \in 1 .. Cardinality(S) |-> CHOOSE i \in S : rank(i) = k - 1]

\* Wrong: the comparison leaves out the id that breaks ties.
KeysetClauseByTime(L, cur) ==
    LET ascending == (L.sort = "ASC") = (cur.dir = "n")
    IN  [ascending |-> ascending,
         rows |-> IF cur = NoCursor THEN L.rows
                  ELSE {i \in L.rows : IF ascending THEN cur.pos[1] < Position(L.kind, i)[1]
                                                    ELSE Position(L.kind, i)[1] < cur.pos[1]}]

\* The rows past a cursor, and the order they are fetched in: a page before
\* the cursor is fetched against the list's order.
KeysetClause(L, cur) ==
    LET ascending == (L.sort = "ASC") = (cur.dir = "n")
    IN  [ascending |-> ascending,
         rows |-> IF cur = NoCursor THEN L.rows
                  ELSE {i \in L.rows : IF ascending THEN Before(cur.pos, Position(L.kind, i))
                                                    ELSE Before(Position(L.kind, i), cur.pos)}]

Edge(L, dir, i) == [dir |-> dir, kind |-> L.kind, pos |-> Position(L.kind, i)]

\* next_page and prev_page of a list that pages both ways.
PageEdges(L, data, more, cur) ==
    LET back == cur.dir = "p"
    IN  [next |-> IF data # <<>> /\ (back \/ more) THEN Edge(L, "n", Last(data)) ELSE NoCursor,
         prev |-> IF data # <<>> /\ (IF back THEN more ELSE cur # NoCursor)
                  THEN Edge(L, "p", data[1]) ELSE NoCursor]

\* One page: limit + 1 rows are fetched, the last only to know of more.
Page(L, cur, limit) ==
    LET clause  == KeysetClause(L, cur)
        fetched == Ordered(clause.rows, L.kind, clause.ascending)
        more    == Len(fetched) > limit
        kept    == SubSeq(fetched, 1, Min({limit, Len(fetched)}))
        data    == IF cur.dir = "p" THEN Reverse(kept) ELSE kept
    IN  [data |-> data,
         edges |-> IF L.both THEN PageEdges(L, data, more, cur)
                   ELSE [next |-> IF more \/ (L.trailing /\ Len(data) = limit /\ Last(data) \in L.prefixes)
                                  THEN Edge(L, "n", Last(data)) ELSE NoCursor,
                         prev |-> NoCursor]]

---------------------------------------------------------------------------
(* The handlers: which rows a request lists, and in which order.           *)

List(kind, sort, rows) ==
    [kind |-> kind, sort |-> sort, rows |-> rows, lane |-> "keyset",
     both |-> FALSE, trailing |-> FALSE, prefixes |-> {}]

Live(q) == IF q.archived THEN Present ELSE Present \ Archived
Named(q) == {i \in RowIds : q.group = Unnamed \/ Group[i] = q.group}
Since(q) == {i \in RowIds : CreatedAt[i] >= q.since}

\* A status filter, where the request sends one.
Status(q) ==
    CASE q.status = "any" -> RowIds
      [] q.status = "flagged" -> Flagged
      [] q.status = "unflagged" -> RowIds \ Flagged

ListAgents(q) == List("time", "DESC", (Live(q) \ Internal) \intersect Since(q))
ListAgentVersions(q) == List("version", "DESC", Present)
ListEnvironments(q) == List("time", "DESC", Live(q) \ Internal)
ListVaults(q) == List("time", "DESC", Live(q))
ListVaultCredentials(q) == List("time", "DESC", Live(q))
ListMemoryStores(q) == List("time", "DESC", Live(q) \intersect Since(q))
ListMemoryVersions(q) == List("time", "DESC", Present \intersect Named(q) \intersect Since(q))
ListDeployments(q) == List("time", "DESC", Live(q) \intersect Status(q) \intersect Named(q) \intersect Since(q))
ListDreams(q) == List("time", "DESC", Live(q) \intersect Status(q) \intersect Since(q))
ListSkills(q) == List("time", "DESC", Present \intersect Named(q))
ListSkillVersions(q) == List("time", "DESC", Present)
ListServiceAccounts(q) == List("time", "DESC", IF q.archived THEN Present ELSE Present \ Flagged)
ListWork(q) == List("time", "DESC", {i \in Present : Group[i] = q.group})
ListThreads(q) == List("time", "ASC", Present)

\* A run is unsettled, succeeded ("archived" here) or failed.
ListDeploymentRuns(q) ==
    List("time", "DESC",
         Named(q) \intersect Since(q) \intersect
             (CASE q.status = "any" -> Present
                [] q.status = "flagged" -> Flagged
                [] q.status = "unflagged" -> Archived))

\* Terminated sessions are listed when archived ones are or a status is named.
ListSessions(q) ==
    [List("time", IF q.ascending THEN "ASC" ELSE "DESC",
          (IF q.archived \/ q.status # "any" THEN Live(q) ELSE Live(q) \ Flagged)
              \intersect Status(q) \intersect Named(q) \intersect Since(q))
        EXCEPT !.both = TRUE]

\* The events of a session, or of one of its threads.
ListEvents(q) == List(IF q.ascending THEN "seqasc" ELSE "seqdesc", IF q.ascending THEN "ASC" ELSE "DESC",
                      Present \intersect Named(q))

\* At depth 1 a memory below a directory is listed as the directory, once;
\* a full last page that ends on a directory still carries a cursor.
ListMemories(q) ==
    IF q.status = "any" THEN List("time", "DESC", Present)
    ELSE LET dirs == {Rolled[i] : i \in Present} \ {0}
         IN  [List("path", "ASC", {i \in Present : Rolled[i] = 0} \union dirs)
                 EXCEPT !.trailing = TRUE, !.prefixes = dirs]

\* The files of a scope, walked by page tokens.
ListFiles(q) == List("time", "DESC", {i \in Present : Group[i] = q.group})

\* The same files walked by after_id and before_id.
ListFilesById(q) == [ListFiles(q) EXCEPT !.lane = "id", !.both = TRUE]

\* The active members, walked by id; a member's row is never deleted.
ListMembers(q) == [List("time", "DESC", (Present \ Flagged) \intersect Named(q)) EXCEPT !.lane = "id", !.both = TRUE]

\* A session's resources in the order they were attached.
ListSessionResources(q) == [List("index", "ASC", Present) EXCEPT !.lane = "id"]

\* An environment's keys, by limit and offset.
ListEnvironmentKeys(q) == [List("time", "DESC", Present \ Flagged) EXCEPT !.lane = "offset"]

Listing ==
    LET q == listing.request
    IN  CASE listing.endpoint = "agents" -> ListAgents(q)
          [] listing.endpoint = "agent versions" -> ListAgentVersions(q)
          [] listing.endpoint = "environments" -> ListEnvironments(q)
          [] listing.endpoint = "vaults" -> ListVaults(q)
          [] listing.endpoint = "vault credentials" -> ListVaultCredentials(q)
          [] listing.endpoint = "memory stores" -> ListMemoryStores(q)
          [] listing.endpoint = "memory versions" -> ListMemoryVersions(q)
          [] listing.endpoint = "memories" -> ListMemories(q)
          [] listing.endpoint = "deployments" -> ListDeployments(q)
          [] listing.endpoint = "deployment runs" -> ListDeploymentRuns(q)
          [] listing.endpoint = "dreams" -> ListDreams(q)
          [] listing.endpoint = "skills" -> ListSkills(q)
          [] listing.endpoint = "skill versions" -> ListSkillVersions(q)
          [] listing.endpoint = "service accounts" -> ListServiceAccounts(q)
          [] listing.endpoint = "work" -> ListWork(q)
          [] listing.endpoint = "threads" -> ListThreads(q)
          [] listing.endpoint = "sessions" -> ListSessions(q)
          [] listing.endpoint = "events" -> ListEvents(q)
          [] listing.endpoint = "files by id" -> ListFilesById(q)
          [] listing.endpoint = "members" -> ListMembers(q)
          [] listing.endpoint = "session resources" -> ListSessionResources(q)
          [] listing.endpoint = "environment keys" -> ListEnvironmentKeys(q)
          [] OTHER -> ListFiles(q)

\* A page of an id-keyed list: an id that names no row gives an empty page.
NoPage == [data |-> <<>>, edges |-> [next |-> NoCursor, prev |-> NoCursor]]
NamedRow(cur) == IF cur.kind = "time" THEN cur.pos[2] ELSE cur.pos[1]
Lost(L, cur) == L.lane = "id" /\ cur # NoCursor /\ NamedRow(cur) \notin Present

\* has_more of a page of rows counted from the newest.
OffsetPage(L, cur, limit) ==
    LET all  == Ordered(L.rows, L.kind, FALSE)
        data == SubSeq(all, cur.pos[1] + 1, Min({cur.pos[1] + limit, Len(all)}))
    IN  [data |-> data,
         edges |-> [next |-> IF cur.pos[1] + Len(data) < Len(all)
                             THEN [dir |-> "n", kind |-> L.kind, pos |-> <<cur.pos[1] + limit, 0>>]
                             ELSE NoCursor,
                    prev |-> NoCursor]]

Answer(L, cur, limit) ==
    CASE L.lane = "offset" -> OffsetPage(L, cur, limit)
      [] Lost(L, cur) -> NoPage
      [] OTHER -> Page(L, cur, limit)

---------------------------------------------------------------------------
(* The client and the rows.                                                *)

\* The listed items past a cursor, however they are fetched.
Beyond(L, cur) ==
    IF cur = NoCursor THEN L.rows
    ELSE {i \in L.rows : IF (L.sort = "ASC") = (cur.dir = "n")
                         THEN Before(cur.pos, Position(L.kind, i)) ELSE Before(Position(L.kind, i), cur.pos)}

\* Rows that only ever follow every other: versions, events, resources.
Appended == {"agent versions", "events", "session resources"}

\* Tables whose rows are never deleted on their own.
Kept == {"agents", "agent versions", "events", "deployments", "deployment runs", "dreams", "work", "threads",
         "members", "service accounts", "environment keys"}

\* Tables whose flag is also taken back.
Resumed == {"deployments"}

\* The conditions of each table's rows.
Conditions(e) ==
    {"live"}
        \union (IF e \in {"agents", "environments", "vaults", "vault credentials", "memory stores", "deployments",
                          "deployment runs", "dreams", "sessions"} THEN {"archived"} ELSE {})
        \union (IF e \in {"deployments", "deployment runs", "dreams", "sessions", "service accounts", "members",
                          "environment keys"} THEN {"flagged"} ELSE {})

NewLeg(from, items, left, turns) ==
    [dir |-> from.dir, at |-> from, turn |-> NoCursor, seen |-> {}, repeated |-> FALSE, ended |-> FALSE,
     excused |-> FALSE, steady |-> items, left |-> left, turns |-> turns]

\* Cursors of lists that are keyed otherwise, or that page backwards.
ForeignCursors(L) ==
    {[dir |-> "n", kind |-> k, pos |-> <<0, 0>>] : k \in {"version", "path"} \ {L.kind}}
        \union (IF L.both THEN {} ELSE {[dir |-> "p", kind |-> L.kind, pos |-> <<0, 0>>]})

ListInit ==
    /\ listing \in [endpoint : Endpoints, request : Requests]
    /\ listing.endpoint = "deployments" => ~(listing.request.archived /\ listing.request.status # "any")
    /\ table \in Tables /\ ToSet(table) \subseteq Conditions(listing.endpoint) \union {"absent"}
    /\ \E from \in {NoCursor} \union (IF Listing.lane = "keyset" THEN ForeignCursors(Listing) ELSE {}) :
           leg = NewLeg(from, Listing.rows, MaxTableChanges, 1)

\* The client asks for the next page of its leg.
Fetch ==
    LET L    == Listing
        page == Answer(L, leg.at, listing.request.limit)
        on   == IF leg.dir = "n" THEN page.edges.next ELSE page.edges.prev
        back == IF leg.dir = "n" THEN page.edges.prev ELSE page.edges.next
    IN  /\ ~leg.ended
        /\ leg' = IF ~Accepts(L, leg.at) THEN [leg EXCEPT !.ended = TRUE, !.excused = TRUE]
                  ELSE [leg EXCEPT !.at = on, !.turn = back, !.ended = on = NoCursor,
                                   !.seen = @ \union ToSet(page.data),
                                   !.repeated = @ \/ leg.seen \intersect ToSet(page.data) # {},
                                   !.excused = @ \/ Lost(L, leg.at)]
        /\ UNCHANGED <<listing, table>>

\* The client follows the other cursor of the page it holds.
TurnRound ==
    /\ leg.turn # NoCursor /\ leg.turns > 0
    /\ leg' = NewLeg(leg.turn, Beyond(Listing, leg.turn), leg.left, leg.turns - 1)
    /\ UNCHANGED <<listing, table>>

\* A row is inserted, moves on, or is deleted by another request.
ChangeRow(i) ==
    /\ leg.left > 0 /\ ~leg.ended
    /\ \E to \in Conditions(listing.endpoint) \union {"absent"} :
          /\ to # table[i]
          /\ table[i] = "absent" => to = "live"
          /\ to = "absent" => listing.endpoint \notin Kept
          /\ to = "live" => table[i] = "absent" \/ (table[i] = "flagged" /\ listing.endpoint \in Resumed)
          /\ table[i] = "absent" /\ listing.endpoint \in Appended => \A j \in Present : j < i
          /\ table' = [table EXCEPT ![i] = to]
    /\ UNCHANGED listing
    /\ leg' = [leg EXCEPT !.left = @ - 1, !.steady = @ \intersect Listing.rows',
                          !.excused = @ \/ Listing.lane = "offset"]

ListNext ==
    \/ Fetch
    \/ TurnRound
    \/ \E i \in RowIds : ChangeRow(i)

---------------------------------------------------------------------------
(* Properties                                                              *)

\* Concurrent inserts, changes and deletes never make a walk skip or repeat
\* a row: a walk that has ended showed every row that was listed all along,
\* and no walk shows a row twice.  Excused are a walk refused for a cursor
\* of another list, one whose id cursor names a row since deleted, and one
\* counted by offsets over a table that changed (page.go, the list handlers).
PagesNeitherSkipNorRepeat ==
    ~leg.excused => ~leg.repeated /\ (leg.ended => leg.steady \subseteq leg.seen)

===========================================================================

