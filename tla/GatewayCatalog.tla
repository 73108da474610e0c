-------------------------- MODULE GatewayCatalog ---------------------------
(***************************************************************************)
(* The model gateway's configuration (internal/modelgateway/store, admin   *)
(* and catalog) and the keys it keeps opened.  Operators write providers,  *)
(* credentials, deployments, aliases and key grants through transactions   *)
(* of several statements; row locks and foreign keys are what keeps them   *)
(* consistent.  Every gateway replica serves from a snapshot it reloads on *)
(* a notification and on a timer, routes a call on it, and opens the       *)
(* routed credential's sealed key through a cache pruned when the snapshot *)
(* changes.                                                                *)
(***************************************************************************)
EXTENDS Integers, FiniteSets

CONSTANTS
    Providers, Credentials, Deployments, AliasNames, Keys,
    Admins,         \* transactions that may be open at once
    Callers,        \* inference calls in flight at once
    Kinds,          \* deployment kinds; "embedding" is one of them
    MaxReloads      \* snapshots a run may load

VARIABLES
    cfgdb,      \* the tables of the schema modelgateway
    cfgtx,      \* the transaction each admin has open
    catalog,    \* [ver, db]: the current snapshot
    opened,     \* [keys, from]: the opened keys and the snapshot pruned from
    inflight       \* what each call routed and how far its open has come

cvars == <<cfgdb, cfgtx, catalog, opened, inflight>>

Idle == [op |-> "idle", row |-> "", arg |-> {}]

-----------------------------------------------------------------------------
(* Rows.  An id is minted once and never reused; an alias name may be.     *)

Live(state) == state \in {"on", "off"}
Provided == {p \in Providers : Live(cfgdb.provider[p])}
Deployed == {d \in Deployments : Live(cfgdb.deployment[d].state)}
Aliased == {a \in AliasNames : cfgdb.alias[a] # {}}
KindOf(d) == cfgdb.deployment[d].kind

\* What a transaction holds until it ends: FOR SHARE (or a foreign key's
\* KEY SHARE) and FOR UPDATE row locks.
Shares(t) ==
    CASE t.op \in {"createAlias", "updateAlias", "putKeyPolicy"} -> t.arg
      [] t.op \in {"createDeployment", "createCredential", "updateCredential"} ->
           t.arg
      [] OTHER -> {}
Updates(t) ==
    IF t.op \in {"updateAlias", "deleteAlias"} THEN {t.row} ELSE {}

Others(adm) == {cfgtx[b] : b \in Admins \ {adm}}
MayShare(adm, rows) == \A t \in Others(adm) : Updates(t) \cap rows = {}
MayUpdate(adm, rows) ==
    \A t \in Others(adm) : (Updates(t) \cup Shares(t)) \cap rows = {}

\* store.write: the statements up to the last lock, then the rest with the
\* commit and its notification.  A refused request changes nothing and is
\* left out.
Open(adm, op, row, arg) ==
    /\ cfgtx[adm] = Idle
    /\ cfgtx' = [cfgtx EXCEPT ![adm] = [op |-> op, row |-> row, arg |-> arg]]
    /\ UNCHANGED <<cfgdb, catalog, opened, inflight>>

Done(adm, db) ==
    /\ cfgdb' = db
    /\ cfgtx' = [cfgtx EXCEPT ![adm] = Idle]
    /\ UNCHANGED <<catalog, opened, inflight>>

-----------------------------------------------------------------------------
(* Providers, credentials and deployments.                                 *)

InsertProvider(p) == [cfgdb EXCEPT !.provider[p] = "on"]
SetProvider(p, s) == [cfgdb EXCEPT !.provider[p] = s]
SetCredential(c, s) == [cfgdb EXCEPT !.credential[c].state = s]
SetDeployment(d, s) == [cfgdb EXCEPT !.deployment[d].state = s]

CreateProvider(adm, p) ==
    /\ cfgdb.provider[p] = "new" /\ cfgtx[adm] = Idle
    /\ Done(adm, InsertProvider(p))

UpdateProvider(adm, p) ==
    /\ p \in Provided /\ cfgtx[adm] = Idle /\ MayUpdate(adm, {p})
    /\ \E s \in {"on", "off"} : Done(adm, SetProvider(p, s))

\* The check finds no deployment; the DELETE takes the row and fails on a
\* deployment that came since, and takes the credentials with it.
DeleteProviderCheck(adm, p) ==
    /\ p \in Provided
    /\ \A d \in Deployed : cfgdb.deployment[d].provider # p
    /\ Open(adm, "deleteProvider", p, {})

DeleteProvider(adm) ==
    LET p == cfgtx[adm].row
        used == \E d \in Deployed : cfgdb.deployment[d].provider = p
        lost(c) == Live(cfgdb.credential[c].state) /\ cfgdb.credential[c].provider = p
        gone == [cfgdb EXCEPT
                   !.provider[p] = "gone",
                   !.credential = [c \in Credentials |->
                     IF lost(c) THEN [@[c] EXCEPT !.state = "gone"] ELSE @[c]]]
    IN  /\ cfgtx[adm].op = "deleteProvider" /\ MayUpdate(adm, {p})
        /\ Done(adm, IF used \/ p \notin Provided THEN cfgdb ELSE gone)

CreateCredentialLock(adm, c, p) ==
    /\ cfgdb.credential[c].state = "new"
    /\ \A b \in Admins : cfgtx[b].row # c
    /\ p \in Provided /\ MayShare(adm, {p})
    /\ Open(adm, "createCredential", c, {p})

CreateCredential(adm) ==
    LET t == cfgtx[adm]
    IN  /\ t.op = "createCredential"
        /\ \E p \in t.arg :
             Done(adm, [cfgdb EXCEPT !.credential[t.row] =
                                       [state |-> "on", provider |-> p]])

UpdateCredential(adm, c) ==
    /\ Live(cfgdb.credential[c].state) /\ cfgtx[adm] = Idle
    /\ MayShare(adm, {cfgdb.credential[c].provider})
    /\ \E s \in {"on", "off"} : Done(adm, SetCredential(c, s))

DeleteCredential(adm, c) ==
    /\ Live(cfgdb.credential[c].state) /\ cfgtx[adm] = Idle
    /\ Done(adm, [cfgdb EXCEPT !.credential[c].state = "gone"])

CreateDeploymentLock(adm, d, p) ==
    /\ cfgdb.deployment[d].state = "new"
    /\ \A b \in Admins : cfgtx[b].row # d
    /\ p \in Provided /\ MayShare(adm, {p})
    /\ Open(adm, "createDeployment", d, {p})

CreateDeployment(adm, kind) ==
    LET t == cfgtx[adm]
    IN  /\ t.op = "createDeployment"
        /\ \E p \in t.arg :
             Done(adm, [cfgdb EXCEPT !.deployment[t.row] =
                         [state |-> "on", provider |-> p, kind |-> kind]])

UpdateDeployment(adm, d) ==
    /\ d \in Deployed /\ cfgtx[adm] = Idle /\ MayUpdate(adm, {d})
    /\ \E s \in {"on", "off"} : Done(adm, SetDeployment(d, s))

DeleteDeploymentCheck(adm, d) ==
    /\ d \in Deployed
    /\ \A a \in AliasNames : d \notin cfgdb.alias[a]
    /\ Open(adm, "deleteDeployment", d, {})

\* An alias that took the deployment since the check fails the DELETE.
DeleteDeployment(adm) ==
    LET d == cfgtx[adm].row
        used == \E a \in AliasNames : d \in cfgdb.alias[a]
    IN  /\ cfgtx[adm].op = "deleteDeployment" /\ MayUpdate(adm, {d})
        /\ Done(adm, IF used \/ d \notin Deployed THEN cfgdb
                     ELSE [cfgdb EXCEPT !.deployment[d].state = "gone"])

-----------------------------------------------------------------------------
(* Aliases and the grants that name them.                                  *)

\* The targets' one kind, read under FOR SHARE.
targetsKind(ts) ==
    /\ ts # {} /\ ts \subseteq Deployed
    /\ \A d, e \in ts : KindOf(d) = KindOf(e)

OneSpace(ts) == (\E d \in ts : KindOf(d) = "embedding") => Cardinality(ts) = 1

CreateAliasLock(adm, a, ts) ==
    /\ targetsKind(ts) /\ OneSpace(ts) /\ MayShare(adm, ts)
    /\ Open(adm, "createAlias", a, ts)

CreateAlias(adm) ==
    LET t == cfgtx[adm]
    IN  /\ t.op = "createAlias" /\ MayUpdate(adm, {t.row})
        /\ Done(adm, IF t.row \in Aliased THEN cfgdb
                     ELSE [cfgdb EXCEPT !.alias[t.row] = t.arg])

\* The kind stays; an embedding alias keeps its deployment.
UpdateAliasLock(adm, a, ts) ==
    /\ a \in Aliased /\ MayUpdate(adm, {a})
    /\ targetsKind(ts) /\ MayShare(adm, ts)
    /\ \A d \in ts, e \in cfgdb.alias[a] : KindOf(d) = KindOf(e)
    /\ (\E d \in ts : KindOf(d) = "embedding") => ts = cfgdb.alias[a]
    /\ Open(adm, "updateAlias", a, ts)

UpdateAlias(adm) ==
    LET t == cfgtx[adm]
    IN  /\ t.op = "updateAlias"
        /\ Done(adm, [cfgdb EXCEPT !.alias[t.row] = t.arg])

DeleteAliasLock(adm, a) ==
    /\ a \in Aliased /\ MayUpdate(adm, {a})
    /\ Open(adm, "deleteAlias", a, {})

\* Under the row's lock: an alias some key is granted stays.
DeleteAlias(adm) ==
    LET a == cfgtx[adm].row
        granted == \E k \in Keys : a \in cfgdb.grant[k]
    IN  /\ cfgtx[adm].op = "deleteAlias"
        /\ Done(adm, IF granted THEN cfgdb ELSE [cfgdb EXCEPT !.alias[a] = {}])

PutKeyPolicyLock(adm, k, as) ==
    /\ as \subseteq Aliased /\ MayShare(adm, as)
    /\ Open(adm, "putKeyPolicy", k, as)

PutKeyPolicy(adm) ==
    LET t == cfgtx[adm]
    IN  /\ t.op = "putKeyPolicy"
        /\ Done(adm, [cfgdb EXCEPT !.grant[t.row] = t.arg])

DeleteKeyPolicy(adm, k) ==
    /\ cfgtx[adm] = Idle /\ cfgdb.grant[k] # {}
    /\ Done(adm, [cfgdb EXCEPT !.grant[k] = {}])

-----------------------------------------------------------------------------
(* The catalog and the calls routed on it.                                 *)

\* Catalog.reload: on a notification, on the timer, on a new connection; a
\* failed load leaves the previous snapshot.
Reload ==
    /\ catalog.ver < MaxReloads /\ catalog.db # cfgdb
    /\ catalog' = [ver |-> catalog.ver + 1, db |-> cfgdb]
    /\ UNCHANGED <<cfgdb, cfgtx, opened, inflight>>

Held(snap) == {c \in Credentials : Live(snap.db.credential[c].state)}

\* Snapshot.Plan: the credentials an alias's enabled targets offer.  Their
\* order is a draw by priority and weight.
Plan(snap, a) ==
    {c \in Credentials :
       \E d \in snap.db.alias[a] :
         LET p == snap.db.deployment[d].provider
         IN  /\ snap.db.deployment[d].state = "on"
             /\ snap.db.provider[p] = "on"
             /\ snap.db.credential[c] = [state |-> "on", provider |-> p]}

NoCall == [step |-> "none", cred |-> "", snap |-> 0, held |-> {}]

\* serve routes on the current snapshot; a key may use the aliases granted.
Route(r, k, a) ==
    /\ inflight[r].step = "none"
    /\ a \in catalog.db.grant[k]
    /\ \E c \in Plan(catalog, a) :
         inflight' = [inflight EXCEPT ![r] = [NoCall EXCEPT !.step = "routed", !.cred = c]]
    /\ UNCHANGED <<cfgdb, cfgtx, catalog, opened>>

\* open, first: the snapshot is read before the lock is taken.
OpenReads(r) ==
    /\ inflight[r].step = "routed"
    /\ inflight' = [inflight EXCEPT ![r].step = "read", ![r].snap = catalog.ver,
                              ![r].held = Held(catalog)]
    /\ UNCHANGED <<cfgdb, cfgtx, catalog, opened>>

\* Then, under the lock: prune what the snapshot read has lost, look up.
OpenLooksUp(r) ==
    LET pruned == IF inflight[r].snap = opened.from THEN opened.keys
                  ELSE opened.keys \cap inflight[r].held
    IN  /\ inflight[r].step = "read"
        /\ opened' = [keys |-> pruned, from |-> inflight[r].snap]
        /\ inflight' = [inflight EXCEPT ![r] =
                       IF inflight[r].cred \in pruned THEN NoCall
                       ELSE [NoCall EXCEPT !.step = "sealed", !.cred = inflight[r].cred]]
        /\ UNCHANGED <<cfgdb, cfgtx, catalog>>

\* Mutant: an opened key is kept without another look at the catalog.
OpenKeepsAll(r) ==
    /\ inflight[r].step = "sealed"
    /\ opened' = [opened EXCEPT !.keys = @ \cup {inflight[r].cred}]
    /\ inflight' = [inflight EXCEPT ![r] = NoCall]
    /\ UNCHANGED <<cfgdb, cfgtx, catalog>>

\* Decrypted: kept only while the current snapshot holds the credential.
OpenKeeps(r) ==
    /\ inflight[r].step = "sealed"
    /\ opened' = [opened EXCEPT !.keys = @ \cup ({inflight[r].cred} \cap Held(catalog))]
    /\ inflight' = [inflight EXCEPT ![r] = NoCall]
    /\ UNCHANGED <<cfgdb, cfgtx, catalog>>

-----------------------------------------------------------------------------
EmptyConfig ==
    [provider |-> [p \in Providers |-> "new"],
     credential |-> [c \in Credentials |-> [state |-> "new", provider |-> ""]],
     deployment |-> [d \in Deployments |->
                       [state |-> "new", provider |-> "", kind |-> ""]],
     alias |-> [a \in AliasNames |-> {}],
     grant |-> [k \in Keys |-> {}]]

CInit ==
    /\ cfgdb = EmptyConfig
    /\ cfgtx = [adm \in Admins |-> Idle]
    /\ catalog = [ver |-> 0, db |-> EmptyConfig]
    /\ opened = [keys |-> {}, from |-> -1]
    /\ inflight = [r \in Callers |-> NoCall]

Write(adm) ==
    /\ cfgtx[adm] = Idle
    /\ \/ \E p \in Providers :
            \/ CreateProvider(adm, p) \/ UpdateProvider(adm, p)
            \/ DeleteProviderCheck(adm, p)
            \/ \E c \in Credentials : CreateCredentialLock(adm, c, p)
            \/ \E d \in Deployments : CreateDeploymentLock(adm, d, p)
       \/ \E c \in Credentials : UpdateCredential(adm, c) \/ DeleteCredential(adm, c)
       \/ \E d \in Deployments : UpdateDeployment(adm, d) \/ DeleteDeploymentCheck(adm, d)
       \/ \E a \in AliasNames :
            \/ DeleteAliasLock(adm, a)
            \/ \E ts \in SUBSET Deployments :
                 CreateAliasLock(adm, a, ts) \/ UpdateAliasLock(adm, a, ts)
       \/ \E k \in Keys :
            \/ DeleteKeyPolicy(adm, k)
            \/ \E as \in SUBSET AliasNames \ {{}} : PutKeyPolicyLock(adm, k, as)

Commit(adm) ==
    \/ DeleteProvider(adm) \/ CreateCredential(adm) \/ DeleteDeployment(adm)
    \/ CreateAlias(adm) \/ UpdateAlias(adm) \/ DeleteAlias(adm) \/ PutKeyPolicy(adm)
    \/ \E kind \in Kinds : CreateDeployment(adm, kind)

CNext ==
    \/ \E adm \in Admins : Write(adm) \/ Commit(adm)
    \/ Reload
    \/ \E r \in Callers :
         \/ OpenReads(r) \/ OpenLooksUp(r) \/ OpenKeeps(r)
         \/ \E k \in Keys, a \in AliasNames : Route(r, k, a)

CSpec == CInit /\ [][CNext]_cvars

-----------------------------------------------------------------------------
\* However administrators' transactions interleave, the configuration stays
\* whole: what an alias routes to exists and has one kind, an embedding
\* alias has one vector space, a grant names aliases that exist, and no
\* deployment or credential outlives its provider.
ConfigIsWhole ==
    /\ \A a \in Aliased : targetsKind(cfgdb.alias[a]) /\ OneSpace(cfgdb.alias[a])
    /\ \A k \in Keys : cfgdb.grant[k] \subseteq Aliased
    /\ \A d \in Deployed : cfgdb.deployment[d].provider \in Provided
    /\ \A c \in Credentials : Live(cfgdb.credential[c].state) =>
                                cfgdb.credential[c].provider \in Provided

\* A deleted credential's opened key goes with the first call that opens a
\* key on a snapshot without it, whatever older calls are still opening:
\* once the cache was pruned from the current snapshot, every key in it is
\* a credential of that snapshot.
OpenedKeysAreHeld ==
    opened.from = catalog.ver => opened.keys \subseteq Held(catalog)

\* The stored configuration stays whole, and the opened keys follow it.
CatalogIsWhole == ConfigIsWhole /\ OpenedKeysAreHeld
=============================================================================
