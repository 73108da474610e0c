--------------------------- MODULE CatalogProofs ---------------------------
(***************************************************************************)
(* The gateway's configuration stays whole and its opened keys follow it,   *)
(* for any number of administrators, calls in flight and reloads.           *)
(*                                                                          *)
(* ConfigIsWhole is not inductive: an administrator's transaction commits   *)
(* what its first statements read.  LocksHold says what it may rely on      *)
(* until then, and LocksApart why: nobody holds a row for update that       *)
(* another transaction shares or updates.                                   *)
(***************************************************************************)
EXTENDS GatewayCatalog, TLAPS

States == {"new", "on", "off", "gone"}

ConfigType ==
    [provider : [Providers -> States],
     credential : [Credentials -> [state : States, provider : Providers \cup {""}]],
     deployment : [Deployments -> [state : States, provider : Providers \cup {""}, kind : Kinds \cup {""}]],
     alias : [AliasNames -> SUBSET Deployments],
     grant : [Keys -> SUBSET AliasNames]]

\* The rows a transaction names, by what it does.
TxTyped(t) ==
    /\ t.op = "deleteProvider" => t.row \in Providers
    /\ t.op = "deleteDeployment" => t.row \in Deployments
    /\ t.op = "createCredential" => t.row \in Credentials /\ t.arg \subseteq Providers
    /\ t.op = "createDeployment" => t.row \in Deployments /\ t.arg \subseteq Providers
    /\ t.op \in {"createAlias", "updateAlias"} => t.row \in AliasNames /\ t.arg \subseteq Deployments
    /\ t.op = "deleteAlias" => t.row \in AliasNames
    /\ t.op = "putKeyPolicy" => t.row \in Keys /\ t.arg \subseteq AliasNames

ConfigTyped ==
    /\ cfgdb \in ConfigType
    /\ DOMAIN cfgtx = Admins
    /\ \A adm \in Admins : TxTyped(cfgtx[adm])

\* What each open transaction relies on when it commits.
Relies(t) ==
    /\ t.op \in {"createCredential", "createDeployment"} => t.arg \subseteq Provided
    /\ t.op = "createDeployment" => cfgdb.deployment[t.row].state = "new"
    /\ t.op \in {"createAlias", "updateAlias"} => targetsKind(t.arg) /\ OneSpace(t.arg)
    /\ t.op = "putKeyPolicy" => t.arg \subseteq Aliased

LocksHold == \A adm \in Admins : Relies(cfgtx[adm])

\* Row locks exclude: an update lock against every other lock, and one creator
\* of a row against another.
LocksApart ==
    \A adm \in Admins, b \in Admins : adm # b =>
        /\ Updates(cfgtx[adm]) \cap (Updates(cfgtx[b]) \cup Shares(cfgtx[b])) = {}
        /\ cfgtx[adm].op = "createDeployment" /\ cfgtx[b].op = "createDeployment" =>
               cfgtx[adm].row # cfgtx[b].row

ConfigInv == ConfigTyped /\ LocksHold /\ LocksApart /\ ConfigIsWhole

-----------------------------------------------------------------------------
(* Transactions.                                                           *)

\* A transaction that opens with what it relies on, and with locks nobody
\* excludes, keeps the invariant: it has changed nothing yet.
LEMMA OpenKeepsConfig ==
    ASSUME ConfigInv, NEW adm \in Admins, NEW op, NEW row, NEW arg, NEW t,
           t = [op |-> op, row |-> row, arg |-> arg],
           Open(adm, op, row, arg), TxTyped(t), Relies(t),
           MayUpdate(adm, Updates(t)), MayShare(adm, Shares(t)),
           op = "createDeployment" => \A b \in Admins : cfgtx[b].row # row
    PROVE  ConfigInv'
<1>1. /\ cfgtx' = [cfgtx EXCEPT ![adm] = t] /\ cfgdb' = cfgdb
  BY DEF Open
<1>2. DOMAIN cfgtx = Admins
  BY DEF ConfigInv, ConfigTyped
<1>3. /\ DOMAIN cfgtx' = Admins /\ cfgtx'[adm] = t
      /\ \A b \in Admins : b # adm => cfgtx'[b] = cfgtx[b]
  BY <1>1, <1>2
<1>4. ConfigTyped'
  BY <1>1, <1>3 DEF ConfigInv, ConfigTyped
<1>5. \A x : Relies(x) => Relies(x)'
  BY <1>1 DEF Relies, Provided, targetsKind, OneSpace, Deployed, KindOf, Aliased
<1>6. LocksHold'
  BY <1>3, <1>5 DEF ConfigInv, LocksHold
<1>7. ASSUME NEW b \in Admins, b # adm
      PROVE  /\ Updates(cfgtx[b]) \cap (Updates(t) \cup Shares(t)) = {}
             /\ Updates(t) \cap (Updates(cfgtx[b]) \cup Shares(cfgtx[b])) = {}
             /\ op = "createDeployment" => cfgtx[b].row # row
  BY <1>7 DEF MayUpdate, MayShare, Others
<1>8. LocksApart'
  BY <1>3, <1>7 DEF ConfigInv, LocksApart
<1>9. ConfigIsWhole'
  BY <1>1 DEF ConfigInv, ConfigIsWhole, Provided, targetsKind, OneSpace, Deployed, KindOf, Aliased
<1> QED BY <1>4, <1>6, <1>8, <1>9 DEF ConfigInv

\* A commit keeps it if it leaves the tables whole and nothing another open
\* transaction relies on is gone.
LEMMA DoneKeepsConfig ==
    ASSUME ConfigInv, NEW adm \in Admins, NEW d \in ConfigType, Done(adm, d),
           ConfigIsWhole',
           \A b \in Admins : b # adm => \A t : t = cfgtx[b] => Relies(t)'
    PROVE  ConfigInv'
<1>1. /\ cfgtx' = [cfgtx EXCEPT ![adm] = Idle] /\ cfgdb' = d
  BY DEF Done
<1>2. DOMAIN cfgtx = Admins
  BY DEF ConfigInv, ConfigTyped
<1>3. /\ DOMAIN cfgtx' = Admins /\ cfgtx'[adm] = Idle
      /\ \A b \in Admins : b # adm => cfgtx'[b] = cfgtx[b]
  BY <1>1, <1>2
<1>4. TxTyped(Idle) /\ Relies(Idle)' /\ Updates(Idle) = {} /\ Shares(Idle) = {} /\ Idle.op = "idle"
  BY DEF TxTyped, Relies, Updates, Shares, Idle
<1>5. ConfigTyped'
  BY <1>1, <1>3, <1>4 DEF ConfigInv, ConfigTyped
<1>6. LocksHold'
  BY <1>3, <1>4 DEF LocksHold
<1>7. LocksApart'
  BY <1>3, <1>4 DEF ConfigInv, LocksApart
<1> QED BY <1>5, <1>6, <1>7 DEF ConfigInv

\* The commits that leave every alias and its deployments as they are.
LEMMA QuietKeepsConfig ==
    ASSUME ConfigInv, NEW adm \in Admins, NEW d \in ConfigType, Done(adm, d),
           Provided \subseteq Provided', d.alias = cfgdb.alias,
           \A k \in Keys : d.grant[k] \subseteq cfgdb.grant[k],
           \A x \in Deployments :
               /\ d.deployment[x].kind = cfgdb.deployment[x].kind
               /\ d.deployment[x].provider = cfgdb.deployment[x].provider
               /\ Live(d.deployment[x].state) <=> Live(cfgdb.deployment[x].state)
               /\ cfgdb.deployment[x].state = "new" => d.deployment[x].state = "new",
           \A c \in Credentials : Live(d.credential[c].state) => d.credential[c].provider \in Provided'
    PROVE  ConfigInv'
<1>1. cfgdb' = d /\ cfgdb \in ConfigType
  BY DEF Done, ConfigInv, ConfigTyped
<1>2. Deployed' = Deployed /\ Aliased' = Aliased
  BY <1>1 DEF Deployed, Aliased
<1>3. \A ts \in SUBSET Deployments : targetsKind(ts) /\ OneSpace(ts) => targetsKind(ts)' /\ OneSpace(ts)'
  BY <1>1, <1>2 DEF targetsKind, OneSpace, KindOf
<1>4. \A t : TxTyped(t) /\ Relies(t) => Relies(t)'
  BY <1>1, <1>2, <1>3 DEF Relies, TxTyped
<1>5. ConfigIsWhole'
  <2>1. (\A a \in Aliased : targetsKind(cfgdb.alias[a]) /\ OneSpace(cfgdb.alias[a]))'
    <3>1. \A a \in Aliased : cfgdb.alias[a] \in SUBSET Deployments
      BY <1>1 DEF ConfigType, Aliased
    <3>2. \A a \in Aliased : targetsKind(cfgdb.alias[a]) /\ OneSpace(cfgdb.alias[a])
      BY DEF ConfigInv, ConfigIsWhole
    <3> QED BY <1>1, <1>2, <3>1, <3>2 DEF targetsKind, OneSpace, KindOf
  <2>2. \A k \in Keys : cfgdb'.grant[k] \subseteq Aliased'
    BY <1>1, <1>2 DEF ConfigInv, ConfigIsWhole
  <2>3. \A x \in Deployed' : cfgdb'.deployment[x].provider \in Provided'
    BY <1>1, <1>2 DEF ConfigInv, ConfigIsWhole, Deployed
  <2> QED BY <1>1, <2>1, <2>2, <2>3 DEF ConfigIsWhole
<1>6. \A b \in Admins : b # adm => \A t : t = cfgtx[b] => Relies(t)'
  BY <1>4 DEF ConfigInv, ConfigTyped, LocksHold
<1> QED BY <1>5, <1>6, DoneKeepsConfig

\* An administrator's first statements, and the requests of one statement.
LEMMA WriteKeepsConfig ==
    ASSUME ConfigInv, NEW adm \in Admins, Write(adm)
    PROVE  ConfigInv'
<1>t. cfgdb \in ConfigType
  BY DEF ConfigInv, ConfigTyped
<1>l. \A s \in {"on", "off"} : s \in States /\ Live(s)
  BY DEF States, Live
<1> USE DEF Updates, Shares
<1>1. ASSUME NEW p \in Providers, CreateProvider(adm, p) \/ UpdateProvider(adm, p) PROVE ConfigInv'
  <2>1. PICK s \in {"on", "off"} : Done(adm, [cfgdb EXCEPT !.provider[p] = s])
    BY <1>1 DEF CreateProvider, UpdateProvider, InsertProvider, SetProvider
  <2>2. PICK d : d = [cfgdb EXCEPT !.provider[p] = s]
    OBVIOUS
  <2>3. /\ d \in ConfigType /\ d.alias = cfgdb.alias /\ d.grant = cfgdb.grant
        /\ d.deployment = cfgdb.deployment /\ d.credential = cfgdb.credential
        /\ \A q \in Providers : d.provider[q] = IF q = p THEN s ELSE cfgdb.provider[q]
    BY <1>t, <1>l, <2>2 DEF ConfigType
  <2>4. cfgdb' = d
    BY <2>1, <2>2 DEF Done
  <2>5. Provided \subseteq Provided'
    BY <1>l, <2>3, <2>4 DEF Provided
  <2>6. \A c \in Credentials : Live(d.credential[c].state) => d.credential[c].provider \in Provided'
    BY <2>3, <2>5 DEF ConfigInv, ConfigIsWhole
  <2> QED BY <2>1, <2>2, <2>3, <2>5, <2>6, QuietKeepsConfig
<1>2. ASSUME NEW p \in Providers, DeleteProviderCheck(adm, p) PROVE ConfigInv'
  <2>1. PICK t : t = [op |-> "deleteProvider", row |-> p, arg |-> {}]
    OBVIOUS
  <2>2. TxTyped(t) /\ Relies(t) /\ Updates(t) = {} /\ Shares(t) = {}
    BY <2>1 DEF TxTyped, Relies
  <2> QED BY <1>2, <2>1, <2>2, OpenKeepsConfig DEF DeleteProviderCheck, MayUpdate, MayShare
<1>3. ASSUME NEW p \in Providers, NEW c \in Credentials, CreateCredentialLock(adm, c, p) PROVE ConfigInv'
  <2>1. PICK t : t = [op |-> "createCredential", row |-> c, arg |-> {p}]
    OBVIOUS
  <2>2. TxTyped(t) /\ Relies(t) /\ Updates(t) = {} /\ Shares(t) = {p}
    BY <1>3, <2>1 DEF TxTyped, Relies, CreateCredentialLock
  <2> QED BY <1>3, <2>1, <2>2, OpenKeepsConfig DEF CreateCredentialLock, MayUpdate
<1>4. ASSUME NEW p \in Providers, NEW x \in Deployments, CreateDeploymentLock(adm, x, p) PROVE ConfigInv'
  <2>1. PICK t : t = [op |-> "createDeployment", row |-> x, arg |-> {p}]
    OBVIOUS
  <2>2. TxTyped(t) /\ Relies(t) /\ Updates(t) = {} /\ Shares(t) = {p}
    BY <1>4, <2>1 DEF TxTyped, Relies, CreateDeploymentLock
  <2> QED BY <1>4, <2>1, <2>2, OpenKeepsConfig DEF CreateDeploymentLock, MayUpdate
<1>5. ASSUME NEW c \in Credentials, UpdateCredential(adm, c) \/ DeleteCredential(adm, c) PROVE ConfigInv'
  <2>1. PICK s \in {"on", "off", "gone"} : Done(adm, [cfgdb EXCEPT !.credential[c].state = s])
    BY <1>5 DEF UpdateCredential, DeleteCredential, SetCredential
  <2>2. PICK d : d = [cfgdb EXCEPT !.credential[c].state = s]
    OBVIOUS
  <2>3. /\ d \in ConfigType /\ d.alias = cfgdb.alias /\ d.grant = cfgdb.grant
        /\ d.deployment = cfgdb.deployment /\ d.provider = cfgdb.provider
        /\ \A e \in Credentials : /\ d.credential[e].provider = cfgdb.credential[e].provider
                                   /\ d.credential[e].state = IF e = c THEN s ELSE cfgdb.credential[e].state
    <3>1. PICK r : r = [cfgdb.credential[c] EXCEPT !.state = s]
      OBVIOUS
    <3>0. s \in States
      BY DEF States
    <3>2. /\ r \in [state : States, provider : Providers \cup {""}]
          /\ r.provider = cfgdb.credential[c].provider /\ r.state = s
      BY <1>t, <3>0, <3>1 DEF ConfigType
    <3>3. d = [cfgdb EXCEPT !.credential = [cfgdb.credential EXCEPT ![c] = r]]
      BY <1>t, <2>2, <3>1 DEF ConfigType
    <3> QED BY <1>t, <3>2, <3>3 DEF ConfigType
  <2>4. cfgdb' = d /\ Live(cfgdb.credential[c].state)
    BY <1>5, <2>1, <2>2 DEF Done, UpdateCredential, DeleteCredential
  <2>5. Provided' = Provided
    BY <2>3, <2>4 DEF Provided
  <2>6. ASSUME NEW e \in Credentials, Live(d.credential[e].state) PROVE d.credential[e].provider \in Provided'
    <3>1. Live(cfgdb.credential[e].state)
      <4>1. CASE e = c BY <2>4, <4>1
      <4>2. CASE e # c BY <2>3, <2>6, <4>2
      <4> QED BY <4>1, <4>2
    <3>2. cfgdb.credential[e].provider \in Provided
      BY <3>1 DEF ConfigInv, ConfigIsWhole
    <3> QED BY <2>3, <2>5, <3>2
  <2> QED BY <2>1, <2>2, <2>3, <2>5, <2>6, QuietKeepsConfig
<1>6. ASSUME NEW x \in Deployments, UpdateDeployment(adm, x) PROVE ConfigInv'
  <2>1. PICK s \in {"on", "off"} : Done(adm, [cfgdb EXCEPT !.deployment[x].state = s])
    BY <1>6 DEF UpdateDeployment, SetDeployment
  <2>2. PICK d : d = [cfgdb EXCEPT !.deployment[x].state = s]
    OBVIOUS
  <2>3. /\ d \in ConfigType /\ d.alias = cfgdb.alias /\ d.grant = cfgdb.grant
        /\ d.credential = cfgdb.credential /\ d.provider = cfgdb.provider
        /\ \A y \in Deployments : /\ d.deployment[y].provider = cfgdb.deployment[y].provider
                                   /\ d.deployment[y].kind = cfgdb.deployment[y].kind
                                   /\ d.deployment[y].state = IF y = x THEN s ELSE cfgdb.deployment[y].state
    <3>1. PICK r : r = [cfgdb.deployment[x] EXCEPT !.state = s]
      OBVIOUS
    <3>2. /\ r \in [state : States, provider : Providers \cup {""}, kind : Kinds \cup {""}]
          /\ r.provider = cfgdb.deployment[x].provider /\ r.kind = cfgdb.deployment[x].kind /\ r.state = s
      BY <1>t, <1>l, <3>1 DEF ConfigType
    <3>3. d = [cfgdb EXCEPT !.deployment = [cfgdb.deployment EXCEPT ![x] = r]]
      BY <1>t, <2>2, <3>1 DEF ConfigType
    <3> QED BY <1>t, <3>2, <3>3 DEF ConfigType
  <2>4. cfgdb' = d /\ Live(cfgdb.deployment[x].state)
    BY <1>6, <2>1, <2>2 DEF Done, UpdateDeployment, Deployed
  <2>5. Provided' = Provided
    BY <2>3, <2>4 DEF Provided
  <2>6. \A e \in Credentials : Live(d.credential[e].state) => d.credential[e].provider \in Provided'
    BY <2>3, <2>5 DEF ConfigInv, ConfigIsWhole
  <2>7. cfgdb.deployment[x].state # "new"
    BY <2>4 DEF Live
  <2>8. \A y \in Deployments :
            /\ Live(d.deployment[y].state) <=> Live(cfgdb.deployment[y].state)
            /\ cfgdb.deployment[y].state = "new" => d.deployment[y].state = "new"
    BY <1>l, <2>3, <2>4, <2>7
  <2>9. \A k \in Keys : d.grant[k] \subseteq cfgdb.grant[k]
    BY <2>3
  <2> QED BY <2>1, <2>2, <2>3, <2>5, <2>6, <2>8, <2>9, QuietKeepsConfig
<1>7. ASSUME NEW x \in Deployments, DeleteDeploymentCheck(adm, x) PROVE ConfigInv'
  <2>1. PICK t : t = [op |-> "deleteDeployment", row |-> x, arg |-> {}]
    OBVIOUS
  <2>2. TxTyped(t) /\ Relies(t) /\ Updates(t) = {} /\ Shares(t) = {}
    BY <2>1 DEF TxTyped, Relies
  <2> QED BY SMTT(20), <1>7, <2>1, <2>2, OpenKeepsConfig DEF DeleteDeploymentCheck, MayUpdate, MayShare
<1>8. ASSUME NEW a \in AliasNames, DeleteAliasLock(adm, a) PROVE ConfigInv'
  <2>1. PICK t : t = [op |-> "deleteAlias", row |-> a, arg |-> {}]
    OBVIOUS
  <2>2. TxTyped(t) /\ Relies(t) /\ Updates(t) = {a} /\ Shares(t) = {}
    BY <2>1 DEF TxTyped, Relies
  <2> QED BY <1>8, <2>1, <2>2, OpenKeepsConfig DEF DeleteAliasLock, MayShare
<1>9. ASSUME NEW a \in AliasNames, NEW ts \in SUBSET Deployments, CreateAliasLock(adm, a, ts) PROVE ConfigInv'
  <2>1. PICK t : t = [op |-> "createAlias", row |-> a, arg |-> ts]
    OBVIOUS
  <2>2. TxTyped(t) /\ Relies(t) /\ Updates(t) = {} /\ Shares(t) = ts
    BY <1>9, <2>1 DEF TxTyped, Relies, CreateAliasLock
  <2> QED BY <1>9, <2>1, <2>2, OpenKeepsConfig DEF CreateAliasLock, MayUpdate
<1>10. ASSUME NEW a \in AliasNames, NEW ts \in SUBSET Deployments, UpdateAliasLock(adm, a, ts) PROVE ConfigInv'
  <2>1. PICK t : t = [op |-> "updateAlias", row |-> a, arg |-> ts]
    OBVIOUS
  <2>2. OneSpace(ts)
    BY <1>10 DEF UpdateAliasLock, ConfigInv, ConfigIsWhole, OneSpace
  <2>3. TxTyped(t) /\ Relies(t) /\ Updates(t) = {a} /\ Shares(t) = ts
    BY <1>10, <2>1, <2>2 DEF TxTyped, Relies, UpdateAliasLock
  <2> QED BY <1>10, <2>1, <2>3, OpenKeepsConfig DEF UpdateAliasLock
<1>11. ASSUME NEW k \in Keys, NEW as \in SUBSET AliasNames, PutKeyPolicyLock(adm, k, as) PROVE ConfigInv'
  <2>1. PICK t : t = [op |-> "putKeyPolicy", row |-> k, arg |-> as]
    OBVIOUS
  <2>2. TxTyped(t) /\ Relies(t) /\ Updates(t) = {} /\ Shares(t) = as
    BY <1>11, <2>1 DEF TxTyped, Relies, PutKeyPolicyLock
  <2> QED BY <1>11, <2>1, <2>2, OpenKeepsConfig DEF PutKeyPolicyLock, MayUpdate
<1>12. ASSUME NEW k \in Keys, DeleteKeyPolicy(adm, k) PROVE ConfigInv'
  <2>1. Done(adm, [cfgdb EXCEPT !.grant[k] = {}])
    BY <1>12 DEF DeleteKeyPolicy
  <2>2. PICK d : d = [cfgdb EXCEPT !.grant[k] = {}]
    OBVIOUS
  <2>3. /\ d \in ConfigType /\ d.alias = cfgdb.alias /\ d.deployment = cfgdb.deployment
        /\ d.credential = cfgdb.credential /\ d.provider = cfgdb.provider
        /\ \A j \in Keys : d.grant[j] = IF j = k THEN {} ELSE cfgdb.grant[j]
    BY <1>t, <2>2 DEF ConfigType
  <2>4. cfgdb' = d
    BY <2>1, <2>2 DEF Done
  <2>5. Provided' = Provided
    BY <2>3, <2>4 DEF Provided
  <2>6. \A e \in Credentials : Live(d.credential[e].state) => d.credential[e].provider \in Provided'
    BY <2>3, <2>5 DEF ConfigInv, ConfigIsWhole
  <2>7. \A j \in Keys : d.grant[j] \subseteq cfgdb.grant[j]
    BY <2>3
  <2> QED BY <2>1, <2>2, <2>3, <2>5, <2>6, <2>7, QuietKeepsConfig
<1> QED
  BY <1>1, <1>2, <1>3, <1>4, <1>5, <1>6, <1>7, <1>8, <1>9, <1>10, <1>11, <1>12 DEF Write

\* A commit that changes nothing: the statement found its row in use or gone.
LEMMA RefusedKeepsConfig ==
    ASSUME ConfigInv, NEW adm \in Admins, Done(adm, cfgdb)
    PROVE  ConfigInv'
<1>1. cfgdb' = cfgdb /\ cfgdb \in ConfigType
  BY DEF Done, ConfigInv, ConfigTyped
<1>2. PICK d : d = cfgdb
  OBVIOUS
<1>3. Provided' = Provided /\ \A c \in Credentials : Live(cfgdb.credential[c].state) => cfgdb.credential[c].provider \in Provided
  BY <1>1 DEF Provided, ConfigInv, ConfigIsWhole
<1> QED BY <1>1, <1>2, <1>3, QuietKeepsConfig

\* The commits on aliases and grants: the other tables stay.
LEMMA RoutesKeepConfig ==
    ASSUME ConfigInv, NEW adm \in Admins, NEW d \in ConfigType, Done(adm, d),
           d.provider = cfgdb.provider, d.credential = cfgdb.credential,
           d.deployment = cfgdb.deployment,
           \A a \in AliasNames : d.alias[a] # {} =>
               d.alias[a] = cfgdb.alias[a] \/ (targetsKind(d.alias[a]) /\ OneSpace(d.alias[a])),
           \A k \in Keys : \A a \in d.grant[k] : d.alias[a] # {},
           \A b \in Admins : b # adm /\ cfgtx[b].op = "putKeyPolicy" =>
               \A a \in cfgtx[b].arg : d.alias[a] # {}
    PROVE  ConfigInv'
<1>1. cfgdb' = d /\ cfgdb \in ConfigType
  BY DEF Done, ConfigInv, ConfigTyped
<1>2. Provided' = Provided /\ Deployed' = Deployed
  BY <1>1 DEF Provided, Deployed
<1>3. \A ts : (targetsKind(ts) <=> targetsKind(ts)') /\ (OneSpace(ts) <=> OneSpace(ts)')
  BY <1>1, <1>2 DEF targetsKind, OneSpace, KindOf
<1>4. \A a \in AliasNames : a \in Aliased' <=> d.alias[a] # {}
  BY <1>1 DEF Aliased
<1>5. ConfigIsWhole'
  <2>1. ASSUME NEW a \in AliasNames, d.alias[a] # {} PROVE targetsKind(d.alias[a])' /\ OneSpace(d.alias[a])'
    <3>1. PICK ts : ts = d.alias[a]
      OBVIOUS
    <3>2. targetsKind(ts) /\ OneSpace(ts)
      BY <2>1, <3>1 DEF ConfigInv, ConfigIsWhole, Aliased
    <3> QED BY <1>3, <3>1, <3>2
  <2>2. (\A a \in Aliased : targetsKind(cfgdb.alias[a]) /\ OneSpace(cfgdb.alias[a]))'
    BY <1>1, <2>1 DEF Aliased
  <2>3. \A k \in Keys : d.grant[k] \subseteq Aliased'
    <3>1. \A k \in Keys : d.grant[k] \subseteq AliasNames
      BY DEF ConfigType
    <3> QED BY <1>4, <3>1
  <2>4. \A x \in Deployed' : cfgdb'.deployment[x].provider \in Provided'
    BY <1>1, <1>2 DEF ConfigInv, ConfigIsWhole
  <2>5. \A c \in Credentials : Live(cfgdb'.credential[c].state) => cfgdb'.credential[c].provider \in Provided'
    BY <1>1, <1>2 DEF ConfigInv, ConfigIsWhole
  <2> QED BY <1>1, <2>2, <2>3, <2>4, <2>5 DEF ConfigIsWhole
<1>6. ASSUME NEW b \in Admins, b # adm, NEW t, t = cfgtx[b] PROVE Relies(t)'
  <2>1. TxTyped(t) /\ Relies(t)
    BY <1>6 DEF ConfigInv, ConfigTyped, LocksHold
  <2>2. t.op = "putKeyPolicy" => t.arg \subseteq Aliased'
    BY <1>4, <1>6, <2>1 DEF TxTyped
  <2>3. t.op \in {"createAlias", "updateAlias"} => targetsKind(t.arg)' /\ OneSpace(t.arg)'
    BY <1>3, <2>1 DEF Relies
  <2> QED BY <1>1, <1>2, <2>1, <2>2, <2>3 DEF Relies
<1> QED BY <1>5, <1>6, DoneKeepsConfig

\* A provider that no deployment uses and nobody holds goes, its credentials
\* with it.
LEMMA DeleteProviderKeepsConfig ==
    ASSUME ConfigInv, NEW adm \in Admins, DeleteProvider(adm)
    PROVE  ConfigInv'
<1>t. cfgdb \in ConfigType
  BY DEF ConfigInv, ConfigTyped
<1>1. PICK p : p = cfgtx[adm].row
  OBVIOUS
<1>2. p \in Providers /\ MayUpdate(adm, {p})
  BY <1>1 DEF DeleteProvider, ConfigInv, ConfigTyped, TxTyped
<1>3. PICK cs : cs = [c \in Credentials |->
                       IF Live(cfgdb.credential[c].state) /\ cfgdb.credential[c].provider = p
                       THEN [cfgdb.credential[c] EXCEPT !.state = "gone"] ELSE cfgdb.credential[c]]
  OBVIOUS
<1>4. PICK d : d = [[cfgdb EXCEPT !.provider[p] = "gone"] EXCEPT !.credential = cs]
  OBVIOUS
<1>5. CASE Done(adm, cfgdb)
  BY <1>5, RefusedKeepsConfig
<1>6. CASE Done(adm, d) /\ \A x \in Deployed : cfgdb.deployment[x].provider # p
  <2>1. /\ cs \in [Credentials -> [state : States, provider : Providers \cup {""}]]
        /\ \A c \in Credentials : Live(cs[c].state) => cs[c] = cfgdb.credential[c] /\ cs[c].provider # p
    <3>1. \A c \in Credentials : cfgdb.credential[c] \in [state : States, provider : Providers \cup {""}]
      BY <1>t DEF ConfigType
    <3>2. "gone" \in States /\ ~ Live("gone")
      BY DEF States, Live
    <3> QED BY <1>3, <3>1, <3>2
  <2>2. /\ d \in ConfigType /\ d.alias = cfgdb.alias /\ d.grant = cfgdb.grant
        /\ d.deployment = cfgdb.deployment /\ d.credential = cs
        /\ \A q \in Providers : d.provider[q] = IF q = p THEN "gone" ELSE cfgdb.provider[q]
    <3>1. "gone" \in States
      BY DEF States
    <3> QED BY <1>t, <1>2, <1>4, <2>1, <3>1 DEF ConfigType
  <2>3. cfgdb' = d
    BY <1>6 DEF Done
  <2>4. Deployed' = Deployed /\ Aliased' = Aliased /\ Provided' = Provided \ {p}
    BY <2>2, <2>3 DEF Deployed, Aliased, Provided, Live
  <2>5. \A ts : (targetsKind(ts) <=> targetsKind(ts)') /\ (OneSpace(ts) <=> OneSpace(ts)')
    BY <2>2, <2>3, <2>4 DEF targetsKind, OneSpace, KindOf
  <2>6. ConfigIsWhole'
    <3>1. (\A a \in Aliased : targetsKind(cfgdb.alias[a]) /\ OneSpace(cfgdb.alias[a]))'
      <4>1. \A a \in Aliased : targetsKind(cfgdb.alias[a]) /\ OneSpace(cfgdb.alias[a])
        BY DEF ConfigInv, ConfigIsWhole
      <4> QED BY <2>2, <2>3, <2>4, <4>1 DEF targetsKind, OneSpace, KindOf
    <3>2. \A k \in Keys : cfgdb'.grant[k] \subseteq Aliased'
      BY <2>2, <2>3, <2>4 DEF ConfigInv, ConfigIsWhole
    <3>3. \A x \in Deployed' : cfgdb'.deployment[x].provider \in Provided'
      BY <1>6, <2>2, <2>3, <2>4 DEF ConfigInv, ConfigIsWhole
    <3>4. \A c \in Credentials : Live(cfgdb'.credential[c].state) => cfgdb'.credential[c].provider \in Provided'
      BY <2>1, <2>2, <2>3, <2>4 DEF ConfigInv, ConfigIsWhole
    <3> QED BY <3>1, <3>2, <3>3, <3>4 DEF ConfigIsWhole
  <2>7. ASSUME NEW b \in Admins, b # adm, NEW t, t = cfgtx[b] PROVE Relies(t)'
    <3>1. TxTyped(t) /\ Relies(t) /\ p \notin Shares(t)
      BY <1>2, <2>7 DEF ConfigInv, ConfigTyped, LocksHold, MayUpdate, Others
    <3>2. t.op \in {"createCredential", "createDeployment"} => t.arg \subseteq Provided'
      BY <2>4, <3>1 DEF Relies, Shares
    <3> QED BY <2>2, <2>3, <2>4, <2>5, <3>1, <3>2 DEF Relies
  <2> QED BY <1>6, <2>2, <2>6, <2>7, DoneKeepsConfig
<1> QED
  <2>1. [cfgdb EXCEPT !.provider[p] = "gone",
           !.credential = [c \in Credentials |->
              IF Live(cfgdb.credential[c].state) /\ cfgdb.credential[c].provider = p
              THEN [@[c] EXCEPT !.state = "gone"] ELSE @[c]]] = d
    BY <1>t, <1>3, <1>4 DEF ConfigType
  <2> QED BY <1>1, <1>5, <1>6, <2>1 DEF DeleteProvider

\* A deployment no alias routes to and nobody holds goes.
LEMMA DeleteDeploymentKeepsConfig ==
    ASSUME ConfigInv, NEW adm \in Admins, DeleteDeployment(adm)
    PROVE  ConfigInv'
<1>t. cfgdb \in ConfigType
  BY DEF ConfigInv, ConfigTyped
<1>1. PICK x : x = cfgtx[adm].row
  OBVIOUS
<1>2. x \in Deployments /\ MayUpdate(adm, {x})
  BY <1>1 DEF DeleteDeployment, ConfigInv, ConfigTyped, TxTyped
<1>4. PICK d : d = [cfgdb EXCEPT !.deployment[x].state = "gone"]
  OBVIOUS
<1>5. CASE Done(adm, cfgdb)
  BY <1>5, RefusedKeepsConfig
<1>6. CASE Done(adm, d) /\ x \in Deployed /\ \A a \in AliasNames : x \notin cfgdb.alias[a]
  <2>2. /\ d \in ConfigType /\ d.alias = cfgdb.alias /\ d.grant = cfgdb.grant
        /\ d.credential = cfgdb.credential /\ d.provider = cfgdb.provider
        /\ \A y \in Deployments : /\ d.deployment[y].provider = cfgdb.deployment[y].provider
                                   /\ d.deployment[y].kind = cfgdb.deployment[y].kind
                                   /\ d.deployment[y].state = IF y = x THEN "gone" ELSE cfgdb.deployment[y].state
    <3>0. "gone" \in States
      BY DEF States
    <3>1. PICK r : r = [cfgdb.deployment[x] EXCEPT !.state = "gone"]
      OBVIOUS
    <3>2. /\ r \in [state : States, provider : Providers \cup {""}, kind : Kinds \cup {""}]
          /\ r.provider = cfgdb.deployment[x].provider /\ r.kind = cfgdb.deployment[x].kind /\ r.state = "gone"
      BY <1>t, <1>2, <3>0, <3>1 DEF ConfigType
    <3>3. d = [cfgdb EXCEPT !.deployment = [cfgdb.deployment EXCEPT ![x] = r]]
      BY <1>t, <1>4, <3>1 DEF ConfigType
    <3> QED BY <1>t, <1>2, <3>2, <3>3 DEF ConfigType
  <2>3. cfgdb' = d
    BY <1>6 DEF Done
  <2>4. Deployed' = Deployed \ {x} /\ Aliased' = Aliased /\ Provided' = Provided
    BY <2>2, <2>3 DEF Deployed, Aliased, Provided, Live
  <2>5. \A ts \in SUBSET Deployments : x \notin ts =>
            (targetsKind(ts) => targetsKind(ts)') /\ (OneSpace(ts) => OneSpace(ts)')
    BY <2>2, <2>3, <2>4 DEF targetsKind, OneSpace, KindOf
  <2>6. ConfigIsWhole'
    <3>1. (\A a \in Aliased : targetsKind(cfgdb.alias[a]) /\ OneSpace(cfgdb.alias[a]))'
      <4>1. ASSUME NEW a \in Aliased PROVE targetsKind(d.alias[a])' /\ OneSpace(d.alias[a])'
        <5>1. PICK ts : ts = cfgdb.alias[a]
          OBVIOUS
        <5>2. ts \in SUBSET Deployments /\ x \notin ts /\ targetsKind(ts) /\ OneSpace(ts)
          BY <1>t, <1>6, <5>1 DEF ConfigType, Aliased, ConfigInv, ConfigIsWhole
        <5> QED BY <2>2, <2>5, <5>1, <5>2
      <4> QED BY <2>3, <2>4, <4>1
    <3>2. \A k \in Keys : cfgdb'.grant[k] \subseteq Aliased'
      BY <2>2, <2>3, <2>4 DEF ConfigInv, ConfigIsWhole
    <3>3. \A y \in Deployed' : cfgdb'.deployment[y].provider \in Provided'
      BY <2>2, <2>3, <2>4 DEF ConfigInv, ConfigIsWhole, Deployed
    <3>4. \A c \in Credentials : Live(cfgdb'.credential[c].state) => cfgdb'.credential[c].provider \in Provided'
      BY <2>2, <2>3, <2>4 DEF ConfigInv, ConfigIsWhole
    <3> QED BY <3>1, <3>2, <3>3, <3>4 DEF ConfigIsWhole
  <2>7. ASSUME NEW b \in Admins, b # adm, NEW t, t = cfgtx[b] PROVE Relies(t)'
    <3>1. TxTyped(t) /\ Relies(t) /\ x \notin Shares(t)
      BY <1>2, <2>7 DEF ConfigInv, ConfigTyped, LocksHold, MayUpdate, Others
    <3>2. t.op \in {"createAlias", "updateAlias"} => targetsKind(t.arg)' /\ OneSpace(t.arg)'
      BY <2>5, <3>1 DEF Relies, Shares, TxTyped
    <3>3. t.op = "createDeployment" => d.deployment[t.row].state = "new"
      <4>1. cfgdb.deployment[x].state # "new"
        BY <1>6 DEF Deployed, Live
      <4> QED BY <2>2, <3>1, <4>1 DEF Relies, TxTyped
    <3> QED BY <2>3, <2>4, <3>1, <3>2, <3>3 DEF Relies
  <2> QED BY <1>6, <2>2, <2>6, <2>7, DoneKeepsConfig
<1> QED BY <1>1, <1>4, <1>5, <1>6 DEF DeleteDeployment

\* A new deployment of a provider its creator holds.
LEMMA CreateDeploymentKeepsConfig ==
    ASSUME ConfigInv, NEW adm \in Admins, NEW kind \in Kinds, CreateDeployment(adm, kind)
    PROVE  ConfigInv'
<1>t. cfgdb \in ConfigType
  BY DEF ConfigInv, ConfigTyped
<1>1. PICK x, p : /\ x = cfgtx[adm].row /\ p \in cfgtx[adm].arg
                  /\ Done(adm, [cfgdb EXCEPT !.deployment[x] = [state |-> "on", provider |-> p, kind |-> kind]])
  BY DEF CreateDeployment
<1>2. /\ x \in Deployments /\ p \in Providers /\ p \in Provided
      /\ cfgdb.deployment[x].state = "new" /\ cfgtx[adm].op = "createDeployment"
  BY <1>1 DEF CreateDeployment, ConfigInv, ConfigTyped, TxTyped, LocksHold, Relies
<1>4. PICK d : d = [cfgdb EXCEPT !.deployment[x] = [state |-> "on", provider |-> p, kind |-> kind]]
  OBVIOUS
<1>5. /\ d \in ConfigType /\ d.alias = cfgdb.alias /\ d.grant = cfgdb.grant
      /\ d.credential = cfgdb.credential /\ d.provider = cfgdb.provider
      /\ d.deployment[x].provider = p /\ d.deployment[x].state = "on"
      /\ \A y \in Deployments : y # x => d.deployment[y] = cfgdb.deployment[y]
  <2>1. "on" \in States
    BY DEF States
  <2> QED BY <1>t, <1>2, <1>4, <2>1 DEF ConfigType
<1>6. cfgdb' = d
  BY <1>1, <1>4 DEF Done
<1>7. /\ x \notin Deployed /\ Deployed' = Deployed \cup {x}
      /\ Aliased' = Aliased /\ Provided' = Provided
  BY <1>2, <1>5, <1>6 DEF Deployed, Aliased, Provided, Live
<1>8. \A ts \in SUBSET Deployments : targetsKind(ts) /\ OneSpace(ts) => targetsKind(ts)' /\ OneSpace(ts)'
  BY <1>5, <1>6, <1>7 DEF targetsKind, OneSpace, KindOf
<1>9. ConfigIsWhole'
  <2>1. (\A a \in Aliased : targetsKind(cfgdb.alias[a]) /\ OneSpace(cfgdb.alias[a]))'
    <3>1. ASSUME NEW a \in Aliased PROVE targetsKind(d.alias[a])' /\ OneSpace(d.alias[a])'
      <4>1. PICK ts : ts = cfgdb.alias[a]
        OBVIOUS
      <4>2. ts \in SUBSET Deployments /\ targetsKind(ts) /\ OneSpace(ts)
        BY <1>t, <4>1 DEF ConfigType, Aliased, ConfigInv, ConfigIsWhole
      <4> QED BY <1>5, <1>8, <4>1, <4>2
    <3> QED BY <1>6, <1>7, <3>1
  <2>2. \A k \in Keys : cfgdb'.grant[k] \subseteq Aliased'
    BY <1>5, <1>6, <1>7 DEF ConfigInv, ConfigIsWhole
  <2>3. \A y \in Deployed' : cfgdb'.deployment[y].provider \in Provided'
    BY <1>2, <1>5, <1>6, <1>7 DEF ConfigInv, ConfigIsWhole, Deployed
  <2>4. \A c \in Credentials : Live(cfgdb'.credential[c].state) => cfgdb'.credential[c].provider \in Provided'
    BY <1>5, <1>6, <1>7 DEF ConfigInv, ConfigIsWhole
  <2> QED BY <2>1, <2>2, <2>3, <2>4 DEF ConfigIsWhole
<1>10. ASSUME NEW b \in Admins, b # adm, NEW t, t = cfgtx[b] PROVE Relies(t)'
  <2>1. TxTyped(t) /\ Relies(t) /\ (t.op = "createDeployment" => t.row # x)
    BY <1>1, <1>2, <1>10 DEF ConfigInv, ConfigTyped, LocksHold, LocksApart
  <2>2. t.op \in {"createAlias", "updateAlias"} => targetsKind(t.arg)' /\ OneSpace(t.arg)'
    BY <1>8, <2>1 DEF Relies, TxTyped
  <2>3. t.op = "createDeployment" => d.deployment[t.row].state = "new"
    BY <1>5, <2>1 DEF Relies, TxTyped
  <2> QED BY <1>6, <1>7, <2>1, <2>2, <2>3 DEF Relies
<1> QED BY <1>1, <1>4, <1>5, <1>9, <1>10, DoneKeepsConfig

\* An administrator's commits.
LEMMA CommitKeepsConfig ==
    ASSUME ConfigInv, NEW adm \in Admins, Commit(adm)
    PROVE  ConfigInv'
<1>t. cfgdb \in ConfigType
  BY DEF ConfigInv, ConfigTyped
<1>0. PICK t : t = cfgtx[adm]
  OBVIOUS
<1>1. TxTyped(t) /\ Relies(t)
  BY <1>0 DEF ConfigInv, ConfigTyped, LocksHold
<1>2. CASE CreateCredential(adm)
  <2>1. PICK p \in t.arg : Done(adm, [cfgdb EXCEPT !.credential[t.row] = [state |-> "on", provider |-> p]])
    BY <1>0, <1>2 DEF CreateCredential
  <2>2. t.row \in Credentials /\ p \in Providers /\ p \in Provided
    BY <1>0, <1>1, <1>2 DEF CreateCredential, TxTyped, Relies
  <2>3. PICK d : d = [cfgdb EXCEPT !.credential[t.row] = [state |-> "on", provider |-> p]]
    OBVIOUS
  <2>4. /\ d \in ConfigType /\ d.alias = cfgdb.alias /\ d.grant = cfgdb.grant
        /\ d.deployment = cfgdb.deployment /\ d.provider = cfgdb.provider
        /\ d.credential[t.row].provider = p
        /\ \A c \in Credentials : c # t.row => d.credential[c] = cfgdb.credential[c]
    <3>1. "on" \in States
      BY DEF States
    <3> QED BY <1>t, <2>2, <2>3, <3>1 DEF ConfigType
  <2>5. cfgdb' = d
    BY <2>1, <2>3 DEF Done
  <2>6. Provided' = Provided
    BY <2>4, <2>5 DEF Provided
  <2>7. ASSUME NEW c \in Credentials, Live(d.credential[c].state) PROVE d.credential[c].provider \in Provided'
    <3>1. CASE c = t.row BY <2>2, <2>4, <2>6, <3>1
    <3>2. CASE c # t.row BY <2>4, <2>6, <2>7, <3>2 DEF ConfigInv, ConfigIsWhole
    <3> QED BY <3>1, <3>2
  <2> QED BY <2>1, <2>3, <2>4, <2>6, <2>7, QuietKeepsConfig
<1>3. CASE CreateAlias(adm) \/ UpdateAlias(adm)
  <2>1. CASE Done(adm, cfgdb)
    BY <2>1, RefusedKeepsConfig
  <2>2. CASE Done(adm, [cfgdb EXCEPT !.alias[t.row] = t.arg])
    <3>1. t.row \in AliasNames /\ t.arg \subseteq Deployments /\ targetsKind(t.arg) /\ OneSpace(t.arg) /\ t.arg # {}
      BY <1>0, <1>1, <1>3 DEF CreateAlias, UpdateAlias, TxTyped, Relies, targetsKind
    <3>2. PICK d : d = [cfgdb EXCEPT !.alias[t.row] = t.arg]
      OBVIOUS
    <3>3. /\ d \in ConfigType /\ d.provider = cfgdb.provider /\ d.grant = cfgdb.grant
          /\ d.deployment = cfgdb.deployment /\ d.credential = cfgdb.credential
          /\ \A a \in AliasNames : d.alias[a] = IF a = t.row THEN t.arg ELSE cfgdb.alias[a]
      BY <1>t, <3>1, <3>2 DEF ConfigType
    <3>4. \A a \in Aliased : a \in AliasNames /\ d.alias[a] # {}
      BY <3>1, <3>3 DEF Aliased
    <3>5. \A k \in Keys : d.grant[k] \subseteq Aliased
      BY <3>3 DEF ConfigInv, ConfigIsWhole
    <3>6. \A b \in Admins : cfgtx[b].op = "putKeyPolicy" => cfgtx[b].arg \subseteq Aliased
      BY DEF ConfigInv, LocksHold, Relies
    <3>7. \A a \in AliasNames : d.alias[a] # {} =>
             d.alias[a] = cfgdb.alias[a] \/ (targetsKind(d.alias[a]) /\ OneSpace(d.alias[a]))
      BY <3>1, <3>3
    <3> QED BY <2>2, <3>2, <3>3, <3>4, <3>5, <3>6, <3>7, RoutesKeepConfig
  <2> QED BY <1>0, <1>3, <2>1, <2>2 DEF CreateAlias, UpdateAlias
<1>4. CASE DeleteAlias(adm)
  <2>1. CASE Done(adm, cfgdb)
    BY <2>1, RefusedKeepsConfig
  <2>2. CASE Done(adm, [cfgdb EXCEPT !.alias[t.row] = {}]) /\ \A k \in Keys : t.row \notin cfgdb.grant[k]
    <3>1. t.row \in AliasNames /\ Updates(t) = {t.row}
      BY <1>0, <1>1, <1>4 DEF DeleteAlias, TxTyped, Updates
    <3>2. PICK d : d = [cfgdb EXCEPT !.alias[t.row] = {}]
      OBVIOUS
    <3>3. /\ d \in ConfigType /\ d.provider = cfgdb.provider /\ d.grant = cfgdb.grant
          /\ d.deployment = cfgdb.deployment /\ d.credential = cfgdb.credential
          /\ \A a \in AliasNames : d.alias[a] = IF a = t.row THEN {} ELSE cfgdb.alias[a]
      BY <1>t, <3>1, <3>2 DEF ConfigType
    <3>4. \A a \in Aliased : a \in AliasNames /\ (a # t.row => d.alias[a] # {})
      BY <3>3 DEF Aliased
    <3>5. \A k \in Keys : d.grant[k] \subseteq Aliased /\ t.row \notin d.grant[k]
      BY <2>2, <3>3 DEF ConfigInv, ConfigIsWhole
    <3>6. ASSUME NEW b \in Admins, b # adm, cfgtx[b].op = "putKeyPolicy"
          PROVE  cfgtx[b].arg \subseteq Aliased /\ t.row \notin cfgtx[b].arg
      <4>1. Shares(cfgtx[b]) = cfgtx[b].arg
        BY <3>6 DEF Shares
      <4>2. Updates(cfgtx[adm]) \cap (Updates(cfgtx[b]) \cup Shares(cfgtx[b])) = {}
        BY <3>6 DEF ConfigInv, LocksApart
      <4> QED BY <1>0, <3>1, <3>6, <4>1, <4>2 DEF ConfigInv, LocksHold, Relies
    <3>7. \A a \in AliasNames : d.alias[a] # {} =>
             d.alias[a] = cfgdb.alias[a] \/ (targetsKind(d.alias[a]) /\ OneSpace(d.alias[a]))
      BY <3>3
    <3>8. \A k \in Keys : \A a \in d.grant[k] : d.alias[a] # {}
      BY <3>4, <3>5
    <3>9. \A b \in Admins : b # adm /\ cfgtx[b].op = "putKeyPolicy" =>
             \A a \in cfgtx[b].arg : d.alias[a] # {}
      BY <3>4, <3>6
    <3>10. Done(adm, d)
      BY <2>2, <3>2
    <3> QED BY <3>3, <3>10, <3>7, <3>8, <3>9, RoutesKeepConfig
  <2> QED BY <1>0, <1>4, <2>1, <2>2 DEF DeleteAlias
<1>5. CASE PutKeyPolicy(adm)
  <2>1. t.row \in Keys /\ t.arg \subseteq AliasNames /\ t.arg \subseteq Aliased
    BY <1>0, <1>1, <1>5 DEF PutKeyPolicy, TxTyped, Relies
  <2>2. PICK d : d = [cfgdb EXCEPT !.grant[t.row] = t.arg]
    OBVIOUS
  <2>3. /\ d \in ConfigType /\ d.provider = cfgdb.provider /\ d.alias = cfgdb.alias
        /\ d.deployment = cfgdb.deployment /\ d.credential = cfgdb.credential
        /\ \A k \in Keys : d.grant[k] = IF k = t.row THEN t.arg ELSE cfgdb.grant[k]
    BY <1>t, <2>1, <2>2 DEF ConfigType
  <2>4. \A k \in Keys : d.grant[k] \subseteq Aliased
    BY <2>1, <2>3 DEF ConfigInv, ConfigIsWhole
  <2>5. \A b \in Admins : cfgtx[b].op = "putKeyPolicy" => cfgtx[b].arg \subseteq Aliased
    BY DEF ConfigInv, LocksHold, Relies
  <2>6. \A a \in Aliased : d.alias[a] # {}
    BY <2>3 DEF Aliased
  <2>7. Done(adm, d)
    BY <1>0, <1>5, <2>2 DEF PutKeyPolicy
  <2> QED BY <2>3, <2>4, <2>5, <2>6, <2>7, RoutesKeepConfig
<1> QED
  BY <1>2, <1>3, <1>4, <1>5, DeleteProviderKeepsConfig, DeleteDeploymentKeepsConfig,
     CreateDeploymentKeepsConfig DEF Commit

-----------------------------------------------------------------------------
(* The catalog and the opened keys.                                        *)

\* A call that has read a snapshot read the current one, or an older one it
\* may prune the cache by; the cache was pruned by a snapshot already loaded.
KeysFollow ==
    /\ catalog.ver \in Nat /\ opened.from \in Nat \cup {-1} /\ opened.from <= catalog.ver
    /\ DOMAIN inflight = Callers
    /\ \A r \in Callers : inflight[r].step = "read" =>
          /\ inflight[r].snap \in Nat /\ inflight[r].snap <= catalog.ver
          /\ inflight[r].snap = catalog.ver => inflight[r].held = Held(catalog)
    /\ OpenedKeysAreHeld

CatalogInv == ConfigInv /\ KeysFollow

\* What leaves the stored configuration and its transactions alone keeps it whole.
LEMMA ConfigStays ==
    ASSUME ConfigInv, cfgdb' = cfgdb, cfgtx' = cfgtx
    PROVE  ConfigInv'
<1>1. ConfigTyped'
  BY DEF ConfigInv, ConfigTyped
<1>2. LocksHold'
  BY DEF ConfigInv, LocksHold, Relies, Provided, Deployed, Aliased, targetsKind, OneSpace, KindOf
<1>3. LocksApart'
  BY DEF ConfigInv, LocksApart
<1>4. ConfigIsWhole'
  BY DEF ConfigInv, ConfigIsWhole, Provided, Deployed, Aliased, targetsKind, OneSpace, KindOf
<1> QED BY <1>1, <1>2, <1>3, <1>4 DEF ConfigInv

\* A call on the catalog leaves the configuration alone.
LEMMA CallKeepsKeys ==
    ASSUME KeysFollow, NEW r \in Callers,
           OpenReads(r) \/ OpenLooksUp(r) \/ OpenKeeps(r) \/ \E k \in Keys, a \in AliasNames : Route(r, k, a)
    PROVE  KeysFollow'
<1> USE DEF KeysFollow, OpenedKeysAreHeld
<1>0. catalog' = catalog /\ Held(catalog)' = Held(catalog)
  BY DEF OpenReads, OpenLooksUp, OpenKeeps, Route, Held
<1>1. CASE OpenReads(r)
  BY <1>0, <1>1 DEF OpenReads
<1>2. CASE OpenLooksUp(r)
  <2>1. PICK c : c = inflight[r]
    OBVIOUS
  <2>2. PICK n : n = inflight'[r]
    OBVIOUS
  <2>3. /\ c.step = "read" /\ n.step # "read" /\ inflight' = [inflight EXCEPT ![r] = n]
        /\ opened' = [keys |-> IF c.snap = opened.from THEN opened.keys ELSE opened.keys \cap c.held,
                      from |-> c.snap]
    BY <1>2, <2>1, <2>2 DEF OpenLooksUp, NoCall
  <2>4. c.snap \in Nat /\ c.snap <= catalog.ver /\ (c.snap = catalog.ver => c.held = Held(catalog))
    BY <2>1, <2>3
  <2>5. opened'.from \in Nat \cup {-1} /\ opened'.from <= catalog.ver
    BY <2>3, <2>4
  <2>6. opened'.from = catalog.ver => opened'.keys \subseteq Held(catalog)
    BY <2>3, <2>4
  <2>7. \A q \in Callers : inflight'[q].step = "read" => inflight'[q] = inflight[q]
    BY <2>3
  <2> QED BY <1>0, <2>3, <2>5, <2>6, <2>7
<1>3. CASE OpenKeeps(r)
  <2>1. PICK n : n = NoCall
    OBVIOUS
  <2>2. n.step = "none" /\ inflight' = [inflight EXCEPT ![r] = n]
    BY <1>3, <2>1 DEF OpenKeeps, NoCall
  <2>3. PICK kept : kept = {inflight[r].cred} \cap Held(catalog)
    OBVIOUS
  <2>4. opened' = [opened EXCEPT !.keys = opened.keys \cup kept] /\ kept \subseteq Held(catalog)
    BY <1>3, <2>3 DEF OpenKeeps
  <2>5. opened'.from = opened.from
    BY <2>4
  <2>6. opened'.keys \subseteq opened.keys \cup kept
    BY <2>4
  <2>7. \A q \in Callers : inflight'[q].step = "read" => inflight'[q] = inflight[q]
    BY <2>2
  <2> QED BY <1>0, <2>2, <2>4, <2>5, <2>6, <2>7
<1>4. ASSUME NEW k \in Keys, NEW a \in AliasNames, Route(r, k, a) PROVE KeysFollow'
  <2>1. PICK n : n.step = "routed" /\ inflight' = [inflight EXCEPT ![r] = n] /\ opened' = opened
    BY <1>4 DEF Route, NoCall
  <2>2. \A q \in Callers : inflight'[q].step = "read" => inflight'[q] = inflight[q]
    BY <2>1
  <2>3. DOMAIN inflight' = Callers
    BY <2>1
  <2> QED BY SMTT(20), <1>0, <2>1, <2>2, <2>3
<1> QED BY <1>1, <1>2, <1>3, <1>4

\* THEOREM: whatever administrators' transactions, reloads and calls do, the
\* stored configuration stays whole and a cache pruned by the current snapshot
\* holds no key of a credential that snapshot lacks.
THEOREM CatalogStaysWhole == CSpec => []CatalogIsWhole
<1>1. CInit => CatalogInv
  <2> SUFFICES ASSUME CInit PROVE CatalogInv
    OBVIOUS
  <2>1. /\ Provided = {} /\ Deployed = {} /\ Aliased = {} /\ cfgdb \in ConfigType
        /\ \A c \in Credentials : ~ Live(cfgdb.credential[c].state)
        /\ \A k \in Keys : cfgdb.grant[k] = {}
    <3>1. "new" \in States /\ ~ Live("new")
      BY DEF States, Live
    <3> QED BY <3>1 DEF CInit, EmptyConfig, Provided, Deployed, Aliased, ConfigType
  <2>2. TxTyped(Idle) /\ Relies(Idle) /\ Updates(Idle) = {} /\ Idle.op = "idle"
    BY DEF TxTyped, Relies, Updates, Idle
  <2>3. ConfigInv
    BY <2>1, <2>2 DEF CInit, ConfigInv, ConfigTyped, LocksHold, LocksApart, ConfigIsWhole
  <2>4. KeysFollow
    <3>1. catalog.ver = 0 /\ opened.from = -1 /\ DOMAIN inflight = Callers
      BY DEF CInit
    <3>2. \A r \in Callers : inflight[r].step = "none"
      BY DEF CInit, NoCall
    <3>3. OpenedKeysAreHeld
      BY <3>1 DEF OpenedKeysAreHeld
    <3>4. \A r \in Callers : inflight[r].step # "read"
      BY <3>2
    <3> QED BY SMTT(20), <3>1, <3>3, <3>4 DEF KeysFollow
  <2> QED BY <2>3, <2>4 DEF CatalogInv
<1>2. CatalogInv /\ [CNext]_cvars => CatalogInv'
  <2> SUFFICES ASSUME CatalogInv, [CNext]_cvars PROVE CatalogInv'
    OBVIOUS
  <2>1. ASSUME NEW adm \in Admins, Write(adm) \/ Commit(adm) PROVE CatalogInv'
    <3>1. ConfigInv'
      BY <2>1, WriteKeepsConfig, CommitKeepsConfig DEF CatalogInv
    <3>2. UNCHANGED <<catalog, opened, inflight>>
      BY <2>1 DEF Write, Commit, CreateProvider, UpdateProvider, DeleteProviderCheck, CreateCredentialLock,
         CreateDeploymentLock, UpdateCredential, DeleteCredential, UpdateDeployment, DeleteDeploymentCheck,
         DeleteAliasLock, CreateAliasLock, UpdateAliasLock, DeleteKeyPolicy, PutKeyPolicyLock, DeleteProvider,
         CreateCredential, DeleteDeployment, CreateAlias, UpdateAlias, DeleteAlias, PutKeyPolicy,
         CreateDeployment, Open, Done
    <3> QED BY <3>1, <3>2 DEF CatalogInv, KeysFollow, OpenedKeysAreHeld, Held
  <2>2. CASE Reload
    <3>1. ConfigInv'
      <4>1. cfgdb' = cfgdb /\ cfgtx' = cfgtx
        BY <2>2 DEF Reload
      <4> QED BY <4>1, ConfigStays DEF CatalogInv
    <3>2. KeysFollow'
      BY <2>2 DEF CatalogInv, Reload, KeysFollow, OpenedKeysAreHeld
    <3> QED BY <3>1, <3>2 DEF CatalogInv
  <2>3. ASSUME NEW r \in Callers,
               OpenReads(r) \/ OpenLooksUp(r) \/ OpenKeeps(r) \/ \E k \in Keys, a \in AliasNames : Route(r, k, a)
        PROVE  CatalogInv'
    <3>1. cfgdb' = cfgdb /\ cfgtx' = cfgtx
      BY <2>3 DEF OpenReads, OpenLooksUp, OpenKeeps, Route
    <3>2. ConfigInv'
      BY <3>1, ConfigStays DEF CatalogInv
    <3> QED BY <2>3, <3>2, CallKeepsKeys DEF CatalogInv
  <2>4. CASE UNCHANGED cvars
    <3>1. ConfigInv'
      BY <2>4, ConfigStays DEF cvars, CatalogInv
    <3>2. KeysFollow'
      BY <2>4 DEF cvars, CatalogInv, KeysFollow, OpenedKeysAreHeld, Held
    <3> QED BY <3>1, <3>2 DEF CatalogInv
  <2> QED BY <2>1, <2>2, <2>3, <2>4 DEF CNext
<1>3. CatalogInv => CatalogIsWhole
  BY DEF CatalogInv, ConfigInv, KeysFollow, CatalogIsWhole
<1> QED BY <1>1, <1>2, <1>3, PTL DEF CSpec
=============================================================================
