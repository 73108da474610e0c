------------------------------- MODULE Vaults -------------------------------
(***************************************************************************)
(* Vaults and the credentials in them: the API that creates, updates,      *)
(* archives, deletes and validates them (api/vaults.go,                    *)
(* api/vaultcredentials.go, api/vaultcredauth.go, api/vaultvalidate.go)    *)
(* and the dials of MCP servers that resolve one and refresh its token     *)
(* (vaultresolve, oauthrefresh).                                           *)
(*                                                                         *)
(* A credential's secrets are sealed together: `seal` stands for the       *)
(* ciphertext, fresh at every encryption, 0 for none.  Tokens and client   *)
(* secrets are numbers, 0 for an absent one; an access token below zero    *)
(* cannot be sent as a header.  Updates, dials and validations read the    *)
(* row, leave the database for the network or the cipher, and come back.   *)
(***************************************************************************)
EXTENDS Integers, Sequences, FiniteSets

CONSTANTS VaultIds, CredIds,
          CredShape,           \* the vault, key, type and token endpoint arm of each credential
          SessionVaults,       \* the vaults of the dialling session, in their order
          VaultCredentialsMax,
          VaultCallers,             \* concurrent updates, dials and validations
          Updates,             \* the fields an update may carry
          Starts,              \* the vaults and credentials deleted before the start, and the calls left
          MaxFresh             \* bound: seals and tokens made

VARIABLES vaults,   \* each vault: state, and the transaction that holds its row
          creds,    \* each credential's row
          issuer,   \* the authorization server: does it rotate, the refresh tokens it honours
          uses,    \* what each caller is doing
          fresh,    \* the last seal or token made
          left,     \* bound: the calls still to come
          told      \* history: the last client secret accepted, and whether a rotation was lost for a known cause

vars == <<vaults, creds, issuer, uses, fresh, left, told>>

NoRow == [state |-> "none", seal |-> 0, access |-> 0, refresh |-> 0, arm |-> "none", client |-> 0,
          due |-> "never", by |-> "none"]

NoGrant == [access |-> 0, refresh |-> 0, expires |-> "never"]

Idle == [op |-> "idle", cred |-> "none", base |-> NoRow, grant |-> NoGrant]

VaultsInit ==
    /\ \E start \in Starts :
          /\ vaults = [v \in VaultIds |-> [state |-> IF v \in start.gone THEN "gone" ELSE "live", lock |-> "none"]]
          /\ creds = [c \in CredIds |-> [NoRow EXCEPT !.state = IF c \in start.gone THEN "gone" ELSE "none"]]
          /\ left = start.left
    /\ \E r \in BOOLEAN : issuer = [rotates |-> r, good |-> {}]
    /\ uses = [k \in VaultCallers |-> Idle]
    /\ fresh = 0
    /\ told = [c \in CredIds |-> [client |-> 0, lost |-> FALSE]]

\* A call has no name of its own: the next one takes a free slot.
Free(k) == k = CHOOSE j \in VaultCallers : uses[j].op = "idle"

Sendable(token) == token > 0

Live(c) == creds[c].state = "live"

Siblings(c) == {d \in CredIds \ {c} : Live(d) /\ CredShape[d].vault = CredShape[c].vault}

-----------------------------------------------------------------------------
(* Creation.                                                               *)

\* The endpoint's arm and the client secret the row ends with, when the
\* request passes; the secret may be left out only where one is kept.
ParseTokenEndpointAuth(arm, secret, allowNone, secretRequired) ==
    /\ arm = "none" => allowNone
    /\ (arm # "none" /\ secretRequired) => secret # 0

ParseRefreshCreate(row, shape, n) ==
    [row EXCEPT !.refresh = n + 2, !.arm = shape.arm, !.client = IF shape.arm = "none" THEN 0 ELSE n + 3]

ParseMCPOAuthCreate(shape, n) ==
    LET row == [NoRow EXCEPT !.state = "live", !.seal = n + 1, !.access = n + 1, !.due = shape.due]
    IN IF shape.refreshes THEN ParseRefreshCreate(row, shape, n) ELSE row

ParseStaticBearerCreate(n) == [NoRow EXCEPT !.state = "live", !.seal = n + 1, !.access = n + 1]

ParseCredAuthCreate(shape, n) ==
    IF shape.type = "mcp_oauth" THEN ParseMCPOAuthCreate(shape, n) ELSE ParseStaticBearerCreate(n)

\* The transaction's first half: the vault's row is locked and found live,
\* with room left.
LockVaultRow(c) ==
    LET v == CredShape[c].vault
    IN /\ creds[c].state = "none"
       /\ vaults[v].lock = "none"
       /\ vaults[v].state = "live"
       /\ Cardinality(Siblings(c)) < VaultCredentialsMax
       /\ vaults' = [vaults EXCEPT ![v].lock = c]
       /\ UNCHANGED <<creds, issuer, uses, fresh, left, told>>

\* Its second half: the row goes in, unless an active one has its key.
CreateVaultCredential(c) ==
    LET v == CredShape[c].vault
        row == [ParseCredAuthCreate(CredShape[c], fresh) EXCEPT !.by = "operator"]
    IN /\ vaults[v].lock = c
       /\ fresh + 3 =< MaxFresh
       /\ vaults' = [vaults EXCEPT ![v].lock = "none"]
       /\ IF \E d \in Siblings(c) : CredShape[d].key = CredShape[c].key
          THEN UNCHANGED <<creds, issuer, fresh, told>>
          ELSE /\ creds' = [creds EXCEPT ![c] = row]
               /\ issuer' = [issuer EXCEPT !.good = @ \union ({row.refresh} \ {0})]
               /\ fresh' = fresh + 3
               /\ told' = [told EXCEPT ![c].client = row.client]
       /\ UNCHANGED <<uses, left>>

-----------------------------------------------------------------------------
(* Updates: the row is read without a lock, resealed outside any           *)
(* transaction, and written if its ciphertext is still the one read.       *)

\* `up` says which fields the request carries; a carried secret is a new one.
ApplyMCPOAuthUpdate(row, up, n) ==
    [row EXCEPT !.access = IF up.access THEN n + 1 ELSE @,
                !.refresh = IF up.refresh THEN n + 2 ELSE @,
                !.arm = IF up.arm = "keep" THEN @ ELSE up.arm,
                !.client = IF up.client THEN n + 3 ELSE @,
                !.due = IF up.expires = "keep" THEN @ ELSE up.expires]

UpdateAdmitted(row, up, type, n) ==
    IF type = "mcp_oauth"
    THEN /\ (up.refresh \/ up.arm # "keep") => row.refresh # 0
         /\ up.arm = "keep" => ~ up.client
         /\ up.arm # "keep" =>
                ParseTokenEndpointAuth(up.arm, IF up.client THEN n + 3 ELSE 0, FALSE,
                                       ~ (up.arm = row.arm /\ row.client # 0))
    ELSE ~ up.refresh /\ up.arm = "keep" /\ ~ up.client /\ up.expires = "keep"

ApplyCredAuthUpdate(row, up, type, n) ==
    IF type = "mcp_oauth" THEN ApplyMCPOAuthUpdate(row, up, n)
    ELSE [row EXCEPT !.access = IF up.access THEN n + 1 ELSE @]

\* The unlocked read and the reseal; the operator's new refresh token comes
\* from the issuer.
ResealCredAuth(k, c, up) ==
    LET row == ApplyCredAuthUpdate(creds[c], up, CredShape[c].type, fresh)
    IN /\ uses[k].op = "idle" /\ Free(k) /\ left > 0
       /\ fresh + 4 =< MaxFresh
       /\ Live(c)
       /\ UpdateAdmitted(creds[c], up, CredShape[c].type, fresh)
       /\ uses' = [uses EXCEPT ![k] = [op |-> "update", cred |-> c, base |-> creds[c],
                        grant |-> [row EXCEPT !.seal = fresh + 4, !.by = "operator"]]]
       /\ issuer' = [issuer EXCEPT !.good = @ \union (IF up.refresh THEN {row.refresh} ELSE {})]
       /\ fresh' = fresh + 4
       /\ left' = left - 1
       /\ UNCHANGED <<vaults, creds, told>>

\* The locked half: gone, archived or modified meanwhile, it is refused.
UpdateVaultCredential(k) ==
    LET c == uses[k].cred
        new == uses[k].grant
    IN /\ uses[k].op = "update"
       /\ IF Live(c) /\ creds[c].seal = uses[k].base.seal
          THEN /\ creds' = [creds EXCEPT ![c] = new]
               /\ told' = [told EXCEPT ![c] = [client |-> new.client,
                                               lost |-> @.lost /\ new.refresh = creds[c].refresh]]
          ELSE UNCHANGED <<creds, told>>
       /\ uses' = [uses EXCEPT ![k] = Idle]
       /\ UNCHANGED <<vaults, issuer, fresh, left>>

-----------------------------------------------------------------------------
(* Archives and deletes.                                                   *)

Purged(row) == IF row.state \in {"live", "archived"} THEN [row EXCEPT !.state = "archived", !.seal = 0] ELSE row

ArchiveVaultCredential(c) ==
    /\ Live(c)
    /\ creds' = [creds EXCEPT ![c] = Purged(@)]
    /\ UNCHANGED <<vaults, issuer, uses, fresh, left, told>>

DeleteVaultCredential(c) ==
    /\ creds[c].state \in {"live", "archived"}
    /\ creds' = [creds EXCEPT ![c] = [NoRow EXCEPT !.state = "gone"]]
    /\ UNCHANGED <<vaults, issuer, uses, fresh, left, told>>

\* The first statement of the archive locks the vault's row, ...
ArchiveVaultRow(v) ==
    /\ vaults[v] = [state |-> "live", lock |-> "none"]
    /\ vaults' = [vaults EXCEPT ![v].lock = "archive"]
    /\ UNCHANGED <<creds, issuer, uses, fresh, left, told>>

\* ... the second purges the credentials committed by then, and it commits.
ArchiveVault(v) ==
    /\ vaults[v].lock = "archive"
    /\ vaults' = [vaults EXCEPT ![v] = [state |-> "archived", lock |-> "none"]]
    /\ creds' = [c \in CredIds |-> IF CredShape[c].vault = v THEN Purged(creds[c]) ELSE creds[c]]
    /\ UNCHANGED <<issuer, uses, fresh, left, told>>

DeleteVault(v) ==
    /\ vaults[v].lock = "none" /\ vaults[v].state # "gone"
    /\ vaults' = [vaults EXCEPT ![v].state = "gone"]
    /\ creds' = [c \in CredIds |->
                    IF CredShape[c].vault = v /\ creds[c].state # "none"
                    THEN [NoRow EXCEPT !.state = "gone"] ELSE creds[c]]
    /\ UNCHANGED <<issuer, uses, fresh, left, told>>

-----------------------------------------------------------------------------
(* Dials and validations.                                                  *)

\* The live credentials for the server, by vault.
Matching(v) == {c \in CredIds : CredShape[c].vault = v /\ Live(c) /\ vaults[v].state = "live"}

\* The first vault with one decides.
Winner == LET first == {i \in DOMAIN SessionVaults :
                            /\ Matching(SessionVaults[i]) # {}
                            /\ \A j \in 1 .. i - 1 : Matching(SessionVaults[j]) = {}}
          IN IF first = {} THEN {} ELSE UNION {Matching(SessionVaults[i]) : i \in first}

Asking(k, op, c) ==
    /\ uses[k].op = "idle" /\ Free(k) /\ left > 0
    /\ uses' = [uses EXCEPT ![k] = [op |-> op, cred |-> c, base |-> creds[c], grant |-> NoGrant]]
    /\ left' = left - 1
    /\ UNCHANGED <<vaults, creds, issuer, fresh, told>>

\* A resolution that finds nothing due answers the stored token, and changes
\* nothing.
MCPCredentialFor(k) ==
    \E c \in Winner :
        /\ CredShape[c].type = "mcp_oauth"
        /\ creds[c].refresh # 0 /\ creds[c].due = "due"
        /\ Asking(k, "dial", c)

\* A validation exchanges whether or not the token is due.
ValidateVaultCredential(k, c) ==
    /\ Live(c)
    /\ CredShape[c].type = "mcp_oauth" /\ creds[c].refresh # 0
    /\ Asking(k, "validate", c)

\* What the endpoint gives for the refresh token it honours.
Grants ==
    {[access |-> g[1], refresh |-> IF issuer.rotates THEN fresh + 2 ELSE 0, expires |-> g[2]] :
        g \in {<<fresh + 1, "later">>, <<- (fresh + 1), "never">>}}

Granted(k, g) ==
    /\ fresh + 2 =< MaxFresh
    /\ uses[k].base.refresh \in issuer.good
    /\ issuer' = IF g.refresh = 0 THEN issuer
                 ELSE [issuer EXCEPT !.good = (@ \ {uses[k].base.refresh}) \union {g.refresh}]
    /\ fresh' = fresh + 2

\* The endpoint answers with a grant, or grants and the answer is lost.
Granting(k) ==
    \E g \in Grants :
        /\ Granted(k, g)
        /\ \/ uses' = [uses EXCEPT ![k].grant = g] /\ UNCHANGED told
           \/ /\ uses' = [uses EXCEPT ![k] = Idle]
              /\ told' = [told EXCEPT ![uses[k].cred].lost = @ \/ g.refresh # 0]

\* A dial's exchange, with no lock and no transaction held: granted, refused,
\* or told to come back by an endpoint that cannot be reached or is busy.
Exchange(k) ==
    /\ uses[k].op = "dial" /\ uses[k].grant = NoGrant
    /\ \/ Granting(k)
       \/ /\ \/ /\ uses[k].base.refresh \notin issuer.good
                /\ uses' = [uses EXCEPT ![k].op = "refused"]
             \/ uses' = [uses EXCEPT ![k] = Idle]
          /\ UNCHANGED <<issuer, fresh, told>>
    /\ UNCHANGED <<vaults, creds, left>>

\* A validation's: any failure is reported, and nothing is read again.
RefreshExchange(k) ==
    /\ uses[k].op = "validate" /\ uses[k].grant = NoGrant
    /\ \/ Granting(k)
       \/ uses' = [uses EXCEPT ![k] = Idle] /\ UNCHANGED <<issuer, fresh, told>>
    /\ UNCHANGED <<vaults, creds, left>>

\* A refused dial reads the row again: the token another one stored is sent,
\* an unchanged one makes the credential unusable.
RotatedElsewhere(k) ==
    /\ uses[k].op = "refused"
    /\ uses' = [uses EXCEPT ![k] = Idle]
    /\ UNCHANGED <<vaults, creds, issuer, fresh, left, told>>

ExpiryFor(row, g, op) == IF op = "validate" /\ g.expires = "never" THEN row.due ELSE g.expires

\* The row with the grant in it.  A dial keeps its access token and expiry
\* when the new token cannot be sent.
Rotated(row, g, op) ==
    LET kept == op = "dial" /\ ~ Sendable(g.access)
    IN [row EXCEPT !.seal = fresh + 1,
                   !.access = IF kept THEN @ ELSE g.access,
                   !.refresh = IF g.refresh = 0 THEN @ ELSE g.refresh,
                   !.due = IF kept THEN @ ELSE ExpiryFor(row, g, op),
                   !.by = "rotation"]

\* The write back: on the ciphertext that was read, or not at all.
PersistRotationBlind(k) ==
    LET c == uses[k].cred
        g == uses[k].grant
    IN /\ uses[k].op \in {"dial", "validate"} /\ g # NoGrant
       /\ fresh < MaxFresh
       /\ IF Live(c)
          THEN /\ creds' = [creds EXCEPT ![c] = Rotated(uses[k].base, g, uses[k].op)]
               /\ fresh' = fresh + 1
               /\ UNCHANGED told
          ELSE UNCHANGED <<creds, fresh, told>>
       /\ uses' = [uses EXCEPT ![k] = Idle]
       /\ UNCHANGED <<vaults, issuer, left>>

PersistRotation(k) ==
    LET c == uses[k].cred
        g == uses[k].grant
        kept == uses[k].op = "validate" \/ Sendable(g.access) \/ g.refresh # 0
    IN /\ uses[k].op \in {"dial", "validate"} /\ g # NoGrant
       /\ fresh < MaxFresh
       /\ IF kept /\ Live(c) /\ creds[c].seal = uses[k].base.seal
          THEN /\ creds' = [creds EXCEPT ![c] = Rotated(uses[k].base, g, uses[k].op)]
               /\ fresh' = fresh + 1
               /\ UNCHANGED told
          ELSE /\ told' = [told EXCEPT ![c].lost = @ \/ (g.refresh # 0 /\ creds[c].by = "operator")]
               /\ UNCHANGED <<creds, fresh>>
       /\ uses' = [uses EXCEPT ![k] = Idle]
       /\ UNCHANGED <<vaults, issuer, left>>

\* The reseal or the write fails: the rotation lived in this process only.
PersistFails(k) ==
    /\ uses[k].op \in {"dial", "validate"} /\ uses[k].grant # NoGrant
    /\ told' = [told EXCEPT ![uses[k].cred].lost = @ \/ uses[k].grant.refresh # 0]
    /\ uses' = [uses EXCEPT ![k] = Idle]
    /\ UNCHANGED <<vaults, creds, issuer, fresh, left>>

\* Time passes: the token is within the leeway of its expiry.
Expires(c) ==
    /\ Live(c) /\ creds[c].due = "later"
    /\ creds' = [creds EXCEPT ![c].due = "due"]
    /\ UNCHANGED <<vaults, issuer, uses, fresh, left, told>>

VaultsNext ==
    \/ \E c \in CredIds :
          \/ LockVaultRow(c) \/ CreateVaultCredential(c)
          \/ ArchiveVaultCredential(c) \/ DeleteVaultCredential(c)
          \/ Expires(c)
    \/ \E v \in VaultIds : ArchiveVaultRow(v) \/ ArchiveVault(v) \/ DeleteVault(v)
    \/ \E k \in VaultCallers :
          \/ /\ uses[k].op = "idle" /\ left > 0
             /\ \/ \E c \in CredIds : \/ \E up \in Updates : ResealCredAuth(k, c, up)
                                      \/ ValidateVaultCredential(k, c)
                \/ MCPCredentialFor(k)
          \/ UpdateVaultCredential(k)
          \/ Exchange(k) \/ RefreshExchange(k) \/ RotatedElsewhere(k)
          \/ PersistRotation(k) \/ PersistFails(k)

VaultsSpec == VaultsInit /\ [][VaultsNext]_vars

-----------------------------------------------------------------------------
\* A rotation of the credential's token is on its way to its row.
OnItsWay(c) ==
    \E k \in VaultCallers : /\ uses[k].cred = c
                       /\ uses[k].grant # NoGrant
                       /\ uses[k].grant.refresh \in issuer.good

\* Secrets outlive neither their archive nor their owner's will: an archived
\* credential, or one whose vault is archived, has no ciphertext, whatever
\* update, refresh or validation was under way; a vault's active credentials
\* have keys of their own and stay within the cap; the client secret is the
\* last one an update put there, never undone by a write that read an older
\* row, and an arm that needs one has one; and the stored refresh token is
\* one the issuer honours, unless its replacement is on its way or was lost
\* with an answer, a failed write, or to an update of the row in between.
SecretsAreCurrent ==
    /\ \A c \in CredIds :
          /\ Live(c) <=> creds[c].seal # 0
          /\ Live(c) => vaults[CredShape[c].vault].state = "live"
          /\ Live(c) => \A d \in Siblings(c) : CredShape[d].key # CredShape[c].key
          /\ Live(c) => Cardinality(Siblings(c)) < VaultCredentialsMax
          /\ Live(c) => creds[c].client = told[c].client
          /\ creds[c].arm # "none" => creds[c].client # 0
          /\ (Live(c) /\ creds[c].refresh # 0) =>
                creds[c].refresh \in issuer.good \/ told[c].lost \/ OnItsWay(c)
=============================================================================
