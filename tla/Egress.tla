------------------------------- MODULE Egress -------------------------------
(***************************************************************************)
(* What a sandbox may reach: the environment's networking                  *)
(* (api/environments.go), the configuration the control plane serves the   *)
(* egress gate beside a sandbox (api/gateconfig.go, gatetoken,             *)
(* vaultresolve), the gate's fetch loop (gaterun) and its decisions on     *)
(* each request (gate, egress).                                            *)
(*                                                                         *)
(* One session in one environment.  Host names are spellings of HostSets;  *)
(* a secret is a number that grows when it is replaced; the placeholder of *)
(* a secret is its name, which the hash of session and name stands for.    *)
(* Addresses are public, internal or reserved: the floor refuses the       *)
(* reserved ones.                                                          *)
(***************************************************************************)
EXTENDS HostSets

CONSTANTS Managers,          \* package managers
          Registries,        \* the curated package registries
          SecretIds,         \* credentials, in the order of the session's vaults
          SecretShape,       \* each one's name, hosts and injection locations
          AgentServers, ChildServers,   \* the MCP servers the agent and a child thread declare
          ConfigRequests,    \* the config documents an update may carry
          EgressRequests,    \* what the sandbox asks for
          AddressOf,         \* the address of each canonical name
          Names,             \* host names the policies are compared on
          Tables,            \* what a firewall may be found to hold
          MaxTokens, MaxChanges   \* bounds

VARIABLES netEnv,       \* the environment's row
          owner,        \* the session: its state, and whether its child thread is live
          secretRows,   \* each credential: live, and its secret
          gateTokens,   \* the gate tokens minted so far: live or revoked
          proxies,      \* the gate process of each token
          notices,      \* the advisories: being emitted, emitted
          changes,      \* edits made so far
          behind        \* the firewall tables the last gate started behind

evars == <<netEnv, owner, secretRows, gateTokens, proxies, notices, changes, behind>>

-----------------------------------------------------------------------------
(* The environment's configuration.                                        *)

Unrestricted == [type |-> "unrestricted", hosts |-> {}, mcp |-> FALSE, pkgs |-> FALSE]

Limited == [type |-> "limited", hosts |-> {}, mcp |-> FALSE, pkgs |-> FALSE]

\* The zero value: a configuration that says nothing.
NoNetworking == [type |-> "", hosts |-> {}, mcp |-> FALSE, pkgs |-> FALSE]

Choice(given, prior) == IF given = "keep" THEN prior ELSE given = "yes"

\* A limited block is merged over a limited one; entries already stored are
\* not judged again, new ones must be host names.
NetworkingAdmitted(nw, prior) ==
    \A hosts \in nw.hosts : \A e \in hosts :
        (prior.type = "limited" /\ e \in prior.hosts) \/ ValidHostEntry(e)

ParseNetworking(nw, prior) ==
    LET base == IF prior.type = "limited" THEN prior ELSE Limited
    IN IF nw.type = "unrestricted" THEN Unrestricted
       ELSE [type |-> "limited",
             hosts |-> IF nw.hosts = {} THEN base.hosts ELSE UNION nw.hosts,
             mcp |-> Choice(nw.mcp, base.mcp),
             pkgs |-> Choice(nw.pkgs, base.pkgs)]

\* Each manager named is replaced, the others are kept.
ParsePackages(req, prior) == (prior \ (req.clear \union req.fill)) \union req.fill

CheckPackagesNetworking(config) ==
    config.net.type = "limited" /\ ~ config.net.pkgs => config.packages = {}

\* The configuration a document makes over the prior one, of its own type
\* only; and whether it is accepted.
NormalizeEnvConfig(req, prior) ==
    LET base == IF prior.kind = "cloud" THEN prior ELSE [kind |-> "cloud", net |-> Unrestricted, packages |-> {}]
    IN IF req.kind = "self_hosted" THEN [kind |-> "self_hosted", net |-> NoNetworking, packages |-> {}]
       ELSE [kind |-> "cloud",
             net |-> IF req.net = {} THEN base.net ELSE ParseNetworking(CHOOSE nw \in req.net : TRUE, base.net),
             packages |-> ParsePackages(req, base.packages)]

ConfigAdmitted(req, prior) ==
    /\ \A nw \in req.net : NetworkingAdmitted(nw, IF prior.kind = "cloud" THEN prior.net ELSE Unrestricted)
    /\ CheckPackagesNetworking(NormalizeEnvConfig(req, prior))

NoConfig == [kind |-> "none", net |-> NoNetworking, packages |-> {}]

CreateEnvironment(req) ==
    /\ netEnv.state = "none"
    /\ ConfigAdmitted(req, NoConfig)
    /\ netEnv' = [state |-> "live", config |-> NormalizeEnvConfig(req, NoConfig)]
    /\ UNCHANGED <<owner, secretRows, gateTokens, proxies, notices, changes, behind>>

UpdateEnvironment(req) ==
    LET config == NormalizeEnvConfig(req, netEnv.config)
    IN /\ netEnv.state = "live" /\ changes < MaxChanges
       /\ ConfigAdmitted(req, netEnv.config)
       /\ config.kind = netEnv.config.kind
       /\ config # netEnv.config
       /\ netEnv' = [netEnv EXCEPT !.config = config]
       /\ changes' = changes + 1
       /\ UNCHANGED <<owner, secretRows, gateTokens, proxies, notices, behind>>

-----------------------------------------------------------------------------
(* The session: created in a live environment, its child thread archived,  *)
(* its secrets replaced or archived, itself archived.                      *)

MCPServerAdmitted(config, host) ==
    \/ config.kind = "self_hosted" /\ config.net.type = ""
    \/ config.net.type = "unrestricted"
    \/ config.net.type = "limited" /\ (config.net.mcp \/ Match(NewHostSet(config.net.hosts), host))

\* A session whose agent declares a server its limited environment blocks is
\* refused.
AdmitMCPServers(config) ==
    config.net.type = "limited" => \A s \in AgentServers : MCPServerAdmitted(config, s.host)

StartSession ==
    /\ owner.state = "none" /\ netEnv.state = "live"
    /\ AdmitMCPServers(netEnv.config)
    /\ owner' = [state |-> "live", child |-> TRUE]
    /\ UNCHANGED <<netEnv, secretRows, gateTokens, proxies, notices, changes, behind>>

Changing ==
    /\ owner.state = "live" /\ changes < MaxChanges
    /\ changes' = changes + 1
    /\ UNCHANGED <<netEnv, gateTokens, proxies, notices, behind>>

ArchiveThread == Changing /\ owner.child /\ owner' = [owner EXCEPT !.child = FALSE] /\ UNCHANGED secretRows

EndSession == Changing /\ owner' = [owner EXCEPT !.state = "archived"] /\ UNCHANGED secretRows

ReplaceSecret(c) ==
    /\ Changing /\ secretRows[c] > 0
    /\ secretRows' = [secretRows EXCEPT ![c] = @ + 1]
    /\ UNCHANGED owner

\* An archived credential is gone for the resolver: 0.
ArchiveSecret(c) ==
    /\ Changing /\ secretRows[c] > 0
    /\ secretRows' = [secretRows EXCEPT ![c] = 0]
    /\ UNCHANGED owner

-----------------------------------------------------------------------------
(* Gate tokens.                                                            *)

LiveTokens == {t \in DOMAIN gateTokens : gateTokens[t] = "live"}

Revoked == [t \in DOMAIN gateTokens |-> "revoked"]

NewProxy == [phase |-> "boot", serving |-> FALSE, config |-> [net |-> NoNetworking, endpoints |-> {}, secrets |-> {}],
             reply |-> {}]

\* A provision, of cloud sandboxes only, mints the token of a new gate: the session's earlier one is
\* revoked in the transaction that inserts it, which the session's row
\* orders against a deletion.
Ensure ==
    /\ owner.state = "live" /\ netEnv.config.kind = "cloud" /\ Len(gateTokens) < MaxTokens
    /\ gateTokens' = Append(Revoked, "live")
    /\ proxies' = Append(proxies, NewProxy)
    /\ UNCHANGED <<netEnv, owner, secretRows, notices, changes, behind>>

Revoke ==
    /\ LiveTokens # {} /\ changes < MaxChanges
    /\ gateTokens' = Revoked
    /\ changes' = changes + 1
    /\ UNCHANGED <<netEnv, owner, secretRows, proxies, notices, behind>>

Authenticate(t) == gateTokens[t] = "live" /\ owner.state = "live"

-----------------------------------------------------------------------------
(* Serving the gate's configuration.                                       *)

\* The first vault's credential of a name shadows the later ones.
WinnersFor ==
    {c \in SecretIds : /\ secretRows[c] > 0
                       /\ \A d \in SecretIds : (d < c /\ secretRows[d] > 0) => SecretShape[d].name # SecretShape[c].name}

SecretValues ==
    {[id |-> c, placeholder |-> SecretShape[c].name, secret |-> secretRows[c], hosts |-> SecretShape[c].hosts,
      anywhere |-> SecretShape[c].anywhere, places |-> SecretShape[c].places] : c \in WinnersFor}

\* A declared server widens the policy only by the one host and port its URL
\* names, and not at all when it is none the platform itself would dial: a
\* literal address is held to the floor here, a name where it is resolved.
MCPEndpoint(server) ==
    IF /\ server.scheme \in {"http", "https"}
       /\ ~ IsWildcard(server.host) /\ ValidHostEntry(server.host)
       /\ IsIP(server.host) => AddressOf[server.host] # "reserved"
       /\ server.port # 0
    THEN {<<CanonicalLookup(server.host), server.port>>} ELSE {}

MCPGateEndpoints(net, servers) ==
    IF net.type = "limited" /\ net.mcp THEN UNION {MCPEndpoint(s) : s \in servers} ELSE {}

Served ==
    LET declared == AgentServers \union (IF owner.child THEN ChildServers ELSE {})
    IN [net |-> netEnv.config.net,
        endpoints |-> MCPGateEndpoints(netEnv.config.net, declared),
        secrets |-> SecretValues]

HostsOf(endpoints) == {e[1] : e \in endpoints}

\* The entries of a credential the environment's policy does not cover.
Blocked(config, secret) ==
    LET policy == NewHostSet(config.net.hosts \union HostsOf(config.endpoints)
                             \union (IF config.net.pkgs THEN Registries ELSE {}))
    IN IF config.net.type # "limited" \/ secret.anywhere THEN {}
       ELSE {e \in secret.hosts : ~ CoversEntry(policy, e)}

\* The fetch: the token is checked, then the session read again in a
\* transaction of its own.  The advisories for this answer are started
\* unless an emission for the session is running.
GetGateConfig(t) ==
    /\ proxies[t].phase = "fetching"
    /\ owner.state = "live"
    /\ proxies' = [proxies EXCEPT ![t].phase = "answered", ![t].reply = {Served}]
    /\ notices' = IF notices.todo # {} THEN notices
                  ELSE [notices EXCEPT !.todo = {s.id : s \in {x \in Served.secrets : Blocked(Served, x) # {}}}]
    /\ UNCHANGED <<netEnv, owner, secretRows, gateTokens, changes, behind>>

\* One credential's advisory: once for the session, and never twice.
EmitUnreachableCredentials(c) ==
    /\ c \in notices.todo
    /\ notices' = [todo |-> notices.todo \ {c}, done |-> notices.done \union {c}]
    /\ UNCHANGED <<netEnv, owner, secretRows, gateTokens, proxies, changes, behind>>

-----------------------------------------------------------------------------
(* The gate's firewall.                                                    *)

ChainName == "MAP-GATE-EGRESS"

Ruleset == <<"loopback accept", "gate accept", "drop">>

\* The chain holds the rules exactly, and nothing comes before the jump to it.
CheckListing(l) == /\ l.chain = Ruleset
                   /\ l.output # <<>> /\ l.output[1] = ChainName

\* What the kernel does with a packet at one rule, and at the first rule of a
\* chain that decides.
RuleVerdict(rule, packet) ==
    CASE rule = "drop" -> "drop"
      [] rule = "accept" -> "accept"
      [] rule = "loopback accept" /\ packet = "loopback" -> "accept"
      [] rule = "gate accept" /\ packet = "gate" -> "accept"
      [] OTHER -> "next"

FirstVerdict(verdicts) ==
    LET deciding == {i \in DOMAIN verdicts : verdicts[i] # "next"}
    IN IF deciding = {} THEN "next" ELSE verdicts[CHOOSE i \in deciding : \A j \in deciding : i =< j]

Verdict(l, packet) ==
    LET chain == FirstVerdict([i \in DOMAIN l.chain |-> RuleVerdict(l.chain[i], packet)])
    IN FirstVerdict([i \in DOMAIN l.output |->
                        IF l.output[i] = ChainName THEN chain ELSE RuleVerdict(l.output[i], packet)])

-----------------------------------------------------------------------------
(* The gate process.                                                       *)

\* It serves, with a gate that admits nothing, once the rules it applied are
\* read back in both tables; otherwise it never starts.
Setup(t) ==
    /\ proxies[t].phase = "boot"
    /\ \E v4 \in Tables, v6 \in Tables :
          IF CheckListing(v4) /\ CheckListing(v6)
          THEN /\ proxies' = [proxies EXCEPT ![t].phase = "idle", ![t].serving = TRUE]
               /\ behind' = {v4, v6}
          ELSE /\ proxies' = [proxies EXCEPT ![t].phase = "dead"]
               /\ UNCHANGED behind
    /\ UNCHANGED <<netEnv, owner, secretRows, gateTokens, notices, changes>>

Fetch(t) ==
    /\ proxies[t].phase = "idle"
    /\ proxies' = [proxies EXCEPT ![t].phase = IF Authenticate(t) THEN "fetching" ELSE "refused"]
    /\ UNCHANGED <<netEnv, owner, secretRows, gateTokens, notices, changes, behind>>

\* The second look finds the session archived.
FetchRefused(t) ==
    /\ proxies[t].phase = "fetching" /\ owner.state # "live"
    /\ proxies' = [proxies EXCEPT ![t].phase = "refused"]
    /\ UNCHANGED <<netEnv, owner, secretRows, gateTokens, notices, changes, behind>>

\* An answer swaps the gate; a refusal of the token swaps in one that admits
\* nothing and ends the loop; any other failure keeps the last good one.
RunFetchLoop(t) ==
    /\ \/ /\ proxies[t].phase = "answered"
          /\ proxies' = [proxies EXCEPT ![t].phase = "idle", ![t].reply = {},
                                        ![t].config = CHOOSE r \in proxies[t].reply : TRUE]
       \/ /\ proxies[t].phase = "refused"
          /\ proxies' = [proxies EXCEPT ![t].phase = "ended", ![t].config = NewProxy.config]
       \/ /\ proxies[t].phase \in {"fetching", "answered", "refused"}
          /\ proxies' = [proxies EXCEPT ![t].phase = "idle", ![t].reply = {}]
    /\ UNCHANGED <<netEnv, owner, secretRows, gateTokens, notices, changes, behind>>

\* Both widenings are limited's alone, and what is neither kind stays closed.
NewPolicy(config) ==
    LET net == config.net
        limited == net.type = "limited"
    IN [all |-> net.type = "unrestricted",
        allowed |-> NewHostSet(IF limited THEN net.hosts ELSE {}),
        packages |-> NewHostSet(IF limited /\ net.pkgs THEN Registries ELSE {}),
        mcp |-> IF limited /\ net.mcp THEN config.endpoints ELSE {}]

\* Which of the policy's sets lets a request out; the operator's list first,
\* then the registries, then the declared endpoints.
Admit(policy, host, port) ==
    IF host = <<"">> THEN "none"
    ELSE IF policy.all THEN "unrestricted"
    ELSE IF Match(policy.allowed, host) THEN "operator"
    ELSE IF Match(policy.packages, host) THEN "registry"
    ELSE IF <<CanonicalLookup(host), port>> \in policy.mcp THEN "mcp"
    ELSE "none"

Floored(how) == how # "operator"

Rooted(how) == how = "registry"

\* The secrets a request carries out in place of their placeholders.
Substitute(config, host, place, placeholders) ==
    {s \in config.secrets : /\ place \in s.places /\ s.placeholder \in placeholders
                            /\ s.anywhere \/ Match(NewHostSet(s.hosts), host)}

\* A name that is not rooted may be completed by the resolver's search list.
Resolve(host, rooted) ==
    {AddressOf[CanonicalLookup(host)]} \union
        (IF rooted /\ Len(CanonicalLookup(host)) > 1 THEN {} ELSE {"internal", "reserved"})

\* The dial, on an address the name resolved to: an operator's host is
\* vouched for, every other is held to the floor.
Dial(how, host) == {addr \in Resolve(host, Rooted(how)) : Floored(how) => addr # "reserved"}

\* What becomes of a request that meets a configuration: each way it may get
\* out.  A tunnel is opaque; a plain request is rewritten, unless its body is
\* too large.
HandleConnect(config, req) ==
    LET how == Admit(NewPolicy(config), req.host, req.port)
    IN IF how = "none" THEN {}
       ELSE {[how |-> how, addr |-> addr, carried |-> {}] : addr \in Dial(how, req.host)}

HandlePlain(config, req) ==
    LET how == Admit(NewPolicy(config), req.host, req.port)
        carried == UNION {Substitute(config, req.host, p, req[p]) : p \in {"header", "body"}}
    IN IF how = "none" \/ req.large THEN {}
       ELSE {[how |-> how, addr |-> addr, carried |-> carried] : addr \in Dial(how, req.host)}

ServeHTTP(config, req) ==
    IF req.method = "CONNECT" THEN HandleConnect(config, req) ELSE HandlePlain(config, req)

-----------------------------------------------------------------------------
EgressInit ==
    /\ netEnv = [state |-> "none", config |-> NoConfig]
    /\ owner = [state |-> "none", child |-> FALSE]
    /\ secretRows = [c \in SecretIds |-> 1]
    /\ gateTokens = <<>> /\ proxies = <<>>
    /\ notices = [todo |-> {}, done |-> {}]
    /\ changes = 0
    /\ behind = {}

EgressNext ==
    \/ \E req \in ConfigRequests : CreateEnvironment(req) \/ UpdateEnvironment(req)
    \/ StartSession \/ ArchiveThread \/ EndSession
    \/ Ensure \/ Revoke
    \/ \E c \in SecretIds : ReplaceSecret(c) \/ ArchiveSecret(c) \/ EmitUnreachableCredentials(c)
    \/ \E t \in DOMAIN proxies :
          \/ Setup(t) \/ Fetch(t) \/ GetGateConfig(t) \/ FetchRefused(t) \/ RunFetchLoop(t)

EgressSpec == EgressInit /\ [][EgressNext]_evars
-----------------------------------------------------------------------------
\* What an entry says, of a name in lower case with no trailing dot.
Refers(entry, name) ==
    LET e == CanonicalLookup(entry)
    IN IF e[1] = "*"
       THEN Len(name) >= Len(e) /\ SubSeq(name, Len(name) - Len(e) + 2, Len(name)) = Unstarred(e)
       ELSE name = e

Ports == {80, 443}

\* What a configuration lets out, said from its parts.
LetOut(config, name, port) ==
    \/ config.net.type = "unrestricted"
    \/ /\ config.net.type = "limited"
       /\ \/ \E e \in config.net.hosts : Refers(e, name)
          \/ config.net.pkgs /\ name \in Registries
          \/ config.net.mcp /\ <<name, port>> \in config.endpoints

\* What leaves a sandbox is what its environment and its credentials say,
\* and the control plane and the gate agree on it.  A stored configuration
\* can install its packages.  A session has one live gate token.  A gate
\* serves only behind tables that drop what neither stays local nor is the
\* gate's own.  A gate told that its token is void admits nothing any more.
\* A served configuration lets out exactly what the environment's entries,
\* the registries and the declared endpoints say, has one secret per
\* placeholder, and its advisories name exactly the entries some name of
\* which is let out on no port.  A request reaches a reserved address only
\* through an operator's entry, a registry by no other address than its own,
\* and carries a secret only to a host the credential names, in a place it
\* allows.
EgressIsAsServed ==
    /\ CheckPackagesNetworking(netEnv.config)
    /\ Cardinality(LiveTokens) =< 1
    /\ \A t \in DOMAIN proxies :
          /\ proxies[t].serving => \A l \in behind : \A packet \in {"loopback", "gate", "other"} :
                Verdict(l, packet) = IF packet = "other" THEN "drop" ELSE "accept"
          /\ proxies[t].phase = "ended" =>
                LET policy == NewPolicy(proxies[t].config)
                IN \A n \in Names, p \in Ports : Admit(policy, n, p) = "none"
          /\ \A config \in proxies[t].reply :
                /\ LET policy == NewPolicy(config)
                   IN \A n \in Names, p \in Ports : (Admit(policy, n, p) # "none") <=> LetOut(config, n, p)
                /\ \A req \in EgressRequests : \A out \in ServeHTTP(config, req) :
                      /\ out.addr = "reserved" => out.how = "operator"
                      /\ out.how = "registry" => out.addr = AddressOf[CanonicalLookup(req.host)]
                      /\ \A s \in out.carried :
                            /\ s.anywhere \/ \E e \in s.hosts : Refers(e, CanonicalLookup(req.host))
                            /\ \E p \in s.places : s.placeholder \in req[p]
                /\ \A s \in config.secrets :
                      /\ \A r \in config.secrets : r # s => r.placeholder # s.placeholder
                      /\ Blocked(config, s) =
                            {e \in s.hosts : /\ ~ s.anywhere
                                             /\ \E n \in Names : /\ Refers(e, n)
                                                                 /\ \A p \in Ports : ~ LetOut(config, n, p)}
=============================================================================
