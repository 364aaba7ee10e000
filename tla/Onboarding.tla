------------------------------ MODULE Onboarding ------------------------------
(***************************************************************************)
(* onboardd: how a site joins the gateway and leaves it.                   *)
(*                                                                         *)
(* onboardd is one asyncio process.  A handler runs without interruption   *)
(* between two awaits, so an action here is the stretch of a handler from  *)
(* one await to the next.  Only confirm and admin_revoke wait in the       *)
(* middle of their work, for LiteLLM's admin API; while they wait they     *)
(* hold the rows they read before, and every other request may run.        *)
(*                                                                         *)
(* The state is spread over four places that share no transaction: the     *)
(* SQLite registry (tokens, sites), the wg interface (route), the file     *)
(* wg0.conf (conf) and LiteLLM's deployment table (deps).                  *)
(***************************************************************************)
EXTENDS WgConf, FiniteSets

CONSTANTS
    Sites,          \* site names
    Tokens,         \* one-shot tokens; secrets.token_urlsafe never repeats one
    Models,         \* model names a site serves
    Addresses,      \* API bases of Direct sites
    ConfirmReqs,    \* confirm requests that may be in progress together
    RevokeReqs,     \* revoke requests that may be in progress together
    Habits,         \* how the portal is used: which of the habits below are kept
    Faults,         \* which of the failures below may happen
    MaxDeps,        \* bound: deployments ever created
    MaxBlocks       \* bound: blocks of wg0.conf

ASSUME FaultsAssumption ==
    Faults \subseteq {"wg",        \* a `wg set` command exits non-zero
                      "litellm",   \* a change of a deployment is refused; an answer is lost
                      "info",      \* the list of deployments comes back as an error
                      "crash",     \* onboardd stops
                      "restart"}   \* the WireGuard container restarts
ASSUME HabitsAssumption ==
    Habits \subseteq {"serial",     \* a request starts only when none is in progress
                      "freshKeys",  \* every register brings a new key, as install.sh does
                      "noReissue"}  \* no token is asked for while an install is under way
ASSUME BoundsAssumption == MaxDeps \in Nat /\ MaxBlocks \in Nat

VARIABLES
    tokens,     \* table tokens
    issued,     \* tokens ever generated
    sites,      \* table sites
    route,      \* allowed-ips of the wg interface
    conf,       \* wg0.conf
    deps,       \* LiteLLM's deployments
    nextDep,    \* LiteLLM gives every deployment a new id
    confirms,   \* local variables of the confirm requests in progress
    revokes,    \* local variables of the revoke requests in progress
    enrolled,   \* history: the site each key last registered for
    cut         \* history: keys a revoke took off and nobody registered since

registry == <<tokens, issued, sites>>
tunnel   == <<route, conf, enrolled, cut>>
litellm  == <<deps, nextDep>>
inflight == <<confirms, revokes>>
vars     == <<registry, tunnel, litellm, inflight>>

-------------------------------------------------------------------------------
TokenRow == [site : Sites, models : SUBSET Models, ip : IPs,
             used : BOOLEAN, expired : BOOLEAN]

WireguardRow == [transport : {"wireguard"}, pubkey : Keys, ip : IPs,
                 address : {None}, models : SUBSET Models,
                 status : {"registered", "failed", "active", "partial", "revoked"}]

DirectRow == [transport : {"direct"}, pubkey : {None}, ip : {None},
              address : Addresses, models : SUBSET Models,
              status : {"active", "partial", "revoked"}]

SiteRow == WireguardRow \cup DirectRow

\* host stands for the api_base; site is history, LiteLLM does not keep it.
Deployment == [id : Nat, model : Models, host : IPs \cup Addresses, site : Sites]

ConfirmVars == [token : Tokens, site : Sites, ip : IPs,
                todo : SUBSET Models, errors : BOOLEAN]

RevokeVars == [site : Sites, transport : {"wireguard", "direct"},
               ip : IPs \cup {None}, address : Addresses \cup {None},
               models : SUBSET Models,
               listed : BOOLEAN, todo : SUBSET Nat, failed : BOOLEAN]

ASSUME NoneAssumption ==
    /\ None \notin Sites /\ None \notin Addresses
    /\ None \notin TokenRow /\ None \notin SiteRow
    /\ None \notin ConfirmVars /\ None \notin RevokeVars
ASSUME HostsAssumption == IPs \cap Addresses = {}

TypeOK ==
    /\ tokens \in [Tokens -> TokenRow \cup {None}]
    /\ issued \subseteq Tokens
    /\ sites \in [Sites -> SiteRow \cup {None}]
    /\ route \in Routes
    /\ conf \in Conf
    /\ deps \subseteq Deployment
    /\ nextDep \in Nat
    /\ confirms \in [ConfirmReqs -> ConfirmVars \cup {None}]
    /\ revokes \in [RevokeReqs -> RevokeVars \cup {None}]
    /\ enrolled \in [Keys -> Sites \cup {None}]
    /\ cut \subseteq Keys

Init ==
    /\ tokens = [t \in Tokens |-> None]
    /\ issued = {}
    /\ sites = [s \in Sites |-> None]
    /\ route = [i \in IPs |-> None]
    /\ conf = FreshConf
    /\ deps = {}
    /\ nextDep = 1
    /\ confirms = [c \in ConfirmReqs |-> None]
    /\ revokes = [r \in RevokeReqs |-> None]
    /\ enrolled = [k \in Keys |-> None]
    /\ cut = {}

-------------------------------------------------------------------------------
(* The registry *)

TokenIn(t) == tokens[t] # None
SiteIn(s)  == sites[s] # None

SiteIps  == {sites[s].ip : s \in {x \in Sites : SiteIn(x)}}
TokenIps == {tokens[t].ip : t \in {x \in Tokens : TokenIn(x)}}

\* A slip: addresses promised to a token, but not enrolled yet, are handed out.
WgIpsInUse_SitesOnly == SiteIps

\* A slip: addresses of sites whose token is gone are handed out.
WgIpsInUse_TokensOnly == TokenIps

WgIpsInUse == SiteIps \cup TokenIps

\* next_wg_ip: the lowest number no row of either table holds.
IsNextWgIp(ip) ==
    /\ ip \in IPs \ WgIpsInUse
    /\ \A j \in IPs \ WgIpsInUse : ip <= j

\* A slip: INSERT OR REPLACE on tables without the UNIQUE columns.
InsertOrReplace_NoUnique(table, s, row) == [table EXCEPT ![s] = row]

\* INSERT OR REPLACE: every row that shares the name, the pubkey or the wg_ip
\* of the new row is deleted first; NULLs are never equal.
InsertOrReplace(table, s, row) ==
    LET Clashes(old) == \/ row.pubkey # None /\ old.pubkey = row.pubkey
                        \/ row.ip # None /\ old.ip = row.ip
    IN  [x \in Sites |-> IF x = s THEN row
                         ELSE IF table[x] # None /\ Clashes(table[x]) THEN None
                         ELSE table[x]]

\* UPDATE sites SET status=? WHERE name=?, which may match no row any more.
SetStatus(s, status) ==
    [x \in Sites |-> IF x = s /\ SiteIn(s)
                     THEN [sites[x] EXCEPT !.status = status] ELSE sites[x]]

Live(row) == row.status \in {"active", "partial"}

NothingInFlight ==
    /\ \A c \in ConfirmReqs : confirms[c] = None
    /\ \A r \in RevokeReqs : revokes[r] = None

\* A request may start.
Admitted == "serial" \in Habits => NothingInFlight

Fault(f) == f \in Faults

\* onboardd stops: the requests in progress are gone.
Stopped ==
    /\ confirms' = [c \in ConfirmReqs |-> None]
    /\ revokes' = [r \in RevokeReqs |-> None]

-------------------------------------------------------------------------------
(* POST /onboard/admin/tokens.  next_wg_ip reads over a second connection,  *)
(* so it still sees the unused tokens the handler has just deleted.         *)
admin_token(t, s, models) ==
    /\ Admitted
    /\ t \notin issued
    /\ SiteIn(s) => ~Live(sites[s])
    /\ "noReissue" \in Habits => ~(SiteIn(s) /\ sites[s].status = "registered")
    /\ \E ip \in IPs :
        /\ IsNextWgIp(ip)
        /\ tokens' = [u \in Tokens |->
                        IF u = t
                        THEN [site |-> s, models |-> models, ip |-> ip,
                              used |-> FALSE, expired |-> FALSE]
                        ELSE IF TokenIn(u) /\ tokens[u].site = s
                                /\ ~tokens[u].used
                        THEN None
                        ELSE tokens[u]]
    /\ issued' = issued \cup {t}
    /\ UNCHANGED <<sites, tunnel, litellm, inflight>>

\* TOKEN_TTL has passed; the age of a used token is never looked at again.
TokenExpires(t) ==
    /\ TokenIn(t) /\ ~tokens[t].used /\ ~tokens[t].expired
    /\ tokens' = [tokens EXCEPT ![t].expired = TRUE]
    /\ UNCHANGED <<issued, sites, tunnel, litellm, inflight>>

(* POST /onboard/register.  `reached` is how far the handler comes once it   *)
(* has burned the token: "row" is the end; "refused" when `wg set` fails;    *)
(* "token", "wg", "conf" when onboardd stops right after the commit that     *)
(* burns the token, after `wg set`, or after writing wg0.conf.               *)
\* A slip: the token is burned with the row, not before `wg set`.
Burn_AtTheEnd(t, reached) ==
    IF reached = "row" THEN [tokens EXCEPT ![t].used = TRUE] ELSE tokens

Burn(t, reached) == [tokens EXCEPT ![t].used = TRUE]

\* A slip: the exit code of `wg set` is not looked at.
WritesRow_Unchecked(reached) == reached \in {"row", "refused"}

WritesRow(reached) == reached = "row"

Stages == {"refused", "token", "wg", "conf", "row"}

Usable(t) == TokenIn(t) /\ ~tokens[t].used /\ ~tokens[t].expired

StaleRows(ip, key) ==
    {s \in Sites : SiteIn(s) /\ sites[s].ip = ip /\ sites[s].pubkey # key}

DropStalePeers(c, stale) ==
    IF stale = {} THEN c
    ELSE remove_peer_from_conf(c, sites[CHOOSE s \in stale : TRUE].pubkey)

register(t, key, reached) ==
    LET row     == tokens[t]
        stale   == StaleRows(row.ip, key)
        conf1   == DropStalePeers(conf, stale)
        peerSet == reached \in {"wg", "conf", "row"}
    IN
    /\ Admitted
    /\ Usable(t)
    /\ "freshKeys" \in Habits => enrolled[key] = None
    /\ \/ reached = "row"
       \/ reached = "refused" /\ Fault("wg")
       \/ reached \in {"token", "wg", "conf"} /\ Fault("crash")
    /\ tokens' = Burn(t, reached)
    /\ route' = LET cleared == [i \in IPs |->
                        IF \E s \in stale : route[i] = sites[s].pubkey
                        THEN None ELSE route[i]]
                IN  IF peerSet THEN WgSetPeer(cleared, key, row.ip) ELSE cleared
    /\ conf' = IF reached \in {"conf", "row"}
               THEN append_peer_to_conf(conf1, key, row.ip) ELSE conf1
    /\ sites' = LET remaining == [s \in Sites |->
                        IF s \in stale THEN None ELSE sites[s]]
                IN  IF WritesRow(reached)
                    THEN InsertOrReplace(remaining, row.site,
                            [transport |-> "wireguard", pubkey |-> key,
                             ip |-> row.ip, address |-> None,
                             models |-> row.models, status |-> "registered"])
                    ELSE remaining
    /\ enrolled' = IF peerSet THEN [enrolled EXCEPT ![key] = row.site] ELSE enrolled
    /\ cut' = IF peerSet THEN cut \ {key} ELSE cut
    /\ IF reached \in {"row", "refused"} THEN UNCHANGED inflight ELSE Stopped
    /\ UNCHANGED <<issued, litellm>>

-------------------------------------------------------------------------------
(* POST /onboard/confirm *)

\* A slip: a confirm is served whatever the status of the site.
AwaitsConfirm_AnyStatus(t) == TokenIn(t) /\ SiteIn(tokens[t].site)

\* Both rows are read once; neither the use nor the age of the token is.
AwaitsConfirm(t) ==
    /\ TokenIn(t) /\ SiteIn(tokens[t].site)
    /\ sites[tokens[t].site].status = "registered"

\* The self-check failed on the site.
ConfirmRefused(t) ==
    /\ Admitted
    /\ AwaitsConfirm(t)
    /\ sites' = SetStatus(tokens[t].site, "failed")
    /\ UNCHANGED <<tokens, issued, tunnel, litellm, inflight>>

ConfirmBegin(c, t) ==
    LET row == sites[tokens[t].site] IN
    /\ Admitted
    /\ confirms[c] = None
    /\ AwaitsConfirm(t)
    /\ confirms' = [confirms EXCEPT ![c] =
            [token |-> t, site |-> tokens[t].site, ip |-> row.ip,
             todo |-> row.models, errors |-> FALSE]]
    /\ UNCHANGED <<registry, tunnel, litellm, revokes>>

\* One POST /model/new: what LiteLLM did, and what onboardd hears of it.
\* A lost answer is an exception: the request ends there.
ConfirmPost(c, m, created, answer) ==
    /\ confirms[c] # None /\ m \in confirms[c].todo
    /\ (created /\ answer = "ok") \/ (Fault("litellm") /\ answer \in {"error", "lost"})
    /\ created => nextDep <= MaxDeps
    /\ IF created
       THEN /\ deps' = deps \cup {[id |-> nextDep, model |-> m,
                                   host |-> confirms[c].ip,
                                   site |-> confirms[c].site]}
            /\ nextDep' = nextDep + 1
       ELSE UNCHANGED litellm
    /\ confirms' = IF answer = "lost" THEN [confirms EXCEPT ![c] = None]
                   ELSE [confirms EXCEPT ![c].todo = @ \ {m},
                                         ![c].errors = @ \/ answer = "error"]
    /\ UNCHANGED <<registry, tunnel, revokes>>

ConfirmFinish(c) ==
    /\ confirms[c] # None /\ confirms[c].todo = {}
    /\ sites' = SetStatus(confirms[c].site,
                          IF confirms[c].errors THEN "partial" ELSE "active")
    /\ tokens' = [tokens EXCEPT ![confirms[c].token] = None]
    /\ confirms' = [confirms EXCEPT ![c] = None]
    /\ UNCHANGED <<issued, tunnel, litellm, revokes>>

-------------------------------------------------------------------------------
(* POST /onboard/admin/revoke *)

\* The result of `wg set ... remove` is only reported; the file is rewritten
\* whatever it was.
RevokeBegin(r, s, wgOk) ==
    LET row == sites[s] IN
    /\ Admitted
    /\ revokes[r] = None
    /\ SiteIn(s)
    /\ wgOk \/ (Fault("wg") /\ row.transport = "wireguard")
    /\ IF row.transport = "wireguard"
       THEN /\ conf.last < MaxBlocks
            /\ route' = IF wgOk THEN WgRemovePeer(route, row.pubkey) ELSE route
            /\ conf' = remove_peer_from_conf(conf, row.pubkey)
            /\ cut' = IF wgOk THEN cut \cup {row.pubkey} ELSE cut
       ELSE UNCHANGED <<route, conf, cut>>
    /\ revokes' = [revokes EXCEPT ![r] =
            [site |-> s, transport |-> row.transport, ip |-> row.ip,
             address |-> row.address, models |-> row.models,
             listed |-> FALSE, todo |-> {}, failed |-> FALSE]]
    /\ UNCHANGED <<registry, litellm, confirms, enrolled>>

\* A slip: a WireGuard site answers only for the models of its row.
Managed_ListedOnly(row, d) ==
    d.host = (IF row.transport = "wireguard" THEN row.ip ELSE row.address)
    /\ d.model \in row.models

\* A deployment the revoked row answers for.
Managed(row, d) ==
    IF row.transport = "wireguard" THEN d.host = row.ip
    ELSE d.host = row.address /\ d.model \in row.models

\* GET /model/info.  An error answer without "data" reads as an empty list.
RevokeList(r, answer) ==
    /\ revokes[r] # None /\ ~revokes[r].listed
    /\ \/ answer = "ok"
       \/ answer = "error" /\ Fault("info")
       \/ answer = "lost" /\ Fault("litellm")
    /\ revokes' =
        IF answer = "lost" THEN [revokes EXCEPT ![r] = None]
        ELSE [revokes EXCEPT
                ![r].listed = TRUE,
                ![r].todo = IF answer = "error" THEN {}
                            ELSE {d.id : d \in {e \in deps :
                                                Managed(revokes[r], e)}}]
    /\ UNCHANGED <<registry, tunnel, litellm, confirms>>

\* One POST /model/delete; LiteLLM refuses an id it does not have.
RevokeDelete(r, id, deleted, answer) ==
    LET known == \E d \in deps : d.id = id IN
    /\ revokes[r] # None /\ id \in revokes[r].todo
    /\ \/ deleted /\ known /\ answer = "ok"
       \/ ~deleted /\ ~known /\ answer = "error"
       \/ Fault("litellm") /\ (deleted => known) /\ answer \in {"error", "lost"}
    /\ deps' = IF deleted THEN {d \in deps : d.id # id} ELSE deps
    /\ revokes' = IF answer = "lost" THEN [revokes EXCEPT ![r] = None]
                  ELSE [revokes EXCEPT ![r].todo = @ \ {id},
                                       ![r].failed = @ \/ answer = "error"]
    /\ UNCHANGED <<registry, tunnel, nextDep, confirms>>

\* A slip: failed deletions of a Direct site are ignored.
KeepsSite_Never(v) == FALSE

\* 502, "site preserved for retry"
KeepsSite(v) == v.transport = "direct" /\ v.failed

RevokeFinish(r) ==
    LET v == revokes[r] IN
    /\ v # None /\ v.listed /\ v.todo = {}
    /\ sites' = IF KeepsSite(v) THEN sites
                ELSE IF v.transport = "wireguard" THEN SetStatus(v.site, "revoked")
                ELSE [sites EXCEPT ![v.site] = None]
    /\ revokes' = [revokes EXCEPT ![r] = None]
    /\ UNCHANGED <<tokens, issued, tunnel, litellm, confirms>>

-------------------------------------------------------------------------------
(* The registry writes of the console *)

InUse(row) == Live(row) \/ row.status = "registered"

\* A slip: only the name of the new site is compared, not its address.
AddressTaken_Never(address) == FALSE

AddressTaken(address) ==
    \E x \in Sites : /\ SiteIn(x) /\ InUse(sites[x])
                     /\ sites[x].transport = "direct"
                     /\ sites[x].address = address

\* POST /onboard/admin/direct
admin_direct(s, address, models) ==
    /\ Admitted
    /\ models # {}
    /\ SiteIn(s) => ~InUse(sites[s])
    /\ ~AddressTaken(address)
    /\ sites' = InsertOrReplace(sites, s,
                    [transport |-> "direct", pubkey |-> None, ip |-> None,
                     address |-> address, models |-> models,
                     status |-> "active"])
    /\ UNCHANGED <<tokens, issued, tunnel, litellm, inflight>>

\* POST /onboard/admin/models
admin_models(s, models) ==
    /\ Admitted
    /\ SiteIn(s)
    /\ sites' = [sites EXCEPT ![s].models = models]
    /\ UNCHANGED <<tokens, issued, tunnel, litellm, inflight>>

\* The console adds a route to a Direct address before it registers the site;
\* whether there is one already it decides on a list taken before.
StageDirect(s, address, m) ==
    /\ Admitted
    /\ nextDep <= MaxDeps
    /\ deps' = deps \cup {[id |-> nextDep, model |-> m, host |-> address, site |-> s]}
    /\ nextDep' = nextDep + 1
    /\ UNCHANGED <<registry, tunnel, inflight>>

\* It takes back what it added when the registration does not succeed.
UnstageDirect(s, id) ==
    /\ Admitted
    /\ \E d \in deps : d.id = id /\ d.site = s /\ d.host \in Addresses
    /\ deps' = {d \in deps : d.id # id}
    /\ UNCHANGED <<registry, tunnel, nextDep, inflight>>

-------------------------------------------------------------------------------
(* Faults *)

\* onboardd restarts: SQLite, the tunnel and LiteLLM keep their state.
Crash ==
    /\ Fault("crash")
    /\ Stopped
    /\ UNCHANGED <<registry, tunnel, litellm>>

\* onboardd stops in admin_revoke between `wg set` and rewriting wg0.conf.
CrashInRevoke(s) ==
    /\ Fault("crash")
    /\ Admitted
    /\ SiteIn(s) /\ sites[s].transport = "wireguard"
    /\ route' = WgRemovePeer(route, sites[s].pubkey)
    /\ Stopped
    /\ UNCHANGED <<registry, conf, enrolled, cut, litellm>>

\* The WireGuard container goes down and up again.
WgRestart ==
    /\ Fault("restart")
    /\ route' = WgQuickUp(conf)
    /\ UNCHANGED <<registry, conf, enrolled, cut, litellm, inflight>>

-------------------------------------------------------------------------------
PublicStep ==
    \/ \E t \in Tokens, k \in Keys, reached \in Stages :
            register(t, k, reached)
    \/ \E t \in Tokens : ConfirmRefused(t)
    \/ \E c \in ConfirmReqs, t \in Tokens : ConfirmBegin(c, t)
    \/ \E c \in ConfirmReqs, m \in Models, created \in BOOLEAN,
          answer \in {"ok", "error", "lost"} : ConfirmPost(c, m, created, answer)
    \/ \E c \in ConfirmReqs : ConfirmFinish(c)

AdminStep ==
    \/ \E t \in Tokens, s \in Sites, ms \in SUBSET Models : admin_token(t, s, ms)
    \/ \E r \in RevokeReqs, s \in Sites, wgOk \in BOOLEAN : RevokeBegin(r, s, wgOk)
    \/ \E r \in RevokeReqs, answer \in {"ok", "error", "lost"} : RevokeList(r, answer)
    \/ \E r \in RevokeReqs, id \in 1..MaxDeps, deleted \in BOOLEAN,
          answer \in {"ok", "error", "lost"} : RevokeDelete(r, id, deleted, answer)
    \/ \E r \in RevokeReqs : RevokeFinish(r)
    \/ \E s \in Sites, a \in Addresses, ms \in SUBSET Models : admin_direct(s, a, ms)
    \/ \E s \in Sites, ms \in SUBSET Models : admin_models(s, ms)
    \/ \E s \in Sites, a \in Addresses, m \in Models : StageDirect(s, a, m)
    \/ \E s \in Sites, id \in 1..MaxDeps : UnstageDirect(s, id)

EnvironmentStep ==
    \/ \E t \in Tokens : TokenExpires(t)
    \/ Crash
    \/ \E s \in Sites : CrashInRevoke(s)
    \/ WgRestart

Next == PublicStep \/ AdminStep \/ EnvironmentStep

Spec == Init /\ [][Next]_vars

-------------------------------------------------------------------------------
(* What holds however the requests interleave and whatever fails *)

\* The address next_wg_ip hands out belongs to one party at a time: no two
\* tokens carry the same one, a site holds an address of a token in the table
\* only if that token was used to enrol that very site, and no two sites share
\* an address or a key.  It is why the branch of register that removes the peer
\* of a site already on the token's address is never taken.
AddressesExclusive ==
    /\ \A t, u \in Tokens :
        TokenIn(t) /\ TokenIn(u) /\ tokens[t].ip = tokens[u].ip => t = u
    /\ \A t \in Tokens, s \in Sites :
        TokenIn(t) /\ SiteIn(s) /\ tokens[t].ip = sites[s].ip
            => tokens[t].used /\ tokens[t].site = s
    /\ \A s, x \in Sites :
        /\ SiteIn(s) /\ SiteIn(x)
        /\ \/ sites[s].ip # None /\ sites[s].ip = sites[x].ip
           \/ sites[s].pubkey # None /\ sites[s].pubkey = sites[x].pubkey
        => s = x

\* A peer that admin_revoke took off the interface and out of wg0.conf stays
\* off until someone registers that key again: no restart of the WireGuard
\* container, crash or other request brings it back.
CutPeerStaysOff ==
    \A k \in cut : k \notin KeysOf(conf) /\ \A i \in IPs : route[i] # k

\* The step of OneShotToken: what is spent stays spent, and an address that
\* starts to deliver to another key spends a token.
OneShotStep ==
    /\ \A t \in Tokens :
        TokenIn(t) /\ tokens[t].used => tokens'[t] \in {tokens[t], None}
    /\ \A i \in IPs :
        route'[i] \notin {route[i], None} /\ route' # WgQuickUp(conf)
            => \E t \in Tokens : /\ Usable(t) /\ tokens[t].ip = i
                                 /\ TokenIn(t)' /\ tokens'[t].used

\* A token enrols one peer at most.  Whenever an address starts to deliver to
\* another key (other than by reloading wg0.conf), a token for this address that
\* was neither used nor expired is burned in that step, and a burned token stays
\* burned until it is deleted, also when the register that burned it failed.
OneShotToken == [][OneShotStep]_vars

\* As long as the WireGuard container does not restart from wg0.conf, the
\* address of an enrolled site delivers to the key of that site or to nobody,
\* never to the peer of another site or to an older key of the same one.
NoForeignPeer ==
    \A s \in Sites :
        SiteIn(s) /\ sites[s].transport = "wireguard"
            => route[sites[s].ip] \in {sites[s].pubkey, None}

-------------------------------------------------------------------------------
(* What holds when requests come one at a time and nothing fails *)

OfSite(s) == {d \in deps : SiteIn(s) /\ d.host = sites[s].ip}

\* A model of a site is deployed once: confirming, failing, revoking and
\* enrolling again never leave two deployments for the same model and address.
NoDuplicateDeployment ==
    \A d, e \in deps :
        d.model = e.model /\ d.host = e.host /\ d.host \in IPs => d = e

\* A deployment made for one site never points at an address another site has
\* got since: when an address is handed out again nothing of its former
\* holder is left behind it.
NoForeignDeployment ==
    \A d \in deps, s \in Sites :
        SiteIn(s) /\ sites[s].ip = d.host => d.site = s

\* A site that is up is reachable, unless a revoke took its key off: its address
\* delivers to its key, also when another site enrols, replaces a row, changes to
\* Direct or is revoked.
ActiveSiteIsRouted ==
    \A s \in Sites :
        /\ SiteIn(s) /\ Live(sites[s]) /\ sites[s].transport = "wireguard"
        /\ sites[s].pubkey \notin cut
        => route[sites[s].ip] = sites[s].pubkey

\* The revoke ends with everything it listed deleted.
RevokeSucceeds(r) ==
    /\ revokes[r] # None /\ revokes[r].listed /\ revokes[r].todo = {}
    /\ ~revokes[r].failed /\ revokes'[r] = None

\* When a revoke of a WireGuard site succeeds, LiteLLM has no deployment at the
\* address it read, whoever made it, and the tunnel does not deliver the
\* address to the key of the row.
RevokedMeansGone ==
    [][\A r \in RevokeReqs :
        RevokeSucceeds(r) /\ revokes[r].transport = "wireguard"
            => /\ \A d \in deps : d.host # revokes[r].ip
               /\ \A s \in Sites : SiteIn(s) /\ sites[s].ip = revokes[r].ip
                    => route[sites[s].ip] # sites[s].pubkey]_vars

\* At any time at most one site that is up claims a Direct address, also when
\* sites change between WireGuard and Direct.
OneOwnerPerAddress ==
    \A s, x \in Sites :
        /\ SiteIn(s) /\ SiteIn(x)
        /\ sites[s].transport = "direct" /\ sites[x].transport = "direct"
        /\ sites[s].address = sites[x].address
        => s = x

\* A Direct site leaves the registry only when LiteLLM has no deployment left
\* that the site answers for; when a deletion fails the site stays, so that the
\* operator can try again.
DirectLeavesNoRoutes ==
    [][\A s \in Sites :
        SiteIn(s) /\ sites[s].transport = "direct" /\ sites'[s] = None
            => \A d \in deps' : ~Managed(sites[s], d)]_vars

-------------------------------------------------------------------------------
(* What the comments, the tests and the runbook say, and the code does not do *)

\* onboardd's header: peers are written back to wg0.conf.  Removing one peer
\* drops every peer of the block it was appended to.
PeersArePersisted ==
    \A i \in IPs : route[i] # None =>
        \E p \in conf.peers : p.key = route[i] /\ p.ip = i

===============================================================================
