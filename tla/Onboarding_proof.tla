--------------------------- MODULE Onboarding_proof ---------------------------
(***************************************************************************)
(* Theorems about Onboarding, for any number of sites, tokens, keys,       *)
(* addresses and concurrent requests, and any choice of Habits and Faults. *)
(***************************************************************************)
EXTENDS Onboarding, WgConf_proof

USE DEF registry, tunnel, litellm, inflight, vars

Table == [Sites -> SiteRow \cup {None}]

-------------------------------------------------------------------------------
(* Rows *)

\* Changing the models of a row, or giving it a status other than those only a
\* WireGuard site has, keeps its shape.
LEMMA RowUpdates ==
    ASSUME NEW row \in SiteRow
    PROVE  /\ \A ms \in SUBSET Models : [row EXCEPT !.models = ms] \in SiteRow
           /\ \A st \in {"active", "partial", "revoked"} :
                [row EXCEPT !.status = st] \in SiteRow
           /\ row.status \in {"registered", "failed"} =>
                /\ row \in WireguardRow
                /\ \A st \in {"registered", "failed"} :
                    [row EXCEPT !.status = st] \in SiteRow
<1>1. CASE row \in WireguardRow
    BY <1>1 DEF SiteRow, WireguardRow
<1>2. CASE row \in DirectRow
    BY <1>2 DEF SiteRow, DirectRow
<1> QED
    BY <1>1, <1>2 DEF SiteRow

\* A row is of one transport, and has the columns of that transport.
LEMMA RowColumns ==
    ASSUME NEW row \in SiteRow
    PROVE  /\ row # None
           /\ row.models \in SUBSET Models
           /\ row.transport = "wireguard" => row \in WireguardRow
           /\ row.transport # "wireguard" => row \in DirectRow
BY NoneAssumption DEF SiteRow, WireguardRow, DirectRow

\* INSERT OR REPLACE writes the row and otherwise only deletes rows, all those
\* that share its key or its address.
LEMMA InsertRows ==
    ASSUME NEW table \in Table, NEW s \in Sites, NEW row \in SiteRow
    PROVE  /\ InsertOrReplace(table, s, row) \in Table
           /\ InsertOrReplace(table, s, row)[s] = row
           /\ \A x \in Sites \ {s} :
                LET new == InsertOrReplace(table, s, row)[x]
                IN  /\ new \in {table[x], None}
                    /\ new # None /\ row.ip # None => new.ip # row.ip
                    /\ new # None /\ row.pubkey # None => new.pubkey # row.pubkey
BY DEF InsertOrReplace, Table

\* UPDATE ... SET status touches the status of one row.
LEMMA StatusRows ==
    ASSUME TypeOK, NEW s \in Sites,
           NEW status \in {"failed", "active", "partial", "revoked"},
           status = "failed" => SiteIn(s) /\ sites[s].status = "registered"
    PROVE  /\ SetStatus(s, status) \in Table
           /\ \A x \in Sites :
                /\ SetStatus(s, status)[x] = None <=> sites[x] = None
                /\ sites[x] # None =>
                    /\ SetStatus(s, status)[x].ip = sites[x].ip
                    /\ SetStatus(s, status)[x].pubkey = sites[x].pubkey
                    /\ SetStatus(s, status)[x].transport = sites[x].transport
<1>1. \A x \in Sites : sites[x] # None => sites[x] \in SiteRow
    BY DEF TypeOK
<1>2. ASSUME NEW x \in Sites, sites[x] # None
      PROVE  /\ [sites[x] EXCEPT !.status = status].ip = sites[x].ip
             /\ [sites[x] EXCEPT !.status = status].pubkey = sites[x].pubkey
             /\ [sites[x] EXCEPT !.status = status].transport = sites[x].transport
    BY <1>1, <1>2 DEF SiteRow, WireguardRow, DirectRow
<1>3. SiteIn(s) => [sites[s] EXCEPT !.status = status] \in SiteRow
    BY <1>1, RowUpdates DEF SiteIn
<1>4. None \notin SiteRow
    BY NoneAssumption
<1> QED
    BY <1>1, <1>2, <1>3, <1>4 DEF SetStatus, SiteIn, Table, TypeOK

-------------------------------------------------------------------------------
(* Type correctness *)

\* What the handlers that only touch the registry leave well-typed.
LEMMA RegistryTypes ==
    ASSUME TypeOK
    PROVE  /\ \A t \in Tokens, s \in Sites, ms \in SUBSET Models :
                admin_token(t, s, ms) => TypeOK'
           /\ \A t \in Tokens : TokenExpires(t) => TypeOK'
           /\ \A s \in Sites, ms \in SUBSET Models : admin_models(s, ms) => TypeOK'
           /\ \A s \in Sites, a \in Addresses, ms \in SUBSET Models :
                admin_direct(s, a, ms) => TypeOK'
           /\ \A t \in Tokens : ConfirmRefused(t) => TypeOK'
<1>1. ASSUME NEW t \in Tokens, NEW s \in Sites, NEW ms \in SUBSET Models,
             admin_token(t, s, ms)
      PROVE  TypeOK'
    <2>1. PICK ip \in IPs :
            tokens' = [u \in Tokens |->
                        IF u = t
                        THEN [site |-> s, models |-> ms, ip |-> ip,
                              used |-> FALSE, expired |-> FALSE]
                        ELSE IF TokenIn(u) /\ tokens[u].site = s
                                /\ ~tokens[u].used
                        THEN None
                        ELSE tokens[u]]
        BY <1>1 DEF admin_token, IsNextWgIp
    <2>2. [site |-> s, models |-> ms, ip |-> ip,
           used |-> FALSE, expired |-> FALSE] \in TokenRow
        BY DEF TokenRow
    <2>3. tokens' \in [Tokens -> TokenRow \cup {None}]
        BY <2>1, <2>2 DEF TypeOK
    <2> QED
        BY <1>1, <2>3 DEF admin_token, TypeOK
<1>2. ASSUME NEW t \in Tokens, TokenExpires(t)
      PROVE  TypeOK'
    <2>1. [tokens[t] EXCEPT !.expired = TRUE] \in TokenRow
        BY <1>2 DEF TokenExpires, TokenIn, TypeOK, TokenRow
    <2>2. tokens' \in [Tokens -> TokenRow \cup {None}]
        BY <1>2, <2>1 DEF TokenExpires, TypeOK
    <2> QED
        BY <1>2, <2>2 DEF TokenExpires, TypeOK
<1>3. ASSUME NEW s \in Sites, NEW ms \in SUBSET Models, admin_models(s, ms)
      PROVE  TypeOK'
    <2>1. [sites[s] EXCEPT !.models = ms] \in SiteRow
        BY <1>3, RowUpdates DEF admin_models, SiteIn, TypeOK
    <2>2. sites' \in [Sites -> SiteRow \cup {None}]
        BY <1>3, <2>1 DEF admin_models, TypeOK
    <2> QED
        BY <1>3, <2>2 DEF admin_models, TypeOK
<1>4. ASSUME NEW s \in Sites, NEW a \in Addresses, NEW ms \in SUBSET Models,
             admin_direct(s, a, ms)
      PROVE  TypeOK'
    <2> DEFINE row == [transport |-> "direct", pubkey |-> None, ip |-> None,
                       address |-> a, models |-> ms, status |-> "active"]
    <2>1. row \in SiteRow
        BY DEF SiteRow, DirectRow
    <2>2. sites' = InsertOrReplace(sites, s, row)
        BY <1>4 DEF admin_direct
    <2> HIDE DEF row
    <2>3. sites' \in Table
        BY <2>1, <2>2, InsertRows DEF Table, TypeOK
    <2> QED
        BY <1>4, <2>3 DEF admin_direct, TypeOK, Table
<1>5. ASSUME NEW t \in Tokens, ConfirmRefused(t)
      PROVE  TypeOK'
    <2>1. tokens[t].site \in Sites /\ SiteIn(tokens[t].site)
          /\ sites[tokens[t].site].status = "registered"
        BY <1>5 DEF ConfirmRefused, AwaitsConfirm, TokenIn, TypeOK, TokenRow
    <2>2. sites' \in Table
        BY <1>5, <2>1, StatusRows DEF ConfirmRefused
    <2> QED
        BY <1>5, <2>2 DEF ConfirmRefused, TypeOK, Table
<1> QED
    BY <1>1, <1>2, <1>3, <1>4, <1>5

\* Stopping onboardd empties the requests in progress.
LEMMA StoppedType ==
    ASSUME Stopped
    PROVE  /\ confirms' \in [ConfirmReqs -> ConfirmVars \cup {None}]
           /\ revokes' \in [RevokeReqs -> RevokeVars \cup {None}]
BY DEF Stopped

\* register, however far it comes.
LEMMA RegisterType ==
    ASSUME TypeOK, NEW t \in Tokens, NEW key \in Keys, NEW reached \in Stages,
           register(t, key, reached)
    PROVE  TypeOK'
<1> DEFINE ip    == tokens[t].ip
           site  == tokens[t].site
           stale == StaleRows(ip, key)
           conf1 == DropStalePeers(conf, stale)
           row   == [transport |-> "wireguard", pubkey |-> key, ip |-> ip,
                     address |-> None, models |-> tokens[t].models,
                     status |-> "registered"]
           remaining == [s \in Sites |-> IF s \in stale THEN None ELSE sites[s]]
           cleared == [i \in IPs |->
                        IF \E s \in stale : route[i] = sites[s].pubkey
                        THEN None ELSE route[i]]
<1>1. tokens[t] \in TokenRow
    BY DEF register, Usable, TokenIn, TypeOK
<1>2. ip \in IPs /\ site \in Sites /\ tokens[t].models \in SUBSET Models
    BY <1>1 DEF TokenRow
<1>3. row \in SiteRow
    BY <1>2 DEF SiteRow, WireguardRow
<1>4. tokens' \in [Tokens -> TokenRow \cup {None}]
    <2>1. [tokens[t] EXCEPT !.used = TRUE] \in TokenRow
        BY <1>1 DEF TokenRow
    <2> QED
        BY <2>1 DEF register, Burn, TypeOK
<1>5. conf1 \in Conf
    BY RemoveType DEF DropStalePeers, TypeOK
<1>6. conf' \in Conf
    <2>1. conf' = IF reached \in {"conf", "row"}
                  THEN append_peer_to_conf(conf1, key, ip) ELSE conf1
        BY DEF register
    <2> HIDE DEF conf1, ip
    <2> QED
        BY <1>2, <1>5, <2>1, AppendType
<1>7. route' \in Routes
    <2>1. cleared \in Routes
        BY DEF Routes, TypeOK
    <2>2. route' \in {WgSetPeer(cleared, key, ip), cleared}
        BY DEF register
    <2> HIDE DEF cleared, ip
    <2> QED
        BY <1>2, <2>1, <2>2, SetPeerRoutes
<1>8. sites' \in Table
    <2>1. remaining \in Table
        BY DEF Table, TypeOK
    <2>2. sites' \in {InsertOrReplace(remaining, site, row), remaining}
        BY DEF register
    <2> HIDE DEF remaining, row, site
    <2> QED
        BY <1>2, <1>3, <2>1, <2>2, InsertRows
<1>9. enrolled' \in [Keys -> Sites \cup {None}] /\ cut' \subseteq Keys
    BY <1>2 DEF register, TypeOK
<1>10. /\ confirms' \in [ConfirmReqs -> ConfirmVars \cup {None}]
       /\ revokes' \in [RevokeReqs -> RevokeVars \cup {None}]
    <2>1. Stopped \/ UNCHANGED inflight
        BY DEF register
    <2> QED
        BY <2>1, StoppedType DEF TypeOK
<1> QED
    BY <1>4, <1>6, <1>7, <1>8, <1>9, <1>10 DEF register, TypeOK, Table

\* confirm, from one await to the next.
LEMMA ConfirmTypes ==
    ASSUME TypeOK, NEW c \in ConfirmReqs
    PROVE  /\ \A t \in Tokens : ConfirmBegin(c, t) => TypeOK'
           /\ \A m \in Models, created \in BOOLEAN, answer \in {"ok", "error", "lost"} :
                ConfirmPost(c, m, created, answer) => TypeOK'
           /\ ConfirmFinish(c) => TypeOK'
<1>1. ASSUME NEW t \in Tokens, ConfirmBegin(c, t)
      PROVE  TypeOK'
    <2> DEFINE s == tokens[t].site
               v == [token |-> t, site |-> s, ip |-> sites[s].ip,
                     todo |-> sites[s].models, errors |-> FALSE]
    <2>1. s \in Sites /\ SiteIn(s) /\ sites[s].status = "registered"
        BY <1>1 DEF ConfirmBegin, AwaitsConfirm, TokenIn, TypeOK, TokenRow
    <2>2. sites[s] \in WireguardRow
        BY <2>1, RowUpdates DEF SiteIn, TypeOK
    <2>3. v \in ConfirmVars
        BY <2>1, <2>2 DEF ConfirmVars, WireguardRow
    <2>4. confirms' = [confirms EXCEPT ![c] = v]
        BY <1>1 DEF ConfirmBegin
    <2> HIDE DEF v
    <2>5. confirms' \in [ConfirmReqs -> ConfirmVars \cup {None}]
        BY <2>3, <2>4 DEF TypeOK
    <2> QED
        BY <1>1, <2>5 DEF ConfirmBegin, TypeOK
<1>2. ASSUME NEW m \in Models, NEW created \in BOOLEAN,
             NEW answer \in {"ok", "error", "lost"},
             ConfirmPost(c, m, created, answer)
      PROVE  TypeOK'
    <2>1. confirms[c] \in ConfirmVars
        BY <1>2 DEF ConfirmPost, TypeOK
    <2>2. /\ deps' \subseteq Deployment
          /\ nextDep' \in Nat
        <3>1. [id |-> nextDep, model |-> m, host |-> confirms[c].ip,
               site |-> confirms[c].site] \in Deployment
            BY <2>1 DEF Deployment, ConfirmVars, TypeOK
        <3> QED
            BY <1>2, <3>1 DEF ConfirmPost, TypeOK
    <2>3. confirms' \in [ConfirmReqs -> ConfirmVars \cup {None}]
        <3> DEFINE v == [confirms[c] EXCEPT !.todo = @ \ {m},
                                            !.errors = @ \/ answer = "error"]
        <3>1. v \in ConfirmVars
            BY <2>1 DEF ConfirmVars
        <3>2. confirms' \in {[confirms EXCEPT ![c] = None], [confirms EXCEPT ![c] = v]}
            BY <1>2 DEF ConfirmPost, TypeOK
        <3> HIDE DEF v
        <3> QED
            BY <3>1, <3>2 DEF TypeOK
    <2> QED
        BY <1>2, <2>2, <2>3 DEF ConfirmPost, TypeOK
<1>3. ASSUME ConfirmFinish(c)
      PROVE  TypeOK'
    <2>1. confirms[c] \in ConfirmVars
        BY <1>3 DEF ConfirmFinish, TypeOK
    <2>2. sites' \in Table
        BY <1>3, <2>1, StatusRows DEF ConfirmFinish, ConfirmVars
    <2>3. tokens' \in [Tokens -> TokenRow \cup {None}]
        BY <1>3 DEF ConfirmFinish, TypeOK
    <2>4. confirms' \in [ConfirmReqs -> ConfirmVars \cup {None}]
        BY <1>3 DEF ConfirmFinish, TypeOK
    <2> QED
        BY <1>3, <2>2, <2>3, <2>4 DEF ConfirmFinish, TypeOK, Table
<1> QED
    BY <1>1, <1>2, <1>3

\* admin_revoke, from one await to the next.
LEMMA RevokeTypes ==
    ASSUME TypeOK, NEW r \in RevokeReqs
    PROVE  /\ \A s \in Sites, wgOk \in BOOLEAN : RevokeBegin(r, s, wgOk) => TypeOK'
           /\ \A answer \in {"ok", "error", "lost"} : RevokeList(r, answer) => TypeOK'
           /\ \A id \in 1..MaxDeps, deleted \in BOOLEAN, answer \in {"ok", "error", "lost"} :
                RevokeDelete(r, id, deleted, answer) => TypeOK'
           /\ RevokeFinish(r) => TypeOK'
<1>1. ASSUME NEW s \in Sites, NEW wgOk \in BOOLEAN, RevokeBegin(r, s, wgOk)
      PROVE  TypeOK'
    <2> DEFINE row == sites[s]
               v == [site |-> s, transport |-> row.transport, ip |-> row.ip,
                     address |-> row.address, models |-> row.models,
                     listed |-> FALSE, todo |-> {}, failed |-> FALSE]
    <2>1. row \in SiteRow
        BY <1>1 DEF RevokeBegin, SiteIn, TypeOK
    <2>2. v \in RevokeVars
        BY <2>1 DEF RevokeVars, SiteRow, WireguardRow, DirectRow
    <2>3. revokes' = [revokes EXCEPT ![r] = v]
        BY <1>1 DEF RevokeBegin
    <2>4. revokes' \in [RevokeReqs -> RevokeVars \cup {None}]
        <3> HIDE DEF v
        <3> QED
            BY <2>2, <2>3 DEF TypeOK
    <2>5. CASE row.transport = "wireguard"
        <3>1. row \in WireguardRow
            BY <2>1, <2>5, RowColumns
        <3>2. conf' \in Conf
            BY <1>1, <2>5, RemoveType DEF RevokeBegin, TypeOK
        <3>3. route' \in Routes
            BY <1>1, <2>5, RemovePeerRoutes DEF RevokeBegin, TypeOK
        <3>4. cut' \subseteq Keys
            BY <1>1, <2>5, <3>1 DEF RevokeBegin, WireguardRow, TypeOK
        <3> QED
            BY <1>1, <2>4, <3>2, <3>3, <3>4 DEF RevokeBegin, TypeOK
    <2>6. CASE row.transport # "wireguard"
        BY <1>1, <2>4, <2>6 DEF RevokeBegin, TypeOK
    <2> QED
        BY <2>5, <2>6
<1>2. ASSUME NEW answer \in {"ok", "error", "lost"}, RevokeList(r, answer)
      PROVE  TypeOK'
    <2>1. revokes[r] \in RevokeVars
        BY <1>2 DEF RevokeList, TypeOK
    <2> DEFINE ids == IF answer = "error" THEN {}
                      ELSE {d.id : d \in {e \in deps : Managed(revokes[r], e)}}
               v == [revokes[r] EXCEPT !.listed = TRUE, !.todo = ids]
    <2>2. ids \in SUBSET Nat
        BY DEF TypeOK, Deployment
    <2>3. revokes' \in {[revokes EXCEPT ![r] = None], [revokes EXCEPT ![r] = v]}
        BY <1>2 DEF RevokeList, TypeOK
    <2> HIDE DEF ids
    <2>4. v \in RevokeVars
        BY <2>1, <2>2 DEF RevokeVars
    <2> HIDE DEF v
    <2> QED
        BY <1>2, <2>3, <2>4 DEF RevokeList, TypeOK
<1>3. ASSUME NEW id \in 1..MaxDeps, NEW deleted \in BOOLEAN,
             NEW answer \in {"ok", "error", "lost"},
             RevokeDelete(r, id, deleted, answer)
      PROVE  TypeOK'
    <2>1. revokes[r] \in RevokeVars
        BY <1>3 DEF RevokeDelete, TypeOK
    <2> DEFINE v == [revokes[r] EXCEPT !.todo = @ \ {id},
                                       !.failed = @ \/ answer = "error"]
    <2>2. v \in RevokeVars
        BY <2>1 DEF RevokeVars
    <2>3. revokes' \in {[revokes EXCEPT ![r] = None], [revokes EXCEPT ![r] = v]}
        BY <1>3 DEF RevokeDelete, TypeOK
    <2> HIDE DEF v
    <2> QED
        BY <1>3, <2>2, <2>3 DEF RevokeDelete, TypeOK
<1>4. ASSUME RevokeFinish(r)
      PROVE  TypeOK'
    <2>1. revokes[r] \in RevokeVars
        BY <1>4 DEF RevokeFinish, TypeOK
    <2>2. SetStatus(revokes[r].site, "revoked") \in Table
        BY <2>1, StatusRows DEF RevokeVars
    <2>3. sites' \in Table
        BY <1>4, <2>2 DEF RevokeFinish, Table, TypeOK
    <2>4. revokes' \in [RevokeReqs -> RevokeVars \cup {None}]
        BY <1>4 DEF RevokeFinish, TypeOK
    <2> QED
        BY <1>4, <2>3, <2>4 DEF RevokeFinish, TypeOK, Table
<1> QED
    BY <1>1, <1>2, <1>3, <1>4

\* The faults, and the routes the console stages.
LEMMA OtherTypes ==
    ASSUME TypeOK
    PROVE  /\ Crash => TypeOK'
           /\ \A s \in Sites : CrashInRevoke(s) => TypeOK'
           /\ WgRestart => TypeOK'
           /\ \A s \in Sites, a \in Addresses, m \in Models :
                StageDirect(s, a, m) => TypeOK'
           /\ \A s \in Sites, id \in 1..MaxDeps : UnstageDirect(s, id) => TypeOK'
<1>1. Crash => TypeOK'
    BY StoppedType DEF Crash, TypeOK
<1>2. \A s \in Sites : CrashInRevoke(s) => TypeOK'
    BY StoppedType, RemovePeerRoutes DEF CrashInRevoke, TypeOK
<1>3. WgRestart => TypeOK'
    BY QuickUpRoutes DEF WgRestart, TypeOK
<1>4. ASSUME NEW s \in Sites, NEW a \in Addresses, NEW m \in Models,
             StageDirect(s, a, m)
      PROVE  TypeOK'
    <2>1. [id |-> nextDep, model |-> m, host |-> a, site |-> s] \in Deployment
        BY DEF Deployment, TypeOK
    <2> QED
        BY <1>4, <2>1 DEF StageDirect, TypeOK
<1>5. \A s \in Sites, id \in 1..MaxDeps : UnstageDirect(s, id) => TypeOK'
    BY DEF UnstageDirect, TypeOK
<1> QED
    BY <1>1, <1>2, <1>3, <1>4, <1>5

\* The empty state of a fresh gateway is well-typed.
LEMMA InitType == Init => TypeOK
<1> SUFFICES ASSUME Init PROVE TypeOK
    OBVIOUS
<1>1. conf \in Conf
    BY DEF Init, FreshConf, IfaceBlock, Conf
<1> QED
    BY <1>1 DEF Init, TypeOK, Routes

\* Every step keeps the state well-typed: one lemma above per handler.
LEMMA NextType == TypeOK /\ [Next]_vars => TypeOK'
<1> SUFFICES ASSUME TypeOK, [Next]_vars PROVE TypeOK'
    OBVIOUS
<1>1. CASE PublicStep
    BY <1>1, RegisterType, RegistryTypes, ConfirmTypes DEF PublicStep
<1>2. CASE AdminStep
    BY <1>2, RegistryTypes, RevokeTypes, OtherTypes DEF AdminStep
<1>3. CASE EnvironmentStep
    BY <1>3, RegistryTypes, OtherTypes DEF EnvironmentStep
<1>4. CASE UNCHANGED vars
    BY <1>4 DEF TypeOK
<1> QED
    BY <1>1, <1>2, <1>3, <1>4 DEF Next

\* Whatever interleaves, fails or crashes, the tables, the files and the local
\* variables of the handlers keep their shape: no Direct row ever gets a key, or
\* the status of a row that awaits its confirm or has failed it. The late updates
\* by name of confirm and admin_revoke can make it partial or revoked.
THEOREM TypeCorrect == Spec => []TypeOK
BY InitType, NextType, PTL DEF Spec

-------------------------------------------------------------------------------
(* What a step may do to the tables, to the tunnel and to wg0.conf *)

\* The key and the address of a row, which AddressesExclusive is about.
SameColumns(row, old) == row.ip = old.ip /\ row.pubkey = old.pubkey

\* Every row is one that was there before with the same key and address, or a
\* Direct one.
OldOrDirect ==
    \A s \in Sites : sites'[s] # None =>
        \/ sites[s] # None /\ SameColumns(sites'[s], sites[s])
           /\ sites'[s].transport = sites[s].transport
        \/ sites'[s] \in DirectRow

\* Tokens are deleted or expire, and change in no other way.
TokensAge ==
    \A t \in Tokens : tokens'[t] # None =>
        /\ tokens[t] # None
        /\ tokens'[t] \in {tokens[t], [tokens[t] EXCEPT !.expired = TRUE]}

\* Only register and admin_token bring new claims to an address.
LEMMA TableSteps ==
    ASSUME TypeOK, [Next]_vars
    PROVE  \/ OldOrDirect /\ TokensAge
           \/ \E t \in Tokens, s \in Sites, ms \in SUBSET Models : admin_token(t, s, ms)
           \/ \E t \in Tokens, k \in Keys, reached \in Stages : register(t, k, reached)
<1> DEFINE Kept == OldOrDirect /\ TokensAge
<1>1. UNCHANGED sites => OldOrDirect
    BY DEF OldOrDirect, SameColumns
<1>2. UNCHANGED tokens => TokensAge
    BY DEF TokensAge
<1>3. ASSUME NEW s \in Sites, NEW st \in {"failed", "active", "partial", "revoked"},
             st = "failed" => SiteIn(s) /\ sites[s].status = "registered",
             sites' = SetStatus(s, st)
      PROVE  OldOrDirect
    BY <1>3, StatusRows DEF OldOrDirect, SameColumns
<1>4. ASSUME NEW t \in Tokens, TokenExpires(t)
      PROVE  Kept
    BY <1>1, <1>4 DEF TokenExpires, TokenIn, TokensAge, TypeOK
<1>5. ASSUME NEW t \in Tokens, ConfirmRefused(t)
      PROVE  Kept
    <2>1. tokens[t].site \in Sites
        BY <1>5 DEF ConfirmRefused, AwaitsConfirm, TokenIn, TypeOK, TokenRow
    <2> QED
        BY <1>2, <1>3, <1>5, <2>1 DEF ConfirmRefused, AwaitsConfirm
<1>6. ASSUME NEW c \in ConfirmReqs, ConfirmFinish(c)
      PROVE  Kept
    <2>1. confirms[c].site \in Sites
        BY <1>6 DEF ConfirmFinish, TypeOK, ConfirmVars
    <2>2. TokensAge
        BY <1>6 DEF ConfirmFinish, TokensAge, TypeOK
    <2>3. PICK st \in {"active", "partial"} : sites' = SetStatus(confirms[c].site, st)
        BY <1>6 DEF ConfirmFinish
    <2> QED
        BY <1>3, <2>1, <2>2, <2>3
<1>7. ASSUME NEW r \in RevokeReqs, RevokeFinish(r)
      PROVE  Kept
    <2>1. revokes[r].site \in Sites
        BY <1>7 DEF RevokeFinish, TypeOK, RevokeVars
    <2>2. \/ UNCHANGED sites
          \/ sites' = SetStatus(revokes[r].site, "revoked")
          \/ sites' = [sites EXCEPT ![revokes[r].site] = None]
        BY <1>7 DEF RevokeFinish
    <2>3. sites' = [sites EXCEPT ![revokes[r].site] = None] => OldOrDirect
        BY DEF OldOrDirect, SameColumns, TypeOK
    <2> QED
        BY <1>1, <1>2, <1>3, <1>7, <2>1, <2>2, <2>3 DEF RevokeFinish
<1>8. ASSUME NEW s \in Sites, NEW ms \in SUBSET Models, admin_models(s, ms)
      PROVE  Kept
    <2>1. sites[s] \in SiteRow
        BY <1>8 DEF admin_models, SiteIn, TypeOK
    <2>2. /\ SameColumns([sites[s] EXCEPT !.models = ms], sites[s])
          /\ [sites[s] EXCEPT !.models = ms].transport = sites[s].transport
        BY <2>1 DEF SameColumns, SiteRow, WireguardRow, DirectRow
    <2> QED
        BY <1>2, <1>8, <2>2 DEF admin_models, SiteIn, OldOrDirect, SameColumns, TypeOK
<1>9. ASSUME NEW s \in Sites, NEW a \in Addresses, NEW ms \in SUBSET Models,
             admin_direct(s, a, ms)
      PROVE  Kept
    <2> DEFINE row == [transport |-> "direct", pubkey |-> None, ip |-> None,
                       address |-> a, models |-> ms, status |-> "active"]
    <2>1. row \in DirectRow
        BY DEF DirectRow
    <2>2. sites' = InsertOrReplace(sites, s, row)
        BY <1>9 DEF admin_direct
    <2> HIDE DEF row
    <2>3. \A x \in Sites : sites'[x] # None => x = s \/ sites'[x] = sites[x]
        BY <2>1, <2>2, InsertRows DEF SiteRow, Table, TypeOK
    <2>4. sites'[s] = row
        BY <2>1, <2>2, InsertRows DEF SiteRow, Table, TypeOK
    <2> QED
        BY <1>2, <1>9, <2>1, <2>3, <2>4 DEF admin_direct, OldOrDirect, SameColumns
<1>10. UNCHANGED <<tokens, sites>> => Kept
    BY <1>1, <1>2
<1> HIDE DEF Kept
<1>11. CASE PublicStep
    <2>1. \A c \in ConfirmReqs, t \in Tokens : ConfirmBegin(c, t) => Kept
        BY <1>10 DEF ConfirmBegin
    <2>2. \A c \in ConfirmReqs, m \in Models, created \in BOOLEAN,
             answer \in {"ok", "error", "lost"} :
                ConfirmPost(c, m, created, answer) => Kept
        BY <1>10 DEF ConfirmPost
    <2> QED
        BY <1>5, <1>6, <1>11, <2>1, <2>2 DEF PublicStep, Kept
<1>12. CASE AdminStep
    <2>1. \A r \in RevokeReqs, s \in Sites, wgOk \in BOOLEAN :
            RevokeBegin(r, s, wgOk) => Kept
        BY <1>10 DEF RevokeBegin
    <2>2. \A r \in RevokeReqs, answer \in {"ok", "error", "lost"} :
            RevokeList(r, answer) => Kept
        BY <1>10 DEF RevokeList
    <2>3. \A r \in RevokeReqs, id \in 1..MaxDeps, deleted \in BOOLEAN,
             answer \in {"ok", "error", "lost"} :
                RevokeDelete(r, id, deleted, answer) => Kept
        BY <1>10 DEF RevokeDelete
    <2>4. \A s \in Sites, a \in Addresses, m \in Models : StageDirect(s, a, m) => Kept
        BY <1>10 DEF StageDirect
    <2>5. \A s \in Sites, id \in 1..MaxDeps : UnstageDirect(s, id) => Kept
        BY <1>10 DEF UnstageDirect
    <2> QED
        BY <1>7, <1>8, <1>9, <1>12, <2>1, <2>2, <2>3, <2>4, <2>5 DEF AdminStep, Kept
<1>13. CASE EnvironmentStep
    <2>1. Crash \/ WgRestart \/ (\E s \in Sites : CrashInRevoke(s)) => Kept
        BY <1>10 DEF Crash, WgRestart, CrashInRevoke
    <2> QED
        BY <1>4, <1>13, <2>1 DEF EnvironmentStep, Kept
<1>14. CASE UNCHANGED vars
    BY <1>10, <1>14 DEF Kept
<1> QED
    BY <1>11, <1>12, <1>13, <1>14 DEF Next

\* While addresses are exclusive, no site sits on the address of a token that
\* can still be used: register has no peer to replace.
LEMMA NothingStale ==
    ASSUME TypeOK, AddressesExclusive, NEW t \in Tokens, Usable(t), NEW key
    PROVE  StaleRows(tokens[t].ip, key) = {}
BY DEF AddressesExclusive, Usable, StaleRows

\* What register does when there is nothing to replace.
LEMMA RegisterSteps ==
    ASSUME TypeOK, AddressesExclusive,
           NEW t \in Tokens, NEW key \in Keys, NEW reached \in Stages,
           register(t, key, reached)
    PROVE  LET ip  == tokens[t].ip
               row == [transport |-> "wireguard", pubkey |-> key, ip |-> ip,
                       address |-> None, models |-> tokens[t].models,
                       status |-> "registered"]
           IN  /\ Usable(t) /\ tokens[t] \in TokenRow /\ row \in SiteRow
               /\ tokens' = [tokens EXCEPT ![t].used = TRUE]
               /\ route' = IF reached \in {"wg", "conf", "row"}
                           THEN WgSetPeer(route, key, ip) ELSE route
               /\ conf' = IF reached \in {"conf", "row"}
                          THEN append_peer_to_conf(conf, key, ip) ELSE conf
               /\ sites' = IF reached = "row"
                           THEN InsertOrReplace(sites, tokens[t].site, row) ELSE sites
<1> DEFINE stale == StaleRows(tokens[t].ip, key)
<1>1. Usable(t)
    BY DEF register
<1>2. stale = {}
    BY <1>1, NothingStale
<1>3. tokens[t] \in TokenRow
    BY <1>1 DEF Usable, TokenIn, TypeOK
<1>4. [transport |-> "wireguard", pubkey |-> key, ip |-> tokens[t].ip,
       address |-> None, models |-> tokens[t].models,
       status |-> "registered"] \in SiteRow
    BY <1>3 DEF TokenRow, SiteRow, WireguardRow
<1>5. [s \in Sites |-> IF s \in stale THEN None ELSE sites[s]] = sites
    BY <1>2 DEF TypeOK
<1>6. [i \in IPs |-> IF \E s \in stale : route[i] = sites[s].pubkey
                     THEN None ELSE route[i]] = route
    BY <1>2 DEF TypeOK, Routes
<1>7. DropStalePeers(conf, stale) = conf
    BY <1>2 DEF DropStalePeers
<1> HIDE DEF stale
<1>8. tokens' = [tokens EXCEPT ![t].used = TRUE]
    BY DEF register, Burn
<1>9. route' = IF reached \in {"wg", "conf", "row"}
               THEN WgSetPeer(route, key, tokens[t].ip) ELSE route
    BY <1>6 DEF register, stale
<1>10. conf' = IF reached \in {"conf", "row"}
               THEN append_peer_to_conf(conf, key, tokens[t].ip) ELSE conf
    BY <1>7 DEF register, stale
<1>11. sites' = IF reached = "row"
                THEN InsertOrReplace(sites, tokens[t].site,
                        [transport |-> "wireguard", pubkey |-> key,
                         ip |-> tokens[t].ip, address |-> None,
                         models |-> tokens[t].models, status |-> "registered"])
                ELSE sites
    BY <1>5 DEF register, stale, WritesRow
<1> QED
    BY <1>1, <1>3, <1>4, <1>8, <1>9, <1>10, <1>11

-------------------------------------------------------------------------------
(* Addresses are exclusive *)

\* A fresh gateway has no row that could clash.
LEMMA InitExclusive == Init => AddressesExclusive
BY DEF Init, AddressesExclusive, TokenIn, SiteIn

\* Every step keeps addresses exclusive: next_wg_ip hands out what no row holds,
\* and register burns the token before the row that takes its address appears.
LEMMA NextExclusive ==
    ASSUME TypeOK, AddressesExclusive, [Next]_vars
    PROVE  AddressesExclusive'
<1>1. CASE OldOrDirect /\ TokensAge
    <2>1. \A t \in Tokens : TokenIn(t)' =>
            /\ TokenIn(t) /\ tokens'[t].ip = tokens[t].ip /\ tokens[t].ip \in IPs
            /\ tokens'[t].used = tokens[t].used /\ tokens'[t].site = tokens[t].site
        BY <1>1 DEF TokensAge, TokenIn, TypeOK, TokenRow
    <2>2. \A s \in Sites : SiteIn(s)' =>
            \/ /\ SiteIn(s) /\ sites'[s].ip = sites[s].ip
               /\ sites'[s].pubkey = sites[s].pubkey
            \/ sites'[s].ip = None /\ sites'[s].pubkey = None
        BY <1>1 DEF OldOrDirect, SameColumns, SiteIn, DirectRow
    <2> QED
        BY <2>1, <2>2, KeysAssumption DEF AddressesExclusive
<1>2. ASSUME NEW t \in Tokens, NEW s \in Sites, NEW ms \in SUBSET Models,
             admin_token(t, s, ms)
      PROVE  AddressesExclusive'
    <2>1. PICK ip \in IPs :
            /\ ip \notin WgIpsInUse
            /\ tokens' = [u \in Tokens |->
                        IF u = t
                        THEN [site |-> s, models |-> ms, ip |-> ip,
                              used |-> FALSE, expired |-> FALSE]
                        ELSE IF TokenIn(u) /\ tokens[u].site = s
                                /\ ~tokens[u].used
                        THEN None
                        ELSE tokens[u]]
        BY <1>2 DEF admin_token, IsNextWgIp
    <2>2. \A u \in Tokens \ {t} : tokens'[u] \in {tokens[u], None}
        BY <2>1
    <2>3. tokens'[t].ip = ip
        BY <2>1
    <2>4. /\ \A u \in Tokens : TokenIn(u) => tokens[u].ip # ip
          /\ \A x \in Sites : SiteIn(x) => sites[x].ip # ip
        BY <2>1 DEF WgIpsInUse, TokenIps, SiteIps
    <2>5. UNCHANGED sites
        BY <1>2 DEF admin_token
    <2> QED
        BY <2>2, <2>3, <2>4, <2>5 DEF AddressesExclusive, TokenIn, SiteIn
<1>3. ASSUME NEW t \in Tokens, NEW key \in Keys, NEW reached \in Stages,
             register(t, key, reached)
      PROVE  AddressesExclusive'
    <2> DEFINE ip == tokens[t].ip
               s0 == tokens[t].site
               row == [transport |-> "wireguard", pubkey |-> key, ip |-> ip,
                       address |-> None, models |-> tokens[t].models,
                       status |-> "registered"]
    <2>1. /\ Usable(t) /\ tokens[t] \in TokenRow /\ row \in SiteRow
          /\ tokens' = [tokens EXCEPT ![t].used = TRUE]
          /\ sites' = IF reached = "row" THEN InsertOrReplace(sites, s0, row) ELSE sites
        BY <1>3, RegisterSteps
    <2>2. \A u \in Tokens : TokenIn(u)' =>
            /\ TokenIn(u) /\ tokens'[u].ip = tokens[u].ip
            /\ tokens'[u].site = tokens[u].site
            /\ tokens'[u].used <=> (tokens[u].used \/ u = t)
        BY <2>1 DEF TokenIn, TypeOK, TokenRow, Usable
    <2>3. ip \in IPs /\ s0 \in Sites /\ ip # None /\ key # None
        BY <2>1, KeysAssumption DEF TokenRow
    <2>4. row.ip = ip /\ row.pubkey = key
        OBVIOUS
    <2>5. TokenIn(t) /\ ~tokens[t].used
        BY <2>1 DEF Usable
    <2> HIDE DEF row, ip, s0
    <2>6. \A x \in Sites : SiteIn(x)' =>
            \/ SiteIn(x) /\ sites'[x] = sites[x]
               /\ (reached = "row" => sites[x].ip # ip /\ sites[x].pubkey # key)
            \/ reached = "row" /\ x = s0 /\ sites'[x] = row
        BY <2>1, <2>3, <2>4, InsertRows DEF SiteIn, TypeOK, Table
    <2> QED
        <3>1. \A u, w \in Tokens :
                TokenIn(u)' /\ TokenIn(w)' /\ tokens'[u].ip = tokens'[w].ip => u = w
            BY <2>2 DEF AddressesExclusive
        <3>2. ASSUME NEW u \in Tokens, NEW x \in Sites,
                     TokenIn(u)', SiteIn(x)', tokens'[u].ip = sites'[x].ip
              PROVE  tokens'[u].used /\ tokens'[u].site = x
            <4>1. CASE sites'[x] = row /\ x = s0
                <5>1. tokens[u].ip = ip /\ TokenIn(u)
                    BY <2>2, <2>4, <3>2, <4>1
                <5>2. u = t
                    BY <2>5, <5>1 DEF AddressesExclusive, ip
                <5> QED
                    BY <2>2, <3>2, <4>1, <5>2 DEF s0
            <4>2. CASE SiteIn(x) /\ sites'[x] = sites[x]
                BY <2>2, <3>2, <4>2 DEF AddressesExclusive
            <4> QED
                BY <2>6, <3>2, <4>1, <4>2
        <3>3. ASSUME NEW x \in Sites, NEW y \in Sites, SiteIn(x)', SiteIn(y)',
                     \/ sites'[x].ip # None /\ sites'[x].ip = sites'[y].ip
                     \/ sites'[x].pubkey # None /\ sites'[x].pubkey = sites'[y].pubkey
              PROVE  x = y
            BY <2>4, <2>6, <3>3 DEF AddressesExclusive
        <3> QED
            BY <3>1, <3>2, <3>3 DEF AddressesExclusive
<1> QED
    BY <1>1, <1>2, <1>3, TableSteps

\* An address belongs to one party at a time, however requests interleave and
\* whatever fails: next_wg_ip, the deletion of unused tokens and INSERT OR
\* REPLACE together keep the tables apart.
THEOREM AddressesAreExclusive == Spec => []AddressesExclusive
<1>1. Init => TypeOK /\ AddressesExclusive
    BY InitType, InitExclusive
<1>2. TypeOK /\ AddressesExclusive /\ [Next]_vars => (TypeOK /\ AddressesExclusive)'
    BY NextType, NextExclusive
<1> QED
    BY <1>1, <1>2, PTL DEF Spec

\* The branch of register that removes the peer of a site already on the
\* address of the token is dead code: no reachable state takes it.
RegisterReplacesNobody ==
    \A t \in Tokens, key \in Keys : Usable(t) => StaleRows(tokens[t].ip, key) = {}

\* The comment on that branch (a site that installs again) is never lived up to.
THEOREM StaleBranchIsDead == Spec => []RegisterReplacesNobody
<1>1. TypeOK /\ AddressesExclusive => RegisterReplacesNobody
    BY NothingStale DEF RegisterReplacesNobody
<1> QED
    BY <1>1, TypeCorrect, AddressesAreExclusive, PTL

-------------------------------------------------------------------------------
(* The tunnel *)

\* Peers are only taken away, from the interface and from the file.
TunnelShrinks ==
    /\ \A i \in IPs : route'[i] \in {route[i], None}
    /\ KeysOf(conf') \subseteq KeysOf(conf)

\* Only register and a restart of the WireGuard container bring peers in; what
\* admin_revoke reports as cut is off the interface and out of the file.
LEMMA TunnelSteps ==
    ASSUME TypeOK, [Next]_vars
    PROVE  \/ TunnelShrinks /\ UNCHANGED cut
           \/ TunnelShrinks /\ \E k \in Keys :
                /\ cut' = cut \cup {k} /\ k \notin KeysOf(conf')
                /\ \A i \in IPs : route'[i] # k
           \/ WgRestart
           \/ \E t \in Tokens, k \in Keys, reached \in Stages : register(t, k, reached)
<1> DEFINE Shrinks == TunnelShrinks /\ UNCHANGED cut
<1>1. UNCHANGED tunnel => Shrinks
    BY DEF TunnelShrinks
<1>2. ASSUME NEW r \in RevokeReqs, NEW s \in Sites, NEW wgOk \in BOOLEAN,
             RevokeBegin(r, s, wgOk), sites[s].transport = "wireguard"
      PROVE  /\ TunnelShrinks
             /\ \/ UNCHANGED cut
                \/ \E k \in Keys : /\ cut' = cut \cup {k} /\ k \notin KeysOf(conf')
                                   /\ \A i \in IPs : route'[i] # k
    <2> DEFINE k == sites[s].pubkey
    <2>1. k \in Keys /\ k # None
        BY <1>2, RowColumns, KeysAssumption DEF RevokeBegin, SiteIn, TypeOK, WireguardRow
    <2>2. /\ route' = IF wgOk THEN WgRemovePeer(route, k) ELSE route
          /\ conf' = remove_peer_from_conf(conf, k)
          /\ cut' = IF wgOk THEN cut \cup {k} ELSE cut
        BY <1>2 DEF RevokeBegin
    <2> HIDE DEF k
    <2>3. KeysOf(conf') \subseteq KeysOf(conf) \ {k}
        BY <2>2, RemoveKeys DEF TypeOK
    <2>4. \A i \in IPs : route'[i] \in {route[i], None} /\ (wgOk => route'[i] # k)
        BY <2>1, <2>2, RemovePeerRoutes DEF TypeOK
    <2> QED
        BY <2>1, <2>2, <2>3, <2>4 DEF TunnelShrinks
<1>3. ASSUME NEW r \in RevokeReqs, NEW s \in Sites, NEW wgOk \in BOOLEAN,
             RevokeBegin(r, s, wgOk), sites[s].transport # "wireguard"
      PROVE  Shrinks
    BY <1>3 DEF RevokeBegin, TunnelShrinks
<1>4. ASSUME NEW s \in Sites, CrashInRevoke(s)
      PROVE  Shrinks
    BY <1>4, RemovePeerRoutes DEF CrashInRevoke, TunnelShrinks, TypeOK
<1> HIDE DEF Shrinks
<1>5. CASE PublicStep
    <2>1. \A t \in Tokens : ConfirmRefused(t) => Shrinks
        BY <1>1 DEF ConfirmRefused
    <2>2. \A c \in ConfirmReqs, t \in Tokens : ConfirmBegin(c, t) => Shrinks
        BY <1>1 DEF ConfirmBegin
    <2>3. \A c \in ConfirmReqs, m \in Models, created \in BOOLEAN,
             answer \in {"ok", "error", "lost"} :
                ConfirmPost(c, m, created, answer) => Shrinks
        BY <1>1 DEF ConfirmPost
    <2>4. \A c \in ConfirmReqs : ConfirmFinish(c) => Shrinks
        BY <1>1 DEF ConfirmFinish
    <2> QED
        BY <1>5, <2>1, <2>2, <2>3, <2>4 DEF PublicStep, Shrinks
<1>6. CASE AdminStep
    <2>1. \A t \in Tokens, s \in Sites, ms \in SUBSET Models :
            admin_token(t, s, ms) => Shrinks
        BY <1>1 DEF admin_token
    <2>2. \A r \in RevokeReqs, answer \in {"ok", "error", "lost"} :
            RevokeList(r, answer) => Shrinks
        BY <1>1 DEF RevokeList
    <2>3. \A r \in RevokeReqs, id \in 1..MaxDeps, deleted \in BOOLEAN,
             answer \in {"ok", "error", "lost"} :
                RevokeDelete(r, id, deleted, answer) => Shrinks
        BY <1>1 DEF RevokeDelete
    <2>4. \A r \in RevokeReqs : RevokeFinish(r) => Shrinks
        BY <1>1 DEF RevokeFinish
    <2>5. \A s \in Sites, a \in Addresses, ms \in SUBSET Models :
            admin_direct(s, a, ms) => Shrinks
        BY <1>1 DEF admin_direct
    <2>6. \A s \in Sites, ms \in SUBSET Models : admin_models(s, ms) => Shrinks
        BY <1>1 DEF admin_models
    <2>7. \A s \in Sites, a \in Addresses, m \in Models : StageDirect(s, a, m) => Shrinks
        BY <1>1 DEF StageDirect
    <2>8. \A s \in Sites, id \in 1..MaxDeps : UnstageDirect(s, id) => Shrinks
        BY <1>1 DEF UnstageDirect
    <2> QED
        BY <1>2, <1>3, <1>6, <2>1, <2>2, <2>3, <2>4, <2>5, <2>6, <2>7, <2>8
           DEF AdminStep, Shrinks
<1>7. CASE EnvironmentStep
    <2>1. \A t \in Tokens : TokenExpires(t) => Shrinks
        BY <1>1 DEF TokenExpires
    <2>2. Crash => Shrinks
        BY <1>1 DEF Crash
    <2> QED
        BY <1>4, <1>7, <2>1, <2>2 DEF EnvironmentStep, Shrinks
<1>8. CASE UNCHANGED vars
    BY <1>1, <1>8 DEF Shrinks
<1> QED
    BY <1>5, <1>6, <1>7, <1>8 DEF Next

\* Every step keeps the peers off that admin_revoke cut.
LEMMA NextCut ==
    ASSUME TypeOK, AddressesExclusive, CutPeerStaysOff, [Next]_vars
    PROVE  CutPeerStaysOff'
<1> USE KeysAssumption
<1>1. ASSUME TunnelShrinks, UNCHANGED cut
      PROVE  CutPeerStaysOff'
    BY <1>1 DEF TunnelShrinks, CutPeerStaysOff, TypeOK
<1>2. ASSUME TunnelShrinks, NEW k \in Keys, cut' = cut \cup {k},
             k \notin KeysOf(conf'), \A i \in IPs : route'[i] # k
      PROVE  CutPeerStaysOff'
    BY <1>2 DEF TunnelShrinks, CutPeerStaysOff, TypeOK
<1>3. CASE WgRestart
    BY <1>3, QuickUpRoutes DEF WgRestart, CutPeerStaysOff, TypeOK
<1>4. ASSUME NEW t \in Tokens, NEW key \in Keys, NEW reached \in Stages,
             register(t, key, reached)
      PROVE  CutPeerStaysOff'
    <2> DEFINE ip == tokens[t].ip
    <2>1. /\ ip \in IPs
          /\ route' = IF reached \in {"wg", "conf", "row"}
                      THEN WgSetPeer(route, key, ip) ELSE route
          /\ conf' = IF reached \in {"conf", "row"}
                     THEN append_peer_to_conf(conf, key, ip) ELSE conf
        BY <1>4, RegisterSteps DEF TokenRow
    <2>2. cut' = IF reached \in {"wg", "conf", "row"} THEN cut \ {key} ELSE cut
        BY <1>4 DEF register
    <2> HIDE DEF ip
    <2>3. CASE reached \in {"wg", "conf", "row"}
        <3>1. \A i \in IPs : route'[i] \in {route[i], key, None}
            BY <2>1, <2>3, SetPeerRoutes DEF TypeOK
        <3>2. KeysOf(conf') \subseteq KeysOf(conf) \cup {key}
            BY <2>1, AppendKeys DEF TypeOK
        <3> QED
            BY <2>2, <2>3, <3>1, <3>2 DEF CutPeerStaysOff, TypeOK
    <2>4. CASE reached \notin {"wg", "conf", "row"}
        BY <2>1, <2>2, <2>4 DEF CutPeerStaysOff
    <2> QED
        BY <2>3, <2>4
<1> QED
    BY <1>1, <1>2, <1>3, <1>4, TunnelSteps

\* A revoked peer stays off: neither a restart of the WireGuard container from
\* wg0.conf nor any other request or crash brings a key back that admin_revoke
\* took off, before a register brings that key again.
THEOREM CutPeersStayOff == Spec => []CutPeerStaysOff
<1>1. Init => TypeOK /\ AddressesExclusive /\ CutPeerStaysOff
    BY InitType, InitExclusive DEF Init, CutPeerStaysOff
<1>2. TypeOK /\ AddressesExclusive /\ CutPeerStaysOff /\ [Next]_vars
        => (TypeOK /\ AddressesExclusive /\ CutPeerStaysOff)'
    BY NextType, NextExclusive, NextCut
<1> QED
    BY <1>1, <1>2, PTL DEF Spec

\* Every step but a restart keeps foreign peers off the addresses of the sites.
LEMMA NextForeign ==
    ASSUME TypeOK, AddressesExclusive, NoForeignPeer, [Next]_vars,
           "restart" \notin Faults
    PROVE  NoForeignPeer'
<1>1. ~WgRestart
    BY DEF WgRestart, Fault
<1>2. ASSUME TunnelShrinks, OldOrDirect
      PROVE  NoForeignPeer'
    <2>1. ASSUME NEW s \in Sites, SiteIn(s)', sites'[s].transport = "wireguard"
          PROVE  /\ SiteIn(s) /\ sites[s].transport = "wireguard"
                 /\ sites'[s].ip = sites[s].ip /\ sites'[s].pubkey = sites[s].pubkey
                 /\ sites[s].ip \in IPs
        BY <1>2, <2>1, RowColumns
           DEF OldOrDirect, SameColumns, SiteIn, DirectRow, WireguardRow, TypeOK
    <2> QED
        BY <1>2, <2>1 DEF NoForeignPeer, TunnelShrinks
<1>3. ASSUME NEW t \in Tokens, NEW s \in Sites, NEW ms \in SUBSET Models,
             admin_token(t, s, ms)
      PROVE  NoForeignPeer'
    BY <1>3 DEF admin_token, NoForeignPeer, SiteIn
<1>4. ASSUME NEW t \in Tokens, NEW key \in Keys, NEW reached \in Stages,
             register(t, key, reached)
      PROVE  NoForeignPeer'
    <2> DEFINE ip == tokens[t].ip
               s0 == tokens[t].site
               row == [transport |-> "wireguard", pubkey |-> key, ip |-> ip,
                       address |-> None, models |-> tokens[t].models,
                       status |-> "registered"]
    <2>1. /\ Usable(t) /\ tokens[t] \in TokenRow /\ row \in SiteRow
          /\ route' = IF reached \in {"wg", "conf", "row"}
                      THEN WgSetPeer(route, key, ip) ELSE route
          /\ sites' = IF reached = "row" THEN InsertOrReplace(sites, s0, row) ELSE sites
        BY <1>4, RegisterSteps
    <2>2. ip \in IPs /\ s0 \in Sites /\ row.ip = ip /\ row.pubkey = key
        BY <2>1 DEF TokenRow
    <2>3. \A s \in Sites : SiteIn(s) => sites[s].ip # ip
        BY <2>1 DEF Usable, AddressesExclusive
    <2>4. \A i \in IPs \ {ip} : route'[i] \in {route[i], None}
        <3> HIDE DEF ip
        <3> QED
            BY <2>1, <2>2, SetPeerRoutes DEF TypeOK
    <2>5. reached = "row" => route'[ip] = key
        <3> HIDE DEF ip
        <3> QED
            BY <2>1, <2>2, SetPeerRoutes DEF TypeOK
    <2> HIDE DEF row, ip, s0
    <2>6. \A s \in Sites : SiteIn(s)' =>
            \/ SiteIn(s) /\ sites'[s] = sites[s]
            \/ reached = "row" /\ sites'[s] = row
        BY <2>1, <2>2, InsertRows DEF SiteIn, TypeOK, Table
    <2>7. \A s \in Sites : SiteIn(s) /\ sites[s].transport = "wireguard"
                                => sites[s].ip \in IPs
        BY RowColumns DEF SiteIn, TypeOK, WireguardRow
    <2> QED
        BY <2>2, <2>3, <2>4, <2>5, <2>6, <2>7 DEF NoForeignPeer
<1>5. UNCHANGED sites => OldOrDirect
    BY DEF OldOrDirect, SameColumns
<1> QED
    BY <1>1, <1>2, <1>3, <1>4, TableSteps, TunnelSteps

\* While the WireGuard container is not restarted from its file, the address of
\* an enrolled site never delivers to a peer other than its own, also when
\* `wg set` fails, onboardd stops half-way, or a key is registered twice.
THEOREM NoForeignPeers ==
    ASSUME "restart" \notin Faults
    PROVE  Spec => []NoForeignPeer
<1>1. Init => TypeOK /\ AddressesExclusive /\ NoForeignPeer
    BY InitType, InitExclusive DEF Init, NoForeignPeer, SiteIn
<1>2. TypeOK /\ AddressesExclusive /\ NoForeignPeer /\ [Next]_vars
        => (TypeOK /\ AddressesExclusive /\ NoForeignPeer)'
    BY NextType, NextExclusive, NextForeign
<1> QED
    BY <1>1, <1>2, PTL DEF Spec

-------------------------------------------------------------------------------
(* Tokens *)

\* secrets.token_urlsafe never repeats a token that is in the table.
TokensIssued == \A t \in Tokens : TokenIn(t) => t \in issued

\* Every step keeps the tokens of the table among those generated.
LEMMA NextIssued ==
    ASSUME TypeOK, AddressesExclusive, TokensIssued, [Next]_vars
    PROVE  TokensIssued'
<1>1. issued \subseteq issued'
    <2>1. CASE PublicStep
        <3>1. ASSUME NEW t \in Tokens, NEW key \in Keys, NEW reached \in Stages,
                     register(t, key, reached)
              PROVE  UNCHANGED issued
            BY <3>1 DEF register
        <3> QED
            BY <2>1, <3>1 DEF PublicStep, ConfirmRefused, ConfirmBegin, ConfirmPost,
                              ConfirmFinish
    <2>2. CASE AdminStep
        BY <2>2 DEF AdminStep, admin_token, RevokeBegin, RevokeList, RevokeDelete,
                    RevokeFinish, admin_direct, admin_models, StageDirect, UnstageDirect
    <2>3. CASE EnvironmentStep
        BY <2>3 DEF EnvironmentStep, TokenExpires, Crash, CrashInRevoke, WgRestart
    <2>4. CASE UNCHANGED vars
        BY <2>4
    <2> QED
        BY <2>1, <2>2, <2>3, <2>4 DEF Next
<1>2. CASE TokensAge
    BY <1>1, <1>2 DEF TokensAge, TokensIssued, TokenIn
<1>3. ASSUME NEW t \in Tokens, NEW s \in Sites, NEW ms \in SUBSET Models,
             admin_token(t, s, ms)
      PROVE  TokensIssued'
    <2>1. /\ issued' = issued \cup {t}
          /\ \A u \in Tokens \ {t} : tokens'[u] \in {tokens[u], None}
        BY <1>3 DEF admin_token
    <2> QED
        BY <2>1 DEF TokensIssued, TokenIn
<1>4. ASSUME NEW t \in Tokens, NEW key \in Keys, NEW reached \in Stages,
             register(t, key, reached)
      PROVE  TokensIssued'
    <2>1. Usable(t) /\ \A u \in Tokens \ {t} : tokens'[u] = tokens[u]
        BY <1>4, RegisterSteps DEF TypeOK
    <2> QED
        BY <1>1, <2>1 DEF TokensIssued, TokenIn, Usable
<1> QED
    BY <1>2, <1>3, <1>4, TableSteps

\* Every step spends a token for each address it gives to another key.
LEMMA NextOneShot ==
    ASSUME TypeOK, AddressesExclusive, TokensIssued, [Next]_vars
    PROVE  OneShotStep
<1>1. ASSUME NEW t \in Tokens, TokenIn(t), tokens[t].used
      PROVE  tokens'[t] \in {tokens[t], None}
    <2>1. ASSUME NEW u \in Tokens, TokenExpires(u)
          PROVE  tokens'[t] = tokens[t]
        BY <1>1, <2>1 DEF TokenExpires, TypeOK
    <2>2. ASSUME NEW u \in Tokens, NEW s \in Sites, NEW ms \in SUBSET Models,
                 admin_token(u, s, ms)
          PROVE  tokens'[t] \in {tokens[t], None}
        BY <1>1, <2>2 DEF admin_token, TokensIssued
    <2>3. ASSUME NEW u \in Tokens, NEW key \in Keys, NEW reached \in Stages,
                 register(u, key, reached)
          PROVE  tokens'[t] = tokens[t]
        BY <1>1, <2>3, RegisterSteps DEF Usable, TypeOK
    <2>4. ASSUME NEW c \in ConfirmReqs, ConfirmFinish(c)
          PROVE  tokens'[t] \in {tokens[t], None}
        BY <2>4 DEF ConfirmFinish, TypeOK
    <2>5. UNCHANGED tokens => tokens'[t] = tokens[t]
        OBVIOUS
    <2>6. CASE PublicStep
        <3>1. ASSUME NEW c \in ConfirmReqs
              PROVE  /\ \A u \in Tokens : ConfirmBegin(c, u) => UNCHANGED tokens
                     /\ \A m \in Models, created \in BOOLEAN,
                           answer \in {"ok", "error", "lost"} :
                            ConfirmPost(c, m, created, answer) => UNCHANGED tokens
            BY DEF ConfirmBegin, ConfirmPost
        <3>2. \A u \in Tokens : ConfirmRefused(u) => UNCHANGED tokens
            BY DEF ConfirmRefused
        <3> QED
            BY <2>3, <2>4, <2>5, <2>6, <3>1, <3>2 DEF PublicStep
    <2>7. CASE AdminStep
        <3>1. ASSUME NEW r \in RevokeReqs
              PROVE  /\ \A s \in Sites, wgOk \in BOOLEAN :
                            RevokeBegin(r, s, wgOk) => UNCHANGED tokens
                     /\ \A answer \in {"ok", "error", "lost"} :
                            RevokeList(r, answer) => UNCHANGED tokens
                     /\ \A id \in 1..MaxDeps, deleted \in BOOLEAN,
                           answer \in {"ok", "error", "lost"} :
                            RevokeDelete(r, id, deleted, answer) => UNCHANGED tokens
                     /\ RevokeFinish(r) => UNCHANGED tokens
            BY DEF RevokeBegin, RevokeList, RevokeDelete, RevokeFinish
        <3>2. ASSUME NEW s \in Sites
              PROVE  /\ \A a \in Addresses, ms \in SUBSET Models :
                            admin_direct(s, a, ms) => UNCHANGED tokens
                     /\ \A ms \in SUBSET Models : admin_models(s, ms) => UNCHANGED tokens
                     /\ \A a \in Addresses, m \in Models :
                            StageDirect(s, a, m) => UNCHANGED tokens
                     /\ \A id \in 1..MaxDeps : UnstageDirect(s, id) => UNCHANGED tokens
            BY DEF admin_direct, admin_models, StageDirect, UnstageDirect
        <3> QED
            BY <2>2, <2>5, <2>7, <3>1, <3>2 DEF AdminStep
    <2>8. CASE EnvironmentStep
        <3>1. Crash \/ WgRestart \/ (\E s \in Sites : CrashInRevoke(s)) => UNCHANGED tokens
            BY DEF Crash, WgRestart, CrashInRevoke
        <3> QED
            BY <2>1, <2>5, <2>8, <3>1 DEF EnvironmentStep
    <2>9. CASE UNCHANGED vars
        BY <2>5, <2>9
    <2> QED
        BY <2>6, <2>7, <2>8, <2>9 DEF Next
<1>2. ASSUME NEW i \in IPs, route'[i] \notin {route[i], None}, route' # WgQuickUp(conf)
      PROVE  \E t \in Tokens : /\ Usable(t) /\ tokens[t].ip = i
                               /\ TokenIn(t)' /\ tokens'[t].used
    <2>1. ~TunnelShrinks /\ ~WgRestart
        BY <1>2 DEF TunnelShrinks, WgRestart
    <2>2. PICK t \in Tokens, key \in Keys, reached \in Stages : register(t, key, reached)
        BY <2>1, TunnelSteps
    <2>3. /\ Usable(t) /\ tokens[t] \in TokenRow
          /\ tokens' = [tokens EXCEPT ![t].used = TRUE]
          /\ route' = IF reached \in {"wg", "conf", "row"}
                      THEN WgSetPeer(route, key, tokens[t].ip) ELSE route
        BY <2>2, RegisterSteps
    <2>4. tokens[t].ip = i
        <3> DEFINE ip == tokens[t].ip
        <3>1. ip \in IPs
            BY <2>3 DEF TokenRow
        <3>2. route' \in {WgSetPeer(route, key, ip), route}
            BY <2>3
        <3> HIDE DEF ip
        <3>3. \A j \in IPs \ {ip} : WgSetPeer(route, key, ip)[j] \in {route[j], None}
            BY <3>1, SetPeerRoutes DEF TypeOK
        <3>4. i = ip
            BY <1>2, <3>2, <3>3
        <3> QED
            BY <3>4 DEF ip
    <2>5. tokens'[t] = [tokens[t] EXCEPT !.used = TRUE]
        BY <2>3 DEF TypeOK
    <2>6. tokens'[t] \in TokenRow /\ tokens'[t].used
        <3>1. /\ [tokens[t] EXCEPT !.used = TRUE] \in TokenRow
              /\ [tokens[t] EXCEPT !.used = TRUE].used
            BY <2>3 DEF TokenRow
        <3> QED
            BY <2>5, <3>1, Zenon
    <2> QED
        BY <2>3, <2>4, <2>6, NoneAssumption DEF TokenIn
<1> QED
    BY <1>1, <1>2 DEF OneShotStep

\* A token opens the tunnel to one peer at most, and is spent before it does:
\* also a register that fails, stops half-way or comes twice.
THEOREM TokensAreOneShot == Spec => OneShotToken
<1>1. Init => TypeOK /\ AddressesExclusive /\ TokensIssued
    BY InitType, InitExclusive DEF Init, TokensIssued, TokenIn
<1>2. TypeOK /\ AddressesExclusive /\ TokensIssued /\ [Next]_vars
        => (TypeOK /\ AddressesExclusive /\ TokensIssued)'
    BY NextType, NextExclusive, NextIssued
<1>3. TypeOK /\ AddressesExclusive /\ TokensIssued /\ [Next]_vars => [OneShotStep]_vars
    BY NextOneShot
<1> QED
    BY <1>1, <1>2, <1>3, PTL DEF Spec, OneShotToken

-------------------------------------------------------------------------------
(* Sites that are up are routed *)

\* The site has a row, and it is a WireGuard row.
WireguardIn(s) == SiteIn(s) /\ sites[s].transport = "wireguard"

\* Up or not, the address of a WireGuard site delivers to its key, unless a revoke
\* took that key off.
RoutedInv ==
    \A s \in Sites :
        WireguardIn(s) /\ sites[s].pubkey \notin cut => route[sites[s].ip] = sites[s].pubkey

\* Unless onboardd stops or the container restarts, the tunnel changes only when a
\* site registers, and when a revoke takes the key of a row off.
LEMMA RouteSteps ==
    ASSUME TypeOK, [Next]_vars, "crash" \notin Faults, "restart" \notin Faults
    PROVE  \/ UNCHANGED <<route, cut>>
           \/ \E s \in Sites :
                /\ WireguardIn(s) /\ UNCHANGED sites
                /\ route' = WgRemovePeer(route, sites[s].pubkey)
                /\ cut' = cut \cup {sites[s].pubkey}
           \/ \E t \in Tokens, k \in Keys, reached \in Stages : register(t, k, reached)
<1>1. ASSUME NEW r \in RevokeReqs, NEW s \in Sites, NEW wgOk \in BOOLEAN, RevokeBegin(r, s, wgOk)
      PROVE  \/ UNCHANGED <<route, cut>>
             \/ /\ WireguardIn(s) /\ UNCHANGED sites
                /\ route' = WgRemovePeer(route, sites[s].pubkey)
                /\ cut' = cut \cup {sites[s].pubkey}
    BY <1>1 DEF RevokeBegin, WireguardIn
<1>2. CASE PublicStep
    BY <1>2 DEF PublicStep, ConfirmRefused, ConfirmBegin, ConfirmPost, ConfirmFinish
<1>3. CASE AdminStep
    BY <1>1, <1>3 DEF AdminStep, admin_token, RevokeList, RevokeDelete, RevokeFinish,
                      admin_direct, admin_models, StageDirect, UnstageDirect
<1>4. CASE EnvironmentStep
    BY <1>4 DEF EnvironmentStep, TokenExpires, Crash, CrashInRevoke, WgRestart, Fault
<1>5. CASE UNCHANGED vars
    BY <1>5
<1> QED
    BY <1>2, <1>3, <1>4, <1>5 DEF Next

\* Every step keeps the routes of the sites.
LEMMA NextRouted ==
    ASSUME TypeOK, AddressesExclusive, RoutedInv, [Next]_vars,
           "crash" \notin Faults, "restart" \notin Faults
    PROVE  RoutedInv'
<1>1. ASSUME NEW s \in Sites, WireguardIn(s)
      PROVE  sites[s].ip \in IPs /\ sites[s].pubkey \in Keys
    BY <1>1, RowColumns DEF WireguardIn, SiteIn, TypeOK, WireguardRow
<1>2. ASSUME OldOrDirect, NEW s \in Sites, WireguardIn(s)'
      PROVE  /\ WireguardIn(s)
             /\ sites'[s].ip = sites[s].ip /\ sites'[s].pubkey = sites[s].pubkey
    BY <1>2, RowColumns DEF OldOrDirect, SameColumns, WireguardIn, SiteIn, DirectRow
<1>3. ASSUME NEW t \in Tokens, NEW key \in Keys, NEW reached \in Stages,
             register(t, key, reached)
      PROVE  RoutedInv'
    <2> DEFINE ip == tokens[t].ip
               s0 == tokens[t].site
               row == [transport |-> "wireguard", pubkey |-> key, ip |-> ip,
                       address |-> None, models |-> tokens[t].models,
                       status |-> "registered"]
    <2>1. /\ Usable(t) /\ tokens[t] \in TokenRow /\ row \in SiteRow
          /\ route' = IF reached \in {"wg", "conf", "row"}
                      THEN WgSetPeer(route, key, ip) ELSE route
          /\ sites' = IF reached = "row" THEN InsertOrReplace(sites, s0, row) ELSE sites
        BY <1>3, RegisterSteps
    <2>2. ip \in IPs /\ s0 \in Sites /\ row.ip = ip /\ row.pubkey = key /\ key # None
        BY <2>1, KeysAssumption DEF TokenRow
    <2>3. reached \in {"row", "refused"}
        BY <1>3 DEF register, Fault
    <2>4. CASE reached = "refused"
        <3>1. UNCHANGED <<sites, route, cut>>
            BY <1>3, <2>1, <2>4 DEF register
        <3> QED
            BY <3>1 DEF RoutedInv, WireguardIn, SiteIn
    <2>5. CASE reached = "row"
        <3> HIDE DEF row, ip, s0
        <3>1. /\ route' = WgSetPeer(route, key, ip) /\ sites' = InsertOrReplace(sites, s0, row)
              /\ cut' = cut \ {key}
            BY <1>3, <2>1, <2>5 DEF register
        <3>2. /\ route'[ip] = key
              /\ \A i \in IPs \ {ip} : route[i] # key => route'[i] = route[i]
            BY <2>2, <3>1 DEF WgSetPeer
        <3>3. /\ sites'[s0] = row
              /\ \A x \in Sites \ {s0} :
                    sites'[x] # None => /\ sites'[x] = sites[x]
                                        /\ sites[x].pubkey # key /\ sites[x].ip # ip
            <4>1. sites \in Table
                BY DEF TypeOK, Table
            <4>2. row.ip # None
                BY <2>2, KeysAssumption
            <4>3. /\ sites'[s0] = row
                  /\ \A x \in Sites \ {s0} :
                        /\ sites'[x] \in {sites[x], None}
                        /\ sites'[x] # None => sites'[x].ip # row.ip
                        /\ sites'[x] # None => sites'[x].pubkey # row.pubkey
                BY <2>1, <2>2, <3>1, <4>1, <4>2, InsertRows
            <4> QED
                BY <2>2, <4>3
        <3>4. ASSUME NEW x \in Sites \ {s0}, WireguardIn(x)', sites'[x].pubkey \notin cut'
              PROVE  route'[sites'[x].ip] = sites'[x].pubkey
            <4>1. /\ sites'[x] = sites[x] /\ sites[x].pubkey # key /\ sites[x].ip # ip
                  /\ WireguardIn(x)
                BY <3>3, <3>4 DEF WireguardIn, SiteIn
            <4>2. sites[x].ip \in IPs /\ sites[x].pubkey \notin cut
                BY <1>1, <3>1, <3>4, <4>1
            <4>3. route[sites[x].ip] = sites[x].pubkey
                BY <4>1, <4>2 DEF RoutedInv
            <4> QED
                BY <3>2, <4>1, <4>2, <4>3
        <3>5. route'[sites'[s0].ip] = sites'[s0].pubkey
            BY <2>2, <3>2, <3>3
        <3> QED
            BY <3>4, <3>5 DEF RoutedInv
    <2> QED
        BY <2>3, <2>4, <2>5
<1>4. ASSUME UNCHANGED <<route, cut>>, OldOrDirect
      PROVE  RoutedInv'
    BY <1>2, <1>4 DEF RoutedInv
<1>5. ASSUME NEW s \in Sites, WireguardIn(s), UNCHANGED sites,
             route' = WgRemovePeer(route, sites[s].pubkey),
             cut' = cut \cup {sites[s].pubkey}
      PROVE  RoutedInv'
    <2> DEFINE k == sites[s].pubkey
    <2>1. \A i \in IPs : route[i] # k => route'[i] = route[i]
        BY <1>5 DEF WgRemovePeer
    <2>2. ASSUME NEW x \in Sites, WireguardIn(x)', sites'[x].pubkey \notin cut'
          PROVE  route'[sites'[x].ip] = sites'[x].pubkey
        <3>1. /\ WireguardIn(x) /\ sites'[x] = sites[x] /\ sites[x].pubkey # k
              /\ sites[x].pubkey \notin cut /\ sites[x].ip \in IPs
            BY <1>1, <1>5, <2>2 DEF WireguardIn, SiteIn
        <3> QED
            BY <2>1, <3>1 DEF RoutedInv
    <2> QED
        BY <2>2 DEF RoutedInv
<1>6. ASSUME NEW t \in Tokens, NEW s \in Sites, NEW ms \in SUBSET Models, admin_token(t, s, ms)
      PROVE  OldOrDirect
    BY <1>6 DEF admin_token, OldOrDirect, SameColumns
<1>7. UNCHANGED sites => OldOrDirect
    BY DEF OldOrDirect, SameColumns
<1>8. OldOrDirect \/ \E t \in Tokens, k \in Keys, reached \in Stages : register(t, k, reached)
    BY <1>6, TableSteps
<1> QED
    BY <1>3, <1>4, <1>5, <1>8, RouteSteps

\* While onboardd does not stop and the WireGuard container does not restart, a
\* site that is up is reachable unless a revoke took its key off, however requests
\* interleave and whatever `wg set` and LiteLLM refuse: register takes an address
\* or a key away only from a site whose row it replaces.
THEOREM ActiveSitesAreRouted ==
    ASSUME "crash" \notin Faults, "restart" \notin Faults
    PROVE  Spec => []ActiveSiteIsRouted
<1>1. Init => TypeOK /\ AddressesExclusive /\ RoutedInv
    BY InitType, InitExclusive DEF Init, RoutedInv, WireguardIn, SiteIn
<1>2. TypeOK /\ AddressesExclusive /\ RoutedInv /\ [Next]_vars
        => (TypeOK /\ AddressesExclusive /\ RoutedInv)'
    BY NextType, NextExclusive, NextRouted
<1>3. RoutedInv => ActiveSiteIsRouted
    BY DEF RoutedInv, ActiveSiteIsRouted, WireguardIn
<1> QED
    BY <1>1, <1>2, <1>3, PTL DEF Spec

-------------------------------------------------------------------------------
(* One request at a time: what it has read is still so *)

\* One request is in progress at most.
Alone ==
    /\ \A c, e \in ConfirmReqs : confirms[c] # None /\ confirms[e] # None => c = e
    /\ \A r, q \in RevokeReqs : revokes[r] # None /\ revokes[q] # None => r = q
    /\ \A c \in ConfirmReqs, r \in RevokeReqs : confirms[c] = None \/ revokes[r] = None

\* What a confirm has read before it waits for LiteLLM is still in the tables.
ConfirmsCurrent ==
    \A c \in ConfirmReqs : confirms[c] # None =>
        LET s == confirms[c].site
        IN  SiteIn(s) /\ sites[s].status = "registered" /\ sites[s].ip = confirms[c].ip

\* So is what a revoke has read.
RevokesCurrent ==
    \A r \in RevokeReqs : revokes[r] # None =>
        LET v == revokes[r]
        IN  /\ SiteIn(v.site) /\ sites[v.site].transport = v.transport
            /\ sites[v.site].ip = v.ip /\ sites[v.site].address = v.address
            /\ sites[v.site].models = v.models

\* What a row has, by its transport.
LEMMA RowsAre ==
    ASSUME TypeOK, NEW s \in Sites, SiteIn(s)
    PROVE  /\ sites[s] \in SiteRow /\ sites[s] # None
           /\ sites[s].transport \in {"wireguard", "direct"}
           /\ sites[s].transport = "wireguard" =>
                sites[s] \in WireguardRow /\ sites[s].ip \in IPs /\ sites[s].pubkey \in Keys
           /\ sites[s].transport = "direct" =>
                sites[s] \in DirectRow /\ sites[s].ip = None /\ sites[s].pubkey = None
           /\ sites[s].status \in {"registered", "failed"} => sites[s].transport = "wireguard"
<1>1. sites[s] \in SiteRow /\ sites[s] # None
    BY DEF TypeOK, SiteIn
<1>2. CASE sites[s] \in WireguardRow
    BY <1>1, <1>2 DEF WireguardRow
<1>3. CASE sites[s] \in DirectRow
    BY <1>1, <1>3 DEF DirectRow
<1> QED
    BY <1>1, <1>2, <1>3 DEF SiteRow

\* What a request in progress has read is a row of the table.
InProgressCurrent == Alone /\ ConfirmsCurrent /\ RevokesCurrent

\* Nothing is in progress, or nothing changes for what is.
LEMMA NothingChangesForThem ==
    /\ NothingInFlight' => InProgressCurrent'
    /\ InProgressCurrent /\ UNCHANGED <<sites, confirms, revokes>> => InProgressCurrent'
<1>1. NothingInFlight' => InProgressCurrent'
    BY DEF NothingInFlight, InProgressCurrent, Alone, ConfirmsCurrent, RevokesCurrent
<1>2. InProgressCurrent /\ UNCHANGED <<sites, confirms, revokes>> => InProgressCurrent'
    BY DEF InProgressCurrent, Alone, ConfirmsCurrent, RevokesCurrent, SiteIn
<1> QED
    BY <1>1, <1>2

\* A request that is done in one step starts, and ends, alone.
LEMMA DoneAtOnce ==
    ASSUME "serial" \in Habits,
           \/ \E t \in Tokens, k \in Keys, reached \in Stages : register(t, k, reached)
           \/ \E t \in Tokens : ConfirmRefused(t)
           \/ \E t \in Tokens, s \in Sites, ms \in SUBSET Models : admin_token(t, s, ms)
           \/ \E s \in Sites, a \in Addresses, ms \in SUBSET Models : admin_direct(s, a, ms)
           \/ \E s \in Sites, ms \in SUBSET Models : admin_models(s, ms)
           \/ \E s \in Sites, a \in Addresses, m \in Models : StageDirect(s, a, m)
           \/ \E s \in Sites, id \in 1..MaxDeps : UnstageDirect(s, id)
           \/ Crash
           \/ \E s \in Sites : CrashInRevoke(s)
    PROVE  NothingInFlight'
<1>1. ASSUME NothingInFlight, UNCHANGED inflight
      PROVE  NothingInFlight'
    BY <1>1 DEF NothingInFlight
<1>2. ASSUME Stopped
      PROVE  NothingInFlight'
    BY <1>2 DEF Stopped, NothingInFlight
<1>3. ASSUME NEW t \in Tokens, NEW k \in Keys, NEW reached \in Stages, register(t, k, reached)
      PROVE  NothingInFlight'
    BY <1>1, <1>2, <1>3 DEF register, Admitted
<1> QED
    BY <1>1, <1>2, <1>3 DEF ConfirmRefused, admin_token, admin_direct, admin_models, StageDirect,
                            UnstageDirect, Crash, CrashInRevoke, Admitted

\* A confirm holds what it has read until it ends; nothing else runs meanwhile.
LEMMA ConfirmCurrent ==
    ASSUME TypeOK, "serial" \in Habits, InProgressCurrent, NEW c \in ConfirmReqs
    PROVE  /\ \A t \in Tokens : ConfirmBegin(c, t) => InProgressCurrent'
           /\ \A m \in Models, created \in BOOLEAN, answer \in {"ok", "error", "lost"} :
                ConfirmPost(c, m, created, answer) => InProgressCurrent'
           /\ ConfirmFinish(c) => NothingInFlight'
<1>1. ASSUME NEW t \in Tokens, ConfirmBegin(c, t)
      PROVE  InProgressCurrent'
    <2> DEFINE s == tokens[t].site
               v == [token |-> t, site |-> s, ip |-> sites[s].ip,
                     todo |-> sites[s].models, errors |-> FALSE]
    <2>1. /\ NothingInFlight /\ UNCHANGED <<sites, revokes>>
          /\ confirms' = [confirms EXCEPT ![c] = v]
          /\ SiteIn(s) /\ sites[s].status = "registered"
        BY <1>1 DEF ConfirmBegin, Admitted, AwaitsConfirm
    <2>2. v.site = s /\ v.ip = sites[s].ip
        OBVIOUS
    <2> HIDE DEF v
    <2>3. /\ confirms'[c] = v
          /\ \A e \in ConfirmReqs : e # c => confirms'[e] = None
          /\ \A r \in RevokeReqs : revokes'[r] = None
        BY <2>1 DEF NothingInFlight, TypeOK
    <2> HIDE DEF s
    <2>4. Alone' /\ RevokesCurrent'
        BY <2>3 DEF Alone, RevokesCurrent
    <2>5. ConfirmsCurrent'
        BY <2>1, <2>2, <2>3 DEF ConfirmsCurrent, SiteIn
    <2> QED
        BY <2>4, <2>5 DEF InProgressCurrent
<1>2. ASSUME NEW m \in Models, NEW created \in BOOLEAN, NEW answer \in {"ok", "error", "lost"},
             ConfirmPost(c, m, created, answer)
      PROVE  InProgressCurrent'
    <2>1. UNCHANGED <<sites, revokes>> /\ confirms[c] # None /\ confirms[c] \in ConfirmVars
        BY <1>2 DEF ConfirmPost, TypeOK
    <2>2. /\ \A e \in ConfirmReqs : e # c => confirms'[e] = confirms[e]
          /\ confirms'[c] # None =>
               confirms'[c].site = confirms[c].site /\ confirms'[c].ip = confirms[c].ip
        BY <1>2, <2>1 DEF ConfirmPost, TypeOK, ConfirmVars
    <2>3. Alone'
        BY <2>1, <2>2 DEF InProgressCurrent, Alone
    <2>4. ConfirmsCurrent'
        BY <2>1, <2>2 DEF InProgressCurrent, ConfirmsCurrent, SiteIn
    <2>5. RevokesCurrent'
        BY <2>1 DEF InProgressCurrent, RevokesCurrent, SiteIn
    <2> QED
        BY <2>3, <2>4, <2>5 DEF InProgressCurrent
<1>3. ASSUME ConfirmFinish(c)
      PROVE  NothingInFlight'
    BY <1>3 DEF ConfirmFinish, InProgressCurrent, Alone, NothingInFlight, TypeOK
<1> QED
    BY <1>1, <1>2, <1>3

\* So does a revoke.
LEMMA RevokeCurrent ==
    ASSUME TypeOK, "serial" \in Habits, InProgressCurrent, NEW r \in RevokeReqs
    PROVE  /\ \A s \in Sites, wgOk \in BOOLEAN : RevokeBegin(r, s, wgOk) => InProgressCurrent'
           /\ \A answer \in {"ok", "error", "lost"} : RevokeList(r, answer) => InProgressCurrent'
           /\ \A id \in 1..MaxDeps, deleted \in BOOLEAN, answer \in {"ok", "error", "lost"} :
                RevokeDelete(r, id, deleted, answer) => InProgressCurrent'
           /\ RevokeFinish(r) => NothingInFlight'
<1>1. ASSUME NEW s \in Sites, NEW wgOk \in BOOLEAN, RevokeBegin(r, s, wgOk)
      PROVE  InProgressCurrent'
    <2> DEFINE row == sites[s]
               v == [site |-> s, transport |-> row.transport, ip |-> row.ip,
                     address |-> row.address, models |-> row.models,
                     listed |-> FALSE, todo |-> {}, failed |-> FALSE]
    <2>1. /\ NothingInFlight /\ UNCHANGED <<sites, confirms>>
          /\ revokes' = [revokes EXCEPT ![r] = v] /\ SiteIn(s)
        BY <1>1 DEF RevokeBegin, Admitted
    <2>2. /\ v.site = s /\ v.ip = row.ip /\ v.transport = row.transport
          /\ v.address = row.address /\ v.models = row.models
        OBVIOUS
    <2> HIDE DEF v
    <2>3. /\ revokes'[r] = v
          /\ \A q \in RevokeReqs : q # r => revokes'[q] = None
          /\ \A c \in ConfirmReqs : confirms'[c] = None
        BY <2>1 DEF NothingInFlight, TypeOK
    <2>4. Alone' /\ ConfirmsCurrent'
        BY <2>3 DEF Alone, ConfirmsCurrent
    <2>5. RevokesCurrent'
        BY <2>1, <2>2, <2>3 DEF RevokesCurrent, SiteIn
    <2> QED
        BY <2>4, <2>5 DEF InProgressCurrent
<1>2. ASSUME UNCHANGED <<sites, confirms>>, revokes[r] # None,
             \A q \in RevokeReqs : q # r => revokes'[q] = revokes[q],
             revokes'[r] # None =>
                /\ revokes'[r].site = revokes[r].site /\ revokes'[r].ip = revokes[r].ip
                /\ revokes'[r].transport = revokes[r].transport
                /\ revokes'[r].address = revokes[r].address
                /\ revokes'[r].models = revokes[r].models
      PROVE  InProgressCurrent'
    <2>1. Alone'
        BY <1>2 DEF InProgressCurrent, Alone
    <2>2. ConfirmsCurrent'
        BY <1>2 DEF InProgressCurrent, ConfirmsCurrent, SiteIn
    <2>3. RevokesCurrent'
        BY <1>2 DEF InProgressCurrent, RevokesCurrent, SiteIn
    <2> QED
        BY <2>1, <2>2, <2>3 DEF InProgressCurrent
<1>3. ASSUME NEW answer \in {"ok", "error", "lost"}, RevokeList(r, answer)
      PROVE  InProgressCurrent'
    <2>1. revokes[r] \in RevokeVars /\ revokes[r] # None
        BY <1>3 DEF RevokeList, TypeOK
    <2> QED
        BY <1>2, <1>3, <2>1 DEF RevokeList, TypeOK, RevokeVars
<1>4. ASSUME NEW id \in 1..MaxDeps, NEW deleted \in BOOLEAN,
             NEW answer \in {"ok", "error", "lost"}, RevokeDelete(r, id, deleted, answer)
      PROVE  InProgressCurrent'
    <2>1. revokes[r] \in RevokeVars /\ revokes[r] # None
        BY <1>4 DEF RevokeDelete, TypeOK
    <2> QED
        BY <1>2, <1>4, <2>1 DEF RevokeDelete, TypeOK, RevokeVars
<1>5. ASSUME RevokeFinish(r)
      PROVE  NothingInFlight'
    BY <1>5 DEF RevokeFinish, InProgressCurrent, Alone, NothingInFlight, TypeOK
<1> QED
    BY <1>1, <1>3, <1>4, <1>5

\* One request at a time: what it has read stays so until it ends.
LEMMA NextCurrent ==
    ASSUME TypeOK, "serial" \in Habits, InProgressCurrent, [Next]_vars
    PROVE  InProgressCurrent'
<1>1. CASE PublicStep
    BY <1>1, ConfirmCurrent, DoneAtOnce, NothingChangesForThem DEF PublicStep
<1>2. CASE AdminStep
    BY <1>2, RevokeCurrent, DoneAtOnce, NothingChangesForThem DEF AdminStep
<1>3. CASE EnvironmentStep
    BY <1>3, DoneAtOnce, NothingChangesForThem DEF EnvironmentStep, TokenExpires, WgRestart
<1>4. CASE UNCHANGED vars
    BY <1>4, NothingChangesForThem
<1> QED
    BY <1>1, <1>2, <1>3, <1>4 DEF Next

-------------------------------------------------------------------------------
(* Direct sites *)

\* A Direct site that is in the registry is up.
DirectUp ==
    \A s \in Sites : SiteIn(s) /\ sites[s].transport = "direct" => Live(sites[s])

\* Every Direct site is one that was there before, with its address and status.
DirectsKept ==
    \A s \in Sites : SiteIn(s)' /\ sites'[s].transport = "direct" =>
        /\ SiteIn(s) /\ sites[s].transport = "direct"
        /\ sites'[s].address = sites[s].address /\ sites'[s].status = sites[s].status

\* Changing the status of a WireGuard site changes nothing for the Direct ones.
LEMMA StatusOfWireguard ==
    ASSUME TypeOK, NEW s \in Sites, SiteIn(s), sites[s].transport = "wireguard",
           NEW status \in {"failed", "active", "partial", "revoked"},
           status = "failed" => sites[s].status = "registered",
           sites' = SetStatus(s, status)
    PROVE  DirectsKept
<1>1. \A x \in Sites \ {s} : sites'[x] = sites[x]
    BY DEF SetStatus
<1>2. sites'[s].transport = "wireguard"
    BY StatusRows DEF SiteIn
<1> QED
    BY <1>1, <1>2 DEF DirectsKept, SiteIn

\* Only admin_direct brings a Direct site in, changes its address or its status,
\* if one request runs at a time.
LEMMA DirectSteps ==
    ASSUME TypeOK, "serial" \in Habits, InProgressCurrent, [Next]_vars
    PROVE  \/ DirectsKept
           \/ \E s \in Sites, a \in Addresses, ms \in SUBSET Models : admin_direct(s, a, ms)
<1>1. UNCHANGED sites => DirectsKept
    BY DEF DirectsKept, SiteIn
<1>2. ASSUME NEW t \in Tokens, ConfirmRefused(t)
      PROVE  DirectsKept
    <2>1. tokens[t].site \in Sites
        BY <1>2 DEF ConfirmRefused, AwaitsConfirm, TokenIn, TypeOK, TokenRow
    <2>2. SiteIn(tokens[t].site) /\ sites[tokens[t].site].transport = "wireguard"
        BY <1>2, <2>1, RowsAre DEF ConfirmRefused, AwaitsConfirm
    <2> QED
        BY <1>2, <2>1, <2>2, StatusOfWireguard DEF ConfirmRefused, AwaitsConfirm
<1>3. ASSUME NEW c \in ConfirmReqs, ConfirmFinish(c)
      PROVE  DirectsKept
    <2> DEFINE s == confirms[c].site
    <2>1. s \in Sites /\ confirms[c] # None
        BY <1>3 DEF ConfirmFinish, TypeOK, ConfirmVars
    <2>2. SiteIn(s) /\ sites[s].status = "registered"
        BY <2>1 DEF InProgressCurrent, ConfirmsCurrent
    <2>3. sites[s].transport = "wireguard"
        BY <2>1, <2>2, RowsAre
    <2>4. PICK st \in {"active", "partial"} : sites' = SetStatus(s, st)
        BY <1>3 DEF ConfirmFinish
    <2> HIDE DEF s
    <2> QED
        BY <2>1, <2>2, <2>3, <2>4, StatusOfWireguard
<1>4. ASSUME NEW r \in RevokeReqs, RevokeFinish(r)
      PROVE  DirectsKept
    <2> DEFINE v == revokes[r]
    <2>1. v \in RevokeVars /\ v.site \in Sites /\ v # None
        BY <1>4 DEF RevokeFinish, TypeOK, RevokeVars
    <2>2. SiteIn(v.site) /\ sites[v.site].transport = v.transport
        BY <2>1 DEF InProgressCurrent, RevokesCurrent
    <2>3. CASE v.transport = "wireguard"
        <3>1. sites' = SetStatus(v.site, "revoked")
            BY <1>4, <2>3 DEF RevokeFinish, KeepsSite
        <3> QED
            BY <2>1, <2>2, <2>3, <3>1, StatusOfWireguard
    <2>4. CASE v.transport # "wireguard"
        <3>1. sites' = sites \/ sites' = [sites EXCEPT ![v.site] = None]
            BY <1>4, <2>4 DEF RevokeFinish
        <3> QED
            BY <1>1, <2>1, <3>1 DEF DirectsKept, SiteIn, TypeOK
    <2> QED
        BY <2>3, <2>4
<1>5. ASSUME NEW t \in Tokens, NEW key \in Keys, NEW reached \in Stages, register(t, key, reached)
      PROVE  DirectsKept
    <2> DEFINE row == [transport |-> "wireguard", pubkey |-> key, ip |-> tokens[t].ip,
                       address |-> None, models |-> tokens[t].models,
                       status |-> "registered"]
               stale == StaleRows(tokens[t].ip, key)
               remaining == [s \in Sites |-> IF s \in stale THEN None ELSE sites[s]]
    <2>1. sites' = IF reached = "row" THEN InsertOrReplace(remaining, tokens[t].site, row)
                   ELSE remaining
        BY <1>5 DEF register, WritesRow
    <2>2. row.transport = "wireguard"
        OBVIOUS
    <2> HIDE DEF row, stale
    <2>3. \A s \in Sites : sites'[s] \in {sites[s], None, row}
        BY <2>1 DEF InsertOrReplace
    <2> QED
        BY <2>2, <2>3 DEF DirectsKept, SiteIn
<1>6. ASSUME NEW s \in Sites, NEW ms \in SUBSET Models, admin_models(s, ms)
      PROVE  DirectsKept
    <2>1. /\ \A x \in Sites \ {s} : sites'[x] = sites[x]
          /\ sites'[s] = [sites[s] EXCEPT !.models = ms] /\ SiteIn(s)
        BY <1>6 DEF admin_models, TypeOK
    <2>2. sites[s] \in SiteRow
        BY <2>1, RowsAre
    <2>3. sites'[s].transport = sites[s].transport /\ sites'[s].address = sites[s].address
          /\ sites'[s].status = sites[s].status
        <3>1. CASE sites[s] \in WireguardRow
            BY <2>1, <3>1 DEF WireguardRow
        <3>2. CASE sites[s] \in DirectRow
            BY <2>1, <3>2 DEF DirectRow
        <3> QED
            BY <2>2, <3>1, <3>2 DEF SiteRow
    <2> QED
        BY <2>1, <2>3 DEF DirectsKept, SiteIn
<1>7. CASE PublicStep
    BY <1>1, <1>2, <1>3, <1>5, <1>7 DEF PublicStep, ConfirmBegin, ConfirmPost
<1>8. CASE AdminStep
    BY <1>1, <1>4, <1>6, <1>8 DEF AdminStep, admin_token, RevokeBegin, RevokeList,
                                  RevokeDelete, StageDirect, UnstageDirect
<1>9. CASE EnvironmentStep
    BY <1>1, <1>9 DEF EnvironmentStep, TokenExpires, Crash, CrashInRevoke, WgRestart
<1> QED
    BY <1>1, <1>7, <1>8, <1>9 DEF Next

\* Direct sites are up, and no two have one address.
DirectInv == DirectUp /\ OneOwnerPerAddress

\* A Direct site comes in only when no other holds its address.
LEMMA NextDirect ==
    ASSUME TypeOK, "serial" \in Habits, InProgressCurrent, DirectInv, [Next]_vars
    PROVE  DirectInv'
<1>1. ASSUME DirectsKept
      PROVE  DirectInv'
    BY <1>1 DEF DirectsKept, DirectInv, DirectUp, OneOwnerPerAddress, Live
<1>2. ASSUME NEW s \in Sites, NEW a \in Addresses, NEW ms \in SUBSET Models, admin_direct(s, a, ms)
      PROVE  DirectInv'
    <2> DEFINE row == [transport |-> "direct", pubkey |-> None, ip |-> None,
                       address |-> a, models |-> ms, status |-> "active"]
    <2>1. sites' = InsertOrReplace(sites, s, row) /\ ~AddressTaken(a)
        BY <1>2 DEF admin_direct
    <2>2. row.address = a /\ row.status = "active"
        OBVIOUS
    <2> HIDE DEF row
    <2>3. sites'[s] = row /\ \A x \in Sites \ {s} : sites'[x] \in {sites[x], None}
        BY <2>1 DEF InsertOrReplace
    <2>4. ASSUME NEW x \in Sites \ {s}, SiteIn(x)', sites'[x].transport = "direct"
          PROVE  SiteIn(x) /\ sites'[x] = sites[x] /\ Live(sites[x]) /\ sites[x].address # a
        <3>1. SiteIn(x) /\ sites'[x] = sites[x]
            BY <2>3, <2>4 DEF SiteIn
        <3>2. Live(sites[x])
            BY <2>4, <3>1 DEF DirectInv, DirectUp
        <3> QED
            BY <2>1, <2>4, <3>1, <3>2 DEF AddressTaken, InUse
    <2>5. DirectUp'
        BY <2>2, <2>3, <2>4 DEF DirectUp, Live
    <2>6. OneOwnerPerAddress'
        <3> SUFFICES ASSUME NEW x \in Sites, NEW y \in Sites, SiteIn(x)', SiteIn(y)', x # y,
                            sites'[x].transport = "direct", sites'[y].transport = "direct",
                            sites'[x].address = sites'[y].address
                     PROVE  FALSE
            BY DEF OneOwnerPerAddress, SiteIn
        <3>1. x # s /\ y # s
            BY <2>2, <2>3, <2>4
        <3> QED
            BY <2>4, <3>1 DEF DirectInv, OneOwnerPerAddress
    <2> QED
        BY <2>5, <2>6 DEF DirectInv
<1> QED
    BY <1>1, <1>2, DirectSteps

\* What holds of the rows that requests in progress have read, and of Direct sites,
\* when requests come one at a time.
Serial == TypeOK /\ AddressesExclusive /\ CutPeerStaysOff /\ InProgressCurrent

\* It is there from the start, and stays.
LEMMA SerialHolds ==
    ASSUME "serial" \in Habits
    PROVE  /\ Init => Serial
           /\ Serial /\ [Next]_vars => Serial'
<1>1. Init => Serial
    BY InitType, InitExclusive
       DEF Init, Serial, CutPeerStaysOff, InProgressCurrent, Alone, ConfirmsCurrent, RevokesCurrent
<1>2. Serial /\ [Next]_vars => Serial'
    BY NextType, NextExclusive, NextCut, NextCurrent DEF Serial
<1> QED
    BY <1>1, <1>2

\* When requests come one at a time, whatever fails in between, one site at most
\* holds a Direct address: admin_direct's check sees every Direct site, because no
\* Direct site is ever down (the status of a site that is revoked or confirmed is
\* that of the row the request has read).
THEOREM AddressesHaveOneOwner ==
    ASSUME "serial" \in Habits
    PROVE  Spec => []OneOwnerPerAddress
<1>1. Init => Serial /\ DirectInv
    BY SerialHolds DEF Init, DirectInv, DirectUp, OneOwnerPerAddress, SiteIn
<1>2. Serial /\ DirectInv /\ [Next]_vars => (Serial /\ DirectInv)'
    BY SerialHolds, NextDirect DEF Serial
<1>3. DirectInv => OneOwnerPerAddress
    BY DEF DirectInv
<1> QED
    BY <1>1, <1>2, <1>3, PTL DEF Spec

-------------------------------------------------------------------------------
(* What a revoke leaves *)

\* A deployment a revoke answers for is one it still has to delete, from the moment
\* it has listed them, unless a deletion was refused.
RevokesCover ==
    \A r \in RevokeReqs, d \in deps :
        /\ revokes[r] # None /\ revokes[r].listed
        /\ ~revokes[r].failed \/ "litellm" \notin Faults
        /\ Managed(revokes[r], d)
        => d.id \in revokes[r].todo

\* The key of the site a revoke is about is off.
RevokesCut ==
    \A r \in RevokeReqs :
        revokes[r] # None /\ revokes[r].transport = "wireguard"
            => sites[revokes[r].site].pubkey \in cut

\* Without a revoke in progress there is nothing to cover.
LEMMA NoRevoke ==
    /\ (\A r \in RevokeReqs : revokes'[r] = None) => RevokesCover' /\ RevokesCut'
    /\ NothingInFlight' => RevokesCover' /\ RevokesCut'
BY DEF NothingInFlight, RevokesCover, RevokesCut

\* A revoke covers what LiteLLM has when it has listed it, and until it ends.
LEMMA NextCover ==
    ASSUME TypeOK, "serial" \in Habits, "info" \notin Faults, InProgressCurrent, RevokesCover,
           [Next]_vars
    PROVE  RevokesCover'
<1>1. UNCHANGED <<deps, revokes>> => RevokesCover'
    BY DEF RevokesCover
<1>2. ASSUME NEW c \in ConfirmReqs, confirms[c] # None, UNCHANGED revokes
      PROVE  RevokesCover'
    BY <1>2, NoRevoke DEF InProgressCurrent, Alone
<1>3. ASSUME NEW r \in RevokeReqs, NEW s \in Sites, NEW wgOk \in BOOLEAN, RevokeBegin(r, s, wgOk)
      PROVE  RevokesCover'
    <2>1. /\ NothingInFlight /\ UNCHANGED deps
          /\ \A q \in RevokeReqs : q # r => revokes'[q] = revokes[q]
          /\ revokes'[r].listed = FALSE
        BY <1>3 DEF RevokeBegin, Admitted, TypeOK
    <2> QED
        BY <2>1 DEF NothingInFlight, RevokesCover
<1>4. ASSUME NEW r \in RevokeReqs, revokes[r] # None, revokes'[r] = None,
             \A q \in RevokeReqs : q # r => revokes'[q] = revokes[q]
      PROVE  RevokesCover'
    BY <1>4, NoRevoke DEF InProgressCurrent, Alone
<1>5. ASSUME NEW r \in RevokeReqs, NEW answer \in {"ok", "error", "lost"}, RevokeList(r, answer)
      PROVE  RevokesCover'
    <2> DEFINE v == revokes[r]
               todo == {d.id : d \in {e \in deps : Managed(v, e)}}
    <2>1. /\ v \in RevokeVars /\ v # None /\ UNCHANGED deps
          /\ \A q \in RevokeReqs : q # r => revokes'[q] = revokes[q]
        BY <1>5 DEF RevokeList, TypeOK
    <2>2. CASE answer = "lost"
        <3>1. revokes'[r] = None
            BY <1>5, <2>2 DEF RevokeList, TypeOK
        <3> QED
            BY <1>4, <2>1, <3>1
    <2>3. CASE answer = "ok"
        <3>1. revokes'[r] = [v EXCEPT !.listed = TRUE, !.todo = todo]
            BY <1>5, <2>3 DEF RevokeList, TypeOK
        <3> HIDE DEF todo
        <3>2. /\ revokes'[r].todo = todo /\ revokes'[r].transport = v.transport
              /\ revokes'[r].ip = v.ip /\ revokes'[r].address = v.address
              /\ revokes'[r].models = v.models
            BY <2>1, <3>1 DEF RevokeVars
        <3>3. ASSUME NEW d \in deps, Managed(revokes'[r], d) PROVE d.id \in revokes'[r].todo
            BY <3>2, <3>3 DEF Managed, todo
        <3>4. \A q \in RevokeReqs : q # r => revokes'[q] = None
            BY <2>1 DEF InProgressCurrent, Alone
        <3> QED
            BY <2>1, <3>3, <3>4 DEF RevokesCover
    <2> QED
        BY <1>5, <2>2, <2>3 DEF RevokeList, Fault
<1>6. ASSUME NEW r \in RevokeReqs, NEW id \in 1..MaxDeps, NEW deleted \in BOOLEAN,
             NEW answer \in {"ok", "error", "lost"}, RevokeDelete(r, id, deleted, answer)
      PROVE  RevokesCover'
    <2> DEFINE v == revokes[r]
    <2>1. /\ v \in RevokeVars /\ v # None
          /\ \A q \in RevokeReqs : q # r => revokes'[q] = revokes[q]
        BY <1>6 DEF RevokeDelete, TypeOK
    <2>2. CASE answer = "lost"
        <3>1. revokes'[r] = None
            BY <1>6, <2>2 DEF RevokeDelete, TypeOK
        <3> QED
            BY <1>4, <2>1, <3>1
    <2>3. CASE answer # "lost"
        <3>1. revokes'[r] = [v EXCEPT !.todo = v.todo \ {id},
                                      !.failed = v.failed \/ answer = "error"]
            BY <1>6, <2>3 DEF RevokeDelete, TypeOK
        <3>2. /\ revokes'[r].todo = v.todo \ {id} /\ revokes'[r].transport = v.transport
              /\ revokes'[r].ip = v.ip /\ revokes'[r].address = v.address
              /\ revokes'[r].models = v.models /\ revokes'[r].listed = v.listed
              /\ revokes'[r].failed = (v.failed \/ answer = "error")
            BY <2>1, <3>1 DEF RevokeVars
        <3>3. deps' \subseteq deps /\ (deleted => \A d \in deps' : d.id # id)
            BY <1>6 DEF RevokeDelete
        <3>4. \/ deleted
              \/ answer = "error" /\ "litellm" \in Faults
              \/ ~\E d \in deps : d.id = id
            BY <1>6, <2>3 DEF RevokeDelete, Fault
        <3>5. ASSUME NEW d \in deps', revokes'[r].listed,
                     ~revokes'[r].failed \/ "litellm" \notin Faults, Managed(revokes'[r], d)
              PROVE  d.id \in revokes'[r].todo
            <4>1. d \in deps /\ Managed(v, d) /\ v.listed /\ (~v.failed \/ "litellm" \notin Faults)
                BY <3>2, <3>3, <3>5 DEF Managed
            <4>2. d.id \in v.todo
                BY <2>1, <4>1 DEF RevokesCover
            <4>3. d.id # id
                BY <3>2, <3>3, <3>4, <3>5, <4>1
            <4> QED
                BY <3>2, <4>2, <4>3
        <3>6. \A q \in RevokeReqs : q # r => revokes'[q] = None
            BY <2>1 DEF InProgressCurrent, Alone
        <3> QED
            BY <3>5, <3>6 DEF RevokesCover
    <2> QED
        BY <2>2, <2>3
<1>7. ASSUME NEW r \in RevokeReqs, RevokeFinish(r)
      PROVE  RevokesCover'
    BY <1>4, <1>7 DEF RevokeFinish, TypeOK
<1>8. CASE PublicStep
    BY <1>1, <1>2, <1>8, DoneAtOnce, NoRevoke
       DEF PublicStep, ConfirmBegin, ConfirmPost, ConfirmFinish
<1>9. CASE AdminStep
    BY <1>3, <1>5, <1>6, <1>7, <1>9, DoneAtOnce, NoRevoke DEF AdminStep
<1>10. CASE EnvironmentStep
    BY <1>1, <1>10, DoneAtOnce, NoRevoke DEF EnvironmentStep, TokenExpires, WgRestart
<1>11. CASE UNCHANGED vars
    BY <1>1, <1>11
<1> QED
    BY <1>8, <1>9, <1>10, <1>11 DEF Next

\* The key of a site is off from the first step of its revoke to the last.
LEMMA NextRevokesCut ==
    ASSUME TypeOK, "serial" \in Habits, "wg" \notin Faults, InProgressCurrent, RevokesCut,
           [Next]_vars
    PROVE  RevokesCut'
<1>1. UNCHANGED <<sites, cut, revokes>> => RevokesCut'
    BY DEF RevokesCut
<1>2. ASSUME NEW c \in ConfirmReqs, ConfirmFinish(c)
      PROVE  RevokesCut'
    BY <1>2, NoRevoke DEF ConfirmFinish, InProgressCurrent, Alone
<1>3. ASSUME NEW r \in RevokeReqs, NEW s \in Sites, NEW wgOk \in BOOLEAN, RevokeBegin(r, s, wgOk)
      PROVE  RevokesCut'
    <2>1. /\ NothingInFlight /\ UNCHANGED sites
          /\ \A q \in RevokeReqs : q # r => revokes'[q] = revokes[q]
          /\ revokes'[r].site = s /\ revokes'[r].transport = sites[s].transport
        BY <1>3 DEF RevokeBegin, Admitted, TypeOK
    <2>2. sites[s].transport = "wireguard" => cut' = cut \cup {sites[s].pubkey}
        BY <1>3 DEF RevokeBegin, Fault
    <2> QED
        BY <2>1, <2>2 DEF NothingInFlight, RevokesCut
<1>4. ASSUME NEW r \in RevokeReqs, UNCHANGED <<sites, cut>>,
             \A q \in RevokeReqs : q # r => revokes'[q] = revokes[q], revokes[r] # None,
             revokes'[r] # None => /\ revokes'[r].site = revokes[r].site
                                   /\ revokes'[r].transport = revokes[r].transport
      PROVE  RevokesCut'
    BY <1>4 DEF RevokesCut
<1>5. ASSUME NEW r \in RevokeReqs, NEW answer \in {"ok", "error", "lost"}, RevokeList(r, answer)
      PROVE  RevokesCut'
    <2>1. revokes[r] \in RevokeVars /\ revokes[r] # None
        BY <1>5 DEF RevokeList, TypeOK
    <2> QED
        BY <1>4, <1>5, <2>1 DEF RevokeList, TypeOK, RevokeVars
<1>6. ASSUME NEW r \in RevokeReqs, NEW id \in 1..MaxDeps, NEW deleted \in BOOLEAN,
             NEW answer \in {"ok", "error", "lost"}, RevokeDelete(r, id, deleted, answer)
      PROVE  RevokesCut'
    <2>1. revokes[r] \in RevokeVars /\ revokes[r] # None
        BY <1>6 DEF RevokeDelete, TypeOK
    <2> QED
        BY <1>4, <1>6, <2>1 DEF RevokeDelete, TypeOK, RevokeVars
<1>7. ASSUME NEW r \in RevokeReqs, RevokeFinish(r)
      PROVE  RevokesCut'
    BY <1>7, RevokeCurrent, NoRevoke
<1>8. CASE PublicStep
    BY <1>1, <1>2, <1>8, DoneAtOnce, NoRevoke DEF PublicStep, ConfirmBegin, ConfirmPost
<1>9. CASE AdminStep
    BY <1>3, <1>5, <1>6, <1>7, <1>9, DoneAtOnce, NoRevoke DEF AdminStep
<1>10. CASE EnvironmentStep
    BY <1>1, <1>10, DoneAtOnce, NoRevoke DEF EnvironmentStep, TokenExpires, WgRestart
<1>11. CASE UNCHANGED vars
    BY <1>1, <1>11
<1> QED
    BY <1>8, <1>9, <1>10, <1>11 DEF Next

\* When requests come one at a time, LiteLLM's list is read and `wg set` works, a
\* revoke that reports success has left no deployment at the address and no route
\* from it to the key, whatever LiteLLM refuses and whenever onboardd stops.
THEOREM RevokedIsGone ==
    ASSUME "serial" \in Habits, "info" \notin Faults, "wg" \notin Faults
    PROVE  Spec => RevokedMeansGone
<1> DEFINE Inv == Serial /\ RevokesCover /\ RevokesCut
           Gone == \A r \in RevokeReqs :
                      RevokeSucceeds(r) /\ revokes[r].transport = "wireguard"
                          => /\ \A d \in deps : d.host # revokes[r].ip
                             /\ \A s \in Sites : SiteIn(s) /\ sites[s].ip = revokes[r].ip
                                  => route[sites[s].ip] # sites[s].pubkey
<1>1. Init => Inv
    BY SerialHolds DEF Init, RevokesCover, RevokesCut
<1>2. Inv /\ [Next]_vars => Inv'
    BY SerialHolds, NextCover, NextRevokesCut DEF Serial
<1>3. Inv => Gone
    <2> SUFFICES ASSUME Inv, NEW r \in RevokeReqs,
                        RevokeSucceeds(r), revokes[r].transport = "wireguard"
                 PROVE  /\ \A d \in deps : d.host # revokes[r].ip
                        /\ \A s \in Sites : SiteIn(s) /\ sites[s].ip = revokes[r].ip
                             => route[sites[s].ip] # sites[s].pubkey
        OBVIOUS
    <2> DEFINE v == revokes[r]
    <2>1. \A d \in deps : d.host # v.ip
        BY DEF RevokeSucceeds, RevokesCover, Managed
    <2>2. v # None /\ v.site \in Sites
        BY DEF RevokeSucceeds, Serial, TypeOK, RevokeVars
    <2>3. SiteIn(v.site) /\ sites[v.site].transport = "wireguard" /\ sites[v.site].ip = v.ip
        BY <2>2 DEF Serial, InProgressCurrent, RevokesCurrent
    <2>4. v.ip \in IPs /\ v.ip # None
        BY <2>2, <2>3, RowsAre, KeysAssumption DEF Serial
    <2>5. \A s \in Sites : SiteIn(s) /\ sites[s].ip = v.ip => s = v.site
        BY <2>2, <2>3, <2>4 DEF Serial, AddressesExclusive
    <2>6. route[v.ip] # sites[v.site].pubkey
        BY <2>2, <2>4 DEF RevokesCut, Serial, CutPeerStaysOff
    <2> QED
        BY <2>1, <2>3, <2>5, <2>6
<1>4. Inv /\ [Next]_vars => [Gone]_vars
    BY <1>3
<1> HIDE DEF Inv
<1>5. Spec => [][Gone]_vars
    BY <1>1, <1>2, <1>4, PTL DEF Spec
<1> QED
    BY <1>5 DEF RevokedMeansGone

\* A Direct site leaves the registry when its revoke ends, and in no other way.
LEMMA DirectLeaves ==
    ASSUME TypeOK, [Next]_vars, NEW s \in Sites, SiteIn(s), sites[s].transport = "direct",
           sites'[s] = None
    PROVE  \E r \in RevokeReqs : /\ RevokeFinish(r) /\ revokes[r].site = s
                                 /\ ~KeepsSite(revokes[r]) /\ revokes[r].transport # "wireguard"
<1>1. sites[s] \in SiteRow /\ sites[s].ip = None /\ sites[s].pubkey = None /\ sites[s] # None
    BY RowsAre
<1>2. ~UNCHANGED sites
    BY <1>1
<1>3. ASSUME NEW x, NEW st \in {"failed", "active", "partial", "revoked"},
             sites' = SetStatus(x, st), st = "failed" => x # s
      PROVE  FALSE
    <2>1. CASE x # s
        BY <1>1, <1>3, <2>1 DEF SetStatus
    <2>2. CASE x = s
        BY <1>3, <2>2, StatusRows, <1>1
    <2> QED
        BY <2>1, <2>2
<1>4. ASSUME NEW t \in Tokens, ConfirmRefused(t)
      PROVE  FALSE
    <2>1. tokens[t].site # s
        BY <1>4, RowsAre DEF ConfirmRefused, AwaitsConfirm
    <2> QED
        BY <1>3, <1>4, <2>1 DEF ConfirmRefused
<1>5. ASSUME NEW c \in ConfirmReqs, ConfirmFinish(c)
      PROVE  FALSE
    BY <1>3, <1>5 DEF ConfirmFinish
<1>6. ASSUME NEW t \in Tokens, NEW key \in Keys, NEW reached \in Stages, register(t, key, reached)
      PROVE  FALSE
    <2> DEFINE row == [transport |-> "wireguard", pubkey |-> key, ip |-> tokens[t].ip,
                       address |-> None, models |-> tokens[t].models,
                       status |-> "registered"]
               stale == StaleRows(tokens[t].ip, key)
               remaining == [x \in Sites |-> IF x \in stale THEN None ELSE sites[x]]
    <2>1. sites' = IF reached = "row" THEN InsertOrReplace(remaining, tokens[t].site, row)
                   ELSE remaining
        BY <1>6 DEF register, WritesRow
    <2>2. tokens[t].ip \in IPs /\ tokens[t].ip # None
        BY <1>6, KeysAssumption DEF register, Usable, TokenIn, TypeOK, TokenRow
    <2>3. s \notin stale
        BY <1>1, <2>2 DEF StaleRows
    <2>4. row \in SiteRow /\ row # None /\ row.pubkey # None /\ row.ip # None
          /\ row.pubkey = key /\ row.ip = tokens[t].ip
        <3>1. tokens[t].models \in SUBSET Models
            BY <1>6 DEF register, Usable, TokenIn, TypeOK, TokenRow
        <3>2. row \in SiteRow
            BY <2>2, <3>1 DEF SiteRow, WireguardRow
        <3> QED
            BY <2>2, <3>2, KeysAssumption, NoneAssumption
    <2> HIDE DEF row, stale
    <2>5. remaining[s] = sites[s]
        BY <2>3
    <2>6. InsertOrReplace(remaining, tokens[t].site, row)[s] \in {row, sites[s]}
        BY <1>1, <2>4, <2>5 DEF InsertOrReplace
    <2> QED
        BY <1>1, <2>1, <2>4, <2>5, <2>6
<1>7. ASSUME NEW x \in Sites, NEW a \in Addresses, NEW ms \in SUBSET Models, admin_direct(x, a, ms)
      PROVE  FALSE
    <2> DEFINE row == [transport |-> "direct", pubkey |-> None, ip |-> None,
                       address |-> a, models |-> ms, status |-> "active"]
    <2>1. sites' = InsertOrReplace(sites, x, row)
        BY <1>7 DEF admin_direct
    <2>2. row \in SiteRow /\ row # None /\ row.pubkey = None /\ row.ip = None
        <3>1. row \in SiteRow
            BY DEF SiteRow, DirectRow
        <3> QED
            BY <3>1, NoneAssumption
    <2> HIDE DEF row
    <2> QED
        BY <1>1, <2>1, <2>2 DEF InsertOrReplace
<1>8. ASSUME NEW x \in Sites, NEW ms \in SUBSET Models, admin_models(x, ms)
      PROVE  FALSE
    <2>1. sites' = [sites EXCEPT ![x] = [sites[x] EXCEPT !.models = ms]]
        BY <1>8 DEF admin_models
    <2>2. [sites[s] EXCEPT !.models = ms] # None
        <3>1. [sites[s] EXCEPT !.models = ms] \in SiteRow
            BY <1>1, RowUpdates
        <3> QED
            BY <3>1, NoneAssumption
    <2> QED
        BY <1>1, <2>1, <2>2 DEF TypeOK
<1>9. ASSUME NEW r \in RevokeReqs, RevokeFinish(r)
      PROVE  /\ revokes[r].site = s /\ ~KeepsSite(revokes[r])
             /\ revokes[r].transport # "wireguard"
    BY <1>2, <1>3, <1>9, <1>1 DEF RevokeFinish, TypeOK
<1>10. CASE PublicStep
    BY <1>2, <1>4, <1>5, <1>6, <1>10 DEF PublicStep, ConfirmBegin, ConfirmPost
<1>11. CASE AdminStep
    BY <1>2, <1>7, <1>8, <1>9, <1>11 DEF AdminStep, admin_token, RevokeBegin, RevokeList,
                                  RevokeDelete, StageDirect, UnstageDirect
<1>12. CASE EnvironmentStep
    BY <1>2, <1>12 DEF EnvironmentStep, TokenExpires, Crash, CrashInRevoke, WgRestart
<1> QED
    BY <1>2, <1>10, <1>11, <1>12 DEF Next

\* When requests come one at a time and LiteLLM's list is read, a Direct site
\* leaves the registry only after every deployment it answers for is deleted,
\* whatever LiteLLM refuses and whenever onboardd stops.
THEOREM DirectSitesLeaveNoRoutes ==
    ASSUME "serial" \in Habits, "info" \notin Faults
    PROVE  Spec => DirectLeavesNoRoutes
<1> DEFINE Inv == Serial /\ RevokesCover
           NoRoutes == \A s \in Sites :
                SiteIn(s) /\ sites[s].transport = "direct" /\ sites'[s] = None
                    => \A d \in deps' : ~Managed(sites[s], d)
<1>1. Init => Inv
    BY SerialHolds DEF Init, RevokesCover
<1>2. Inv /\ [Next]_vars => Inv'
    BY SerialHolds, NextCover DEF Serial
<1>3. Inv /\ [Next]_vars => NoRoutes
    <2> SUFFICES ASSUME Inv, [Next]_vars, NEW s \in Sites, SiteIn(s),
                        sites[s].transport = "direct", sites'[s] = None, NEW d \in deps'
                 PROVE  ~Managed(sites[s], d)
        OBVIOUS
    <2>1. PICK r \in RevokeReqs : /\ RevokeFinish(r) /\ revokes[r].site = s
                                  /\ ~KeepsSite(revokes[r]) /\ revokes[r].transport # "wireguard"
        BY DirectLeaves DEF Serial
    <2> DEFINE v == revokes[r]
    <2>2. v # None /\ v.listed /\ v.todo = {} /\ d \in deps
        BY <2>1 DEF RevokeFinish
    <2>3. v.transport = "direct"
        BY <2>1, <2>2 DEF Serial, TypeOK, RevokeVars
    <2>4. ~v.failed
        BY <2>1, <2>3 DEF KeepsSite
    <2>5. ~Managed(v, d)
        BY <2>2, <2>4 DEF RevokesCover
    <2>6. sites[s].transport = v.transport /\ sites[s].address = v.address
          /\ sites[s].models = v.models
        BY <2>1, <2>2 DEF Serial, InProgressCurrent, RevokesCurrent
    <2> QED
        BY <2>3, <2>5, <2>6 DEF Managed
<1>4. Inv /\ [Next]_vars => [NoRoutes]_vars
    BY <1>3
<1> HIDE DEF Inv
<1>5. Spec => [][NoRoutes]_vars
    BY <1>1, <1>2, <1>4, PTL DEF Spec
<1> QED
    BY <1>5 DEF DirectLeavesNoRoutes

-------------------------------------------------------------------------------
(* Tokens of a careful operator *)

\* The key of a row was registered once.
KeysEnrolled == \A s \in Sites : WireguardIn(s) => enrolled[sites[s].pubkey] # None

\* A site has one unused token at most.
OneUnused ==
    \A t, u \in Tokens :
        /\ TokenIn(t) /\ TokenIn(u) /\ tokens[t].site = tokens[u].site
        /\ ~tokens[t].used /\ ~tokens[u].used
        => t = u

\* A site with an unused token is new, has failed or is revoked.
NotBehind ==
    \A t \in Tokens, s \in Sites :
        TokenIn(t) /\ tokens[t].site = s /\ ~tokens[t].used /\ WireguardIn(s)
            => sites[s].status \in {"failed", "revoked"}

\* The status of a WireGuard site is set, and nothing else changes.
StatusSet(s, st) ==
    /\ WireguardIn(s) /\ WireguardIn(s)'
    /\ sites'[s].ip = sites[s].ip /\ sites'[s].pubkey = sites[s].pubkey
    /\ sites'[s].status = st
    /\ \A x \in Sites \ {s} : sites'[x] = sites[x]

\* UPDATE ... SET status of the row of a WireGuard site.
LEMMA SetsStatus ==
    ASSUME TypeOK, NEW s \in Sites, WireguardIn(s),
           NEW st \in {"failed", "active", "partial", "revoked"},
           st = "failed" => sites[s].status = "registered",
           sites' = SetStatus(s, st)
    PROVE  StatusSet(s, st)
<1>1. sites[s] \in WireguardRow /\ SiteIn(s)
    BY RowsAre DEF WireguardIn
<1>2. sites'[s] = [sites[s] EXCEPT !.status = st] /\ \A x \in Sites \ {s} : sites'[x] = sites[x]
    BY <1>1 DEF SetStatus
<1>3. sites'[s].status = st
    BY <1>1, <1>2 DEF WireguardRow
<1>4. /\ sites'[s] # None /\ sites'[s].ip = sites[s].ip /\ sites'[s].pubkey = sites[s].pubkey
      /\ sites'[s].transport = sites[s].transport
    BY <1>1, StatusRows DEF SiteIn
<1> QED
    BY <1>1, <1>2, <1>3, <1>4 DEF StatusSet, WireguardIn, SiteIn

\* What the requests do to the rows, when they come one at a time.
LEMMA RequestsSetStatus ==
    ASSUME TypeOK, InProgressCurrent
    PROVE  /\ \A t \in Tokens : ConfirmRefused(t) =>
                \E s \in Sites : /\ tokens[t].site = s /\ sites[s].status = "registered"
                                 /\ StatusSet(s, "failed")
           /\ \A c \in ConfirmReqs : ConfirmFinish(c) =>
                \E s \in Sites, st \in {"active", "partial"} :
                    /\ confirms[c].site = s /\ sites[s].status = "registered"
                    /\ StatusSet(s, st)
           /\ \A r \in RevokeReqs : RevokeFinish(r) =>
                \E s \in Sites :
                    /\ revokes[r].site = s
                    /\ \/ /\ revokes[r].transport = "wireguard" /\ revokes[r].ip = sites[s].ip
                          /\ StatusSet(s, "revoked")
                       \/ /\ ~WireguardIn(s) /\ ~WireguardIn(s)'
                          /\ \A x \in Sites \ {s} : sites'[x] = sites[x]
<1>1. ASSUME NEW t \in Tokens, ConfirmRefused(t)
      PROVE  \E s \in Sites : /\ tokens[t].site = s /\ sites[s].status = "registered"
                              /\ StatusSet(s, "failed")
    <2>1. tokens[t].site \in Sites
        BY <1>1 DEF ConfirmRefused, AwaitsConfirm, TokenIn, TypeOK, TokenRow
    <2>2. PICK s \in Sites : s = tokens[t].site
        BY <2>1
    <2>3. sites[s].status = "registered" /\ SiteIn(s) /\ sites' = SetStatus(s, "failed")
        BY <1>1, <2>2 DEF ConfirmRefused, AwaitsConfirm
    <2>4. WireguardIn(s)
        BY <2>3, RowsAre DEF WireguardIn
    <2>5. StatusSet(s, "failed")
        BY <2>3, <2>4, SetsStatus
    <2> QED
        BY <2>2, <2>3, <2>5
<1>2. ASSUME NEW c \in ConfirmReqs, ConfirmFinish(c)
      PROVE  \E s \in Sites, st \in {"active", "partial"} :
                /\ confirms[c].site = s /\ sites[s].status = "registered" /\ StatusSet(s, st)
    <2>1. confirms[c].site \in Sites /\ confirms[c] # None
        BY <1>2 DEF ConfirmFinish, TypeOK, ConfirmVars
    <2>2. PICK s \in Sites : s = confirms[c].site
        BY <2>1
    <2>3. SiteIn(s) /\ sites[s].status = "registered"
        BY <2>1, <2>2 DEF InProgressCurrent, ConfirmsCurrent
    <2>4. PICK st \in {"active", "partial"} : sites' = SetStatus(s, st)
        BY <1>2, <2>2 DEF ConfirmFinish
    <2>5. WireguardIn(s)
        BY <2>3, RowsAre DEF WireguardIn
    <2>6. StatusSet(s, st)
        BY <2>4, <2>5, SetsStatus
    <2> QED
        BY <2>2, <2>3, <2>6
<1>3. ASSUME NEW r \in RevokeReqs, RevokeFinish(r)
      PROVE  \E s \in Sites :
                /\ revokes[r].site = s
                /\ \/ /\ revokes[r].transport = "wireguard" /\ revokes[r].ip = sites[s].ip
                      /\ StatusSet(s, "revoked")
                   \/ /\ ~WireguardIn(s) /\ ~WireguardIn(s)'
                      /\ \A x \in Sites \ {s} : sites'[x] = sites[x]
    <2> DEFINE v == revokes[r]
    <2>1. v \in RevokeVars /\ v.site \in Sites /\ v # None
        BY <1>3 DEF RevokeFinish, TypeOK, RevokeVars
    <2>2. PICK s \in Sites : s = v.site
        BY <2>1
    <2>3. SiteIn(s) /\ sites[s].transport = v.transport /\ sites[s].ip = v.ip
        BY <2>1, <2>2 DEF InProgressCurrent, RevokesCurrent
    <2>4. CASE v.transport = "wireguard"
        <3>1. sites' = SetStatus(s, "revoked") /\ WireguardIn(s)
            BY <1>3, <2>2, <2>3, <2>4 DEF RevokeFinish, KeepsSite, WireguardIn
        <3>2. StatusSet(s, "revoked")
            BY <3>1, SetsStatus
        <3> QED
            BY <2>2, <2>3, <2>4, <3>2
    <2>5. CASE v.transport # "wireguard"
        <3>1. sites' = sites \/ sites' = [sites EXCEPT ![s] = None]
            BY <1>3, <2>2, <2>5 DEF RevokeFinish
        <3>2. ~WireguardIn(s)
            BY <2>3, <2>5 DEF WireguardIn
        <3>3. ~WireguardIn(s)' /\ \A x \in Sites \ {s} : sites'[x] = sites[x]
            BY <3>1, <3>2 DEF WireguardIn, SiteIn, TypeOK
        <3> QED
            BY <2>2, <3>2, <3>3
    <2> QED
        BY <2>4, <2>5
<1> QED
    BY <1>1, <1>2, <1>3

\* The other writers of the table sites.
LEMMA WritersOfRows ==
    ASSUME TypeOK
    PROVE  /\ \A s \in Sites, a \in Addresses, ms \in SUBSET Models : admin_direct(s, a, ms) =>
                /\ ~WireguardIn(s)'
                /\ WireguardIn(s) => ~InUse(sites[s])
                /\ \A x \in Sites \ {s} : sites'[x] = sites[x]
           /\ \A s \in Sites, ms \in SUBSET Models : admin_models(s, ms) =>
                \A x \in Sites :
                    /\ SiteIn(x)' <=> SiteIn(x)
                    /\ sites'[x].transport = sites[x].transport /\ sites'[x].ip = sites[x].ip
                    /\ sites'[x].pubkey = sites[x].pubkey /\ sites'[x].status = sites[x].status
<1>1. ASSUME NEW s \in Sites, NEW a \in Addresses, NEW ms \in SUBSET Models, admin_direct(s, a, ms)
      PROVE  /\ ~WireguardIn(s)'
             /\ WireguardIn(s) => ~InUse(sites[s])
             /\ \A x \in Sites \ {s} : sites'[x] = sites[x]
    <2> DEFINE row == [transport |-> "direct", pubkey |-> None, ip |-> None,
                       address |-> a, models |-> ms, status |-> "active"]
    <2>1. sites' = InsertOrReplace(sites, s, row) /\ (SiteIn(s) => ~InUse(sites[s]))
        BY <1>1 DEF admin_direct
    <2>2. row.transport = "direct" /\ row.pubkey = None /\ row.ip = None
        OBVIOUS
    <2> HIDE DEF row
    <2>3. sites'[s] = row /\ \A x \in Sites \ {s} : sites'[x] = sites[x]
        BY <2>1, <2>2 DEF InsertOrReplace
    <2> QED
        BY <2>1, <2>2, <2>3 DEF WireguardIn
<1>2. ASSUME NEW s \in Sites, NEW ms \in SUBSET Models, admin_models(s, ms), NEW x \in Sites
      PROVE  /\ SiteIn(x)' <=> SiteIn(x)
             /\ sites'[x].transport = sites[x].transport /\ sites'[x].ip = sites[x].ip
             /\ sites'[x].pubkey = sites[x].pubkey /\ sites'[x].status = sites[x].status
    <2>1. /\ SiteIn(s) /\ (x # s => sites'[x] = sites[x])
          /\ sites'[s] = [sites[s] EXCEPT !.models = ms]
        BY <1>2 DEF admin_models, TypeOK
    <2>2. sites[s] \in SiteRow
        BY <2>1, RowsAre
    <2>3. sites'[s] # None
        <3>1. [sites[s] EXCEPT !.models = ms] \in SiteRow
            BY <2>2, RowUpdates
        <3> QED
            BY <2>1, <3>1, NoneAssumption
    <2>4. /\ sites'[s].transport = sites[s].transport /\ sites'[s].ip = sites[s].ip
          /\ sites'[s].pubkey = sites[s].pubkey /\ sites'[s].status = sites[s].status
        <3>1. CASE sites[s] \in WireguardRow
            BY <2>1, <3>1 DEF WireguardRow
        <3>2. CASE sites[s] \in DirectRow
            BY <2>1, <3>2 DEF DirectRow
        <3> QED
            BY <2>2, <3>1, <3>2 DEF SiteRow
    <2> QED
        BY <2>1, <2>3, <2>4 DEF SiteIn
<1> QED
    BY <1>1, <1>2

\* With a key nobody registered before, register touches the row of its site only.
LEMMA RegisterFresh ==
    ASSUME TypeOK, AddressesExclusive, KeysEnrolled, "freshKeys" \in Habits,
           NEW t \in Tokens, NEW key \in Keys, NEW reached \in Stages, register(t, key, reached)
    PROVE  \E s \in Sites :
           /\ Usable(t) /\ tokens[t].site = s
           /\ tokens' = [tokens EXCEPT ![t].used = TRUE]
           /\ reached = "row" =>
                /\ WireguardIn(s)' /\ sites'[s].pubkey = key
                /\ sites'[s].status = "registered"
                /\ enrolled' = [enrolled EXCEPT ![key] = s]
           /\ reached # "row" => UNCHANGED sites
           /\ \A x \in Sites \ {s} : sites'[x] = sites[x]
           /\ \A k \in Keys : enrolled[k] # None => enrolled'[k] # None
<1> DEFINE row == [transport |-> "wireguard", pubkey |-> key, ip |-> tokens[t].ip,
                   address |-> None, models |-> tokens[t].models, status |-> "registered"]
<1>1. /\ Usable(t) /\ tokens[t] \in TokenRow /\ row \in SiteRow
      /\ tokens' = [tokens EXCEPT ![t].used = TRUE]
      /\ sites' = IF reached = "row" THEN InsertOrReplace(sites, tokens[t].site, row) ELSE sites
    BY RegisterSteps
<1>2. PICK s \in Sites : s = tokens[t].site
    BY <1>1 DEF TokenRow
<1>3. tokens[t].ip \in IPs /\ tokens[t].ip # None
    BY <1>1, KeysAssumption DEF TokenRow
<1>4. enrolled[key] = None
    BY DEF register
<1>5. \A x \in Sites : SiteIn(x) => sites[x].pubkey # key
    BY <1>4, RowsAre, KeysAssumption DEF KeysEnrolled, WireguardIn
<1>6. \A x \in Sites : SiteIn(x) => sites[x].ip # tokens[t].ip
    BY <1>1 DEF Usable, AddressesExclusive
<1>7. /\ row.transport = "wireguard" /\ row.pubkey = key /\ row.ip = tokens[t].ip
      /\ row.status = "registered" /\ row # None
    BY <1>1, NoneAssumption
<1> HIDE DEF row
<1>8. reached = "row" => sites'[s] = row
    BY <1>1, <1>2 DEF InsertOrReplace
<1>9. \A x \in Sites \ {s} : sites'[x] = sites[x]
    BY <1>1, <1>2, <1>5, <1>6, <1>7 DEF InsertOrReplace, SiteIn
<1>10. /\ reached = "row" => enrolled' = [enrolled EXCEPT ![key] = s]
       /\ \A k \in Keys : enrolled[k] # None => enrolled'[k] # None
    BY <1>2, NoneAssumption DEF register, TypeOK
<1>11. reached = "row" => WireguardIn(s)'
    BY <1>7, <1>8 DEF WireguardIn, SiteIn
<1>12. reached # "row" => UNCHANGED sites
    BY <1>1
<1>13. reached = "row" => sites'[s].pubkey = key /\ sites'[s].status = "registered"
    BY <1>7, <1>8
<1> QED
    BY <1>1, <1>2, <1>9, <1>10, <1>11, <1>12, <1>13

\* What the careful use of tokens and keys gives: keys of rows have been enrolled,
\* a site has one token to use, and its row is not up while it has one.
CarefulTokens == KeysEnrolled /\ OneUnused /\ NotBehind

\* Tokens that age, while no WireGuard row but one gets another status, and that
\* one had no token to use or is down now.
LEMMA TokensBehind ==
    ASSUME TypeOK, CarefulTokens, TokensAge, UNCHANGED enrolled,
           \A x \in Sites : WireguardIn(x)' =>
              /\ WireguardIn(x) /\ sites'[x].pubkey = sites[x].pubkey
              /\ \/ sites'[x].status \in {sites[x].status, "failed", "revoked"}
                 \/ sites[x].status = "registered"
    PROVE  CarefulTokens'
<1>1. ASSUME NEW t \in Tokens, TokenIn(t)'
      PROVE  /\ TokenIn(t) /\ tokens'[t].site = tokens[t].site /\ tokens'[t].used = tokens[t].used
             /\ tokens[t].site \in Sites
    <2>1. TokenIn(t) /\ tokens[t] \in TokenRow
        BY <1>1 DEF TokensAge, TokenIn, TypeOK
    <2> QED
        BY <1>1, <2>1 DEF TokensAge, TokenIn, TokenRow
<1>2. KeysEnrolled'
    BY DEF CarefulTokens, KeysEnrolled
<1>3. OneUnused'
    BY <1>1 DEF CarefulTokens, OneUnused
<1>4. NotBehind'
    <2> SUFFICES ASSUME NEW t \in Tokens, NEW s \in Sites, TokenIn(t)', tokens'[t].site = s,
                        ~tokens'[t].used, WireguardIn(s)'
                 PROVE  sites'[s].status \in {"failed", "revoked"}
        BY DEF NotBehind
    <2>1. TokenIn(t) /\ tokens[t].site = s /\ ~tokens[t].used /\ WireguardIn(s)
        BY <1>1
    <2>2. sites[s].status \in {"failed", "revoked"}
        BY <2>1 DEF CarefulTokens, NotBehind
    <2> QED
        BY <2>2
<1> QED
    BY <1>2, <1>3, <1>4 DEF CarefulTokens

\* Every step keeps it.
LEMMA NextTokens ==
    ASSUME Serial, CarefulTokens, [Next]_vars,
           "serial" \in Habits, "freshKeys" \in Habits, "noReissue" \in Habits
    PROVE  CarefulTokens'
<1> USE DEF Serial
<1>1. ASSUME UNCHANGED <<sites, enrolled>>, TokensAge
      PROVE  CarefulTokens'
    <2>1. \A x \in Sites : WireguardIn(x)' => WireguardIn(x) /\ sites'[x] = sites[x]
        BY <1>1 DEF WireguardIn, SiteIn
    <2> QED
        BY <1>1, <2>1, TokensBehind
<1>2. UNCHANGED tokens => TokensAge
    BY DEF TokensAge
<1>3. ASSUME NEW t \in Tokens, ConfirmRefused(t)
      PROVE  CarefulTokens'
    <2>1. UNCHANGED <<tokens, enrolled>>
        BY <1>3 DEF ConfirmRefused
    <2>2. PICK s \in Sites : StatusSet(s, "failed")
        BY <1>3, RequestsSetStatus
    <2>3. \A x \in Sites : WireguardIn(x)' =>
              /\ WireguardIn(x) /\ sites'[x].pubkey = sites[x].pubkey
              /\ sites'[x].status \in {sites[x].status, "failed", "revoked"}
        BY <2>2 DEF StatusSet, WireguardIn, SiteIn
    <2> QED
        BY <1>2, <2>1, <2>3, TokensBehind
<1>4. ASSUME NEW c \in ConfirmReqs, ConfirmFinish(c)
      PROVE  CarefulTokens'
    <2>1. TokensAge /\ UNCHANGED enrolled
        BY <1>4 DEF ConfirmFinish, TokensAge, TypeOK
    <2>2. PICK s \in Sites, st \in {"active", "partial"} :
            sites[s].status = "registered" /\ StatusSet(s, st)
        BY <1>4, RequestsSetStatus
    <2>4. \A x \in Sites : WireguardIn(x)' =>
              /\ WireguardIn(x) /\ sites'[x].pubkey = sites[x].pubkey
              /\ sites'[x].status = sites[x].status \/ sites[x].status = "registered"
        BY <2>2 DEF StatusSet, WireguardIn, SiteIn
    <2> QED
        BY <2>1, <2>4, TokensBehind
<1>5. ASSUME NEW r \in RevokeReqs, RevokeFinish(r)
      PROVE  CarefulTokens'
    <2>1. UNCHANGED <<tokens, enrolled>>
        BY <1>5 DEF RevokeFinish
    <2>2. PICK s \in Sites :
            \/ StatusSet(s, "revoked")
            \/ ~WireguardIn(s)' /\ \A x \in Sites \ {s} : sites'[x] = sites[x]
        BY <1>5, RequestsSetStatus
    <2>3. \A x \in Sites : WireguardIn(x)' =>
              /\ WireguardIn(x) /\ sites'[x].pubkey = sites[x].pubkey
              /\ sites'[x].status \in {sites[x].status, "failed", "revoked"}
        BY <2>2 DEF StatusSet, WireguardIn, SiteIn
    <2> QED
        BY <1>2, <2>1, <2>3, TokensBehind
<1>6. ASSUME NEW s \in Sites, NEW a \in Addresses, NEW ms \in SUBSET Models, admin_direct(s, a, ms)
      PROVE  CarefulTokens'
    <2>1. UNCHANGED <<tokens, enrolled>>
        BY <1>6 DEF admin_direct
    <2>2. ~WireguardIn(s)' /\ \A x \in Sites \ {s} : sites'[x] = sites[x]
        BY <1>6, WritersOfRows
    <2>3. \A x \in Sites : WireguardIn(x)' => WireguardIn(x) /\ sites'[x] = sites[x]
        BY <2>2 DEF WireguardIn, SiteIn
    <2> QED
        BY <1>2, <2>1, <2>3, TokensBehind
<1>7. ASSUME NEW s \in Sites, NEW ms \in SUBSET Models, admin_models(s, ms)
      PROVE  CarefulTokens'
    <2>1. UNCHANGED <<tokens, enrolled>>
        BY <1>7 DEF admin_models
    <2>2. \A x \in Sites :
            /\ SiteIn(x)' <=> SiteIn(x)
            /\ sites'[x].transport = sites[x].transport
            /\ sites'[x].pubkey = sites[x].pubkey /\ sites'[x].status = sites[x].status
        BY <1>7, WritersOfRows
    <2>3. \A x \in Sites : WireguardIn(x)' =>
              /\ WireguardIn(x) /\ sites'[x].pubkey = sites[x].pubkey
              /\ sites'[x].status = sites[x].status
        BY <2>2 DEF WireguardIn
    <2> QED
        BY <1>2, <2>1, <2>3, TokensBehind
<1>8. ASSUME NEW t \in Tokens, NEW s \in Sites, NEW ms \in SUBSET Models, admin_token(t, s, ms)
      PROVE  CarefulTokens'
    <2>1. PICK ip \in IPs :
            tokens' = [u \in Tokens |->
                        IF u = t
                        THEN [site |-> s, models |-> ms, ip |-> ip,
                              used |-> FALSE, expired |-> FALSE]
                        ELSE IF TokenIn(u) /\ tokens[u].site = s
                                /\ ~tokens[u].used
                        THEN None
                        ELSE tokens[u]]
        BY <1>8 DEF admin_token, IsNextWgIp
    <2>2. /\ UNCHANGED <<sites, enrolled>>
          /\ SiteIn(s) => ~Live(sites[s]) /\ sites[s].status # "registered"
        BY <1>8 DEF admin_token
    <2>3. WireguardIn(s) => sites[s].status \in {"failed", "revoked"}
        BY <2>2, RowsAre DEF WireguardIn, WireguardRow, Live
    <2>4. \A u \in Tokens : TokenIn(u)' /\ u # t =>
            /\ TokenIn(u) /\ tokens'[u] = tokens[u]
            /\ tokens[u].site = s => tokens[u].used
        BY <2>1 DEF TokenIn
    <2>5. tokens'[t].site = s
        BY <2>1
    <2>6. KeysEnrolled'
        BY <2>2 DEF CarefulTokens, KeysEnrolled, WireguardIn, SiteIn
    <2>7. OneUnused'
        BY <2>4, <2>5 DEF CarefulTokens, OneUnused
    <2>8. NotBehind'
        BY <2>2, <2>3, <2>4, <2>5 DEF CarefulTokens, NotBehind, WireguardIn, SiteIn
    <2> QED
        BY <2>6, <2>7, <2>8 DEF CarefulTokens
<1>9. ASSUME NEW t \in Tokens, NEW key \in Keys, NEW reached \in Stages, register(t, key, reached)
      PROVE  CarefulTokens'
    <2>1. PICK s \in Sites :
          /\ Usable(t) /\ tokens[t].site = s
          /\ tokens' = [tokens EXCEPT ![t].used = TRUE]
          /\ reached = "row" =>
                /\ WireguardIn(s)' /\ sites'[s].pubkey = key
                /\ sites'[s].status = "registered"
                /\ enrolled' = [enrolled EXCEPT ![key] = s]
          /\ reached # "row" => UNCHANGED sites
          /\ \A x \in Sites \ {s} : sites'[x] = sites[x]
          /\ \A k \in Keys : enrolled[k] # None => enrolled'[k] # None
        BY <1>9, RegisterFresh DEF CarefulTokens
    <2>2. tokens[t] \in TokenRow /\ TokenIn(t) /\ ~tokens[t].used
        BY <2>1 DEF Usable, TokenIn, TypeOK
    <2>3. /\ tokens'[t].used = TRUE /\ \A u \in Tokens : u # t => tokens'[u] = tokens[u]
        BY <2>1, <2>2 DEF TypeOK, TokenRow
    <2>4. \A u \in Tokens : TokenIn(u)' /\ ~tokens'[u].used =>
            u # t /\ TokenIn(u) /\ tokens'[u] = tokens[u] /\ ~tokens[u].used /\ tokens[u].site # s
        BY <2>1, <2>2, <2>3 DEF CarefulTokens, OneUnused, TokenIn
    <2>5. OneUnused'
        BY <2>4 DEF CarefulTokens, OneUnused
    <2>6. NotBehind'
        <3> SUFFICES ASSUME NEW u \in Tokens, NEW x \in Sites, TokenIn(u)', tokens'[u].site = x,
                            ~tokens'[u].used, WireguardIn(x)'
                     PROVE  sites'[x].status \in {"failed", "revoked"}
            BY DEF NotBehind
        <3>1. TokenIn(u) /\ tokens[u].site = x /\ ~tokens[u].used /\ x # s
            BY <2>4
        <3>2. sites'[x] = sites[x]
            BY <2>1, <3>1
        <3>3. WireguardIn(x)
            BY <3>2 DEF WireguardIn, SiteIn
        <3> QED
            BY <3>1, <3>2, <3>3 DEF CarefulTokens, NotBehind
    <2>7. KeysEnrolled'
        <3> SUFFICES ASSUME NEW x \in Sites, WireguardIn(x)'
                     PROVE  enrolled'[sites'[x].pubkey] # None
            BY DEF KeysEnrolled
        <3>1. CASE reached = "row" /\ x = s
            BY <2>1, <3>1, NoneAssumption DEF TypeOK
        <3>2. CASE ~(reached = "row" /\ x = s)
            <4>1. sites'[x] = sites[x] /\ WireguardIn(x)
                BY <2>1, <3>2 DEF WireguardIn, SiteIn
            <4>2. sites[x].pubkey \in Keys /\ enrolled[sites[x].pubkey] # None
                BY <4>1, RowsAre DEF WireguardIn, CarefulTokens, KeysEnrolled
            <4> QED
                BY <2>1, <4>1, <4>2
        <3> QED
            BY <3>1, <3>2
    <2> QED
        BY <2>5, <2>6, <2>7 DEF CarefulTokens
<1>10. ASSUME NEW t \in Tokens, TokenExpires(t)
       PROVE  CarefulTokens'
    BY <1>1, <1>10 DEF TokenExpires, TokensAge, TokenIn, TypeOK
<1>11. CASE PublicStep
    BY <1>1, <1>2, <1>3, <1>4, <1>9, <1>11 DEF PublicStep, ConfirmBegin, ConfirmPost
<1>12. CASE AdminStep
    <2>1. UNCHANGED <<sites, enrolled, tokens>> => CarefulTokens'
        BY <1>1, <1>2
    <2>2. ASSUME NEW r \in RevokeReqs, NEW s \in Sites, NEW wgOk \in BOOLEAN,
                 RevokeBegin(r, s, wgOk)
          PROVE  CarefulTokens'
        BY <2>1, <2>2 DEF RevokeBegin
    <2>3. ASSUME NEW r \in RevokeReqs, NEW answer \in {"ok", "error", "lost"}, RevokeList(r, answer)
          PROVE  CarefulTokens'
        BY <2>1, <2>3 DEF RevokeList
    <2>4. ASSUME NEW r \in RevokeReqs, NEW id \in 1..MaxDeps, NEW deleted \in BOOLEAN,
                 NEW answer \in {"ok", "error", "lost"}, RevokeDelete(r, id, deleted, answer)
          PROVE  CarefulTokens'
        BY <2>1, <2>4 DEF RevokeDelete
    <2> QED
        BY <1>5, <1>6, <1>7, <1>8, <1>12, <2>1, <2>2, <2>3, <2>4
           DEF AdminStep, StageDirect, UnstageDirect
<1>13. CASE EnvironmentStep
    BY <1>1, <1>2, <1>10, <1>13 DEF EnvironmentStep, Crash, CrashInRevoke, WgRestart
<1>14. CASE UNCHANGED vars
    BY <1>1, <1>2, <1>14
<1> QED
    BY <1>11, <1>12, <1>13, <1>14 DEF Next

-------------------------------------------------------------------------------
(* Deployments of a careful operator *)

\* The deployment was made for the site that has its address, which is up, or is
\* being confirmed and had this model posted.
Deployed(d) ==
    \E s \in Sites :
        /\ WireguardIn(s) /\ sites[s].ip = d.host /\ d.site = s
        /\ \/ Live(sites[s])
           \/ \E c \in ConfirmReqs : /\ confirms[c] # None /\ confirms[c].site = s
                                     /\ d.model \notin confirms[c].todo

\* Every deployment at an address of the tunnel is one its site has confirmed, or is
\* confirming, and there is one for a model.
DeploymentsOfSites ==
    /\ \A d \in deps : d.host \in IPs => Deployed(d)
    /\ NoDuplicateDeployment

\* Deployments only go, and sites that are up or being confirmed stay so.
LEMMA DeploymentsKept ==
    ASSUME DeploymentsOfSites, deps' \subseteq deps,
           \A s \in Sites : WireguardIn(s) /\ Live(sites[s]) =>
              WireguardIn(s)' /\ sites'[s].ip = sites[s].ip /\ Live(sites'[s]),
           \A c \in ConfirmReqs : confirms[c] # None =>
              /\ confirms'[c] = confirms[c]
              /\ \A s \in Sites : confirms[c].site = s /\ WireguardIn(s) =>
                    WireguardIn(s)' /\ sites'[s].ip = sites[s].ip
    PROVE  DeploymentsOfSites'
<1>1. ASSUME NEW d \in deps', d.host \in IPs
      PROVE  Deployed(d)'
    <2>1. PICK s \in Sites :
            /\ WireguardIn(s) /\ sites[s].ip = d.host /\ d.site = s
            /\ \/ Live(sites[s])
               \/ \E c \in ConfirmReqs : /\ confirms[c] # None /\ confirms[c].site = s
                                         /\ d.model \notin confirms[c].todo
        BY <1>1 DEF DeploymentsOfSites, Deployed
    <2>2. CASE Live(sites[s])
        BY <2>1, <2>2 DEF Deployed, Live
    <2>3. CASE \E c \in ConfirmReqs : /\ confirms[c] # None /\ confirms[c].site = s
                                      /\ d.model \notin confirms[c].todo
        BY <2>1, <2>3 DEF Deployed
    <2> QED
        BY <2>1, <2>2, <2>3
<1> QED
    BY <1>1 DEF DeploymentsOfSites, NoDuplicateDeployment

\* LiteLLM answers, and answers what it did.
Answers == "litellm" \notin Faults /\ "info" \notin Faults /\ "crash" \notin Faults

\* A model is posted once for a confirm, and no deployment is at the address yet but
\* those this confirm has posted.
LEMMA PostedOnce ==
    ASSUME Serial, DeploymentsOfSites, Answers,
           NEW c \in ConfirmReqs, NEW m \in Models, NEW created \in BOOLEAN,
           NEW answer \in {"ok", "error", "lost"}, ConfirmPost(c, m, created, answer)
    PROVE  DeploymentsOfSites'
<1> DEFINE v == confirms[c]
           new == [id |-> nextDep, model |-> m, host |-> v.ip, site |-> v.site]
<1>1. /\ v # None /\ m \in v.todo /\ v \in ConfirmVars /\ UNCHANGED sites
      /\ deps' = deps \cup {new} /\ answer = "ok"
      /\ confirms' = [confirms EXCEPT ![c].todo = v.todo \ {m},
                                      ![c].errors = v.errors \/ answer = "error"]
    BY DEF ConfirmPost, Answers, Fault, Serial, TypeOK
<1>2. PICK s \in Sites : s = v.site
    BY <1>1 DEF ConfirmVars
<1>3. SiteIn(s) /\ sites[s].status = "registered" /\ sites[s].ip = v.ip
    BY <1>1, <1>2 DEF Serial, InProgressCurrent, ConfirmsCurrent
<1>4. WireguardIn(s) /\ v.ip \in IPs /\ v.ip # None
    BY <1>3, RowsAre, KeysAssumption DEF WireguardIn, Serial
<1>5. /\ confirms'[c] = [v EXCEPT !.todo = v.todo \ {m}, !.errors = v.errors \/ answer = "error"]
      /\ \A e \in ConfirmReqs : e # c => confirms'[e] = confirms[e]
    BY <1>1 DEF Serial, TypeOK
<1>6. /\ confirms'[c] # None /\ confirms'[c].site = s /\ confirms'[c].todo = v.todo \ {m}
    <2>1. /\ v.todo \ {m} \in SUBSET Models
          /\ (v.errors \/ answer = "error") \in BOOLEAN
          /\ v \in [token : Tokens, site : Sites, ip : IPs, todo : SUBSET Models, errors : BOOLEAN]
        BY <1>1 DEF ConfirmVars
    <2> DEFINE left == v.todo \ {m}
               errors == (v.errors \/ answer = "error")
    <2>2. left \in SUBSET Models /\ errors \in BOOLEAN
        BY <2>1
    <2>3. confirms'[c] = [v EXCEPT !.todo = left, !.errors = errors]
        BY <1>5
    <2> HIDE DEF left, errors
    <2>4. confirms'[c] \in ConfirmVars /\ confirms'[c].site = v.site /\ confirms'[c].todo = left
        BY <2>1, <2>2, <2>3 DEF ConfirmVars
    <2> QED
        BY <1>2, <2>4, NoneAssumption DEF left
<1>7. ~Live(sites[s])
    BY <1>3 DEF Live
<1>8. \A e \in ConfirmReqs : confirms[e] # None => e = c
    BY <1>1 DEF Serial, InProgressCurrent, Alone
<1>9. PICK n \in deps' : n.host = v.ip /\ n.site = s /\ n.model = m /\ deps' = deps \cup {n}
    BY <1>1, <1>2
<1>10. WireguardIn(s)' /\ sites'[s].ip = v.ip
    BY <1>1, <1>3, <1>4 DEF WireguardIn, SiteIn
<1>11. ASSUME NEW d \in deps, d.host \in IPs
       PROVE  Deployed(d)' /\ (d.host = v.ip => d.model # m)
    <2>1. PICK x \in Sites :
            /\ WireguardIn(x) /\ sites[x].ip = d.host /\ d.site = x
            /\ \/ Live(sites[x])
               \/ \E e \in ConfirmReqs : /\ confirms[e] # None /\ confirms[e].site = x
                                         /\ d.model \notin confirms[e].todo
        BY <1>11 DEF DeploymentsOfSites, Deployed
    <2>2. WireguardIn(x)' /\ sites'[x] = sites[x]
        BY <1>1, <2>1 DEF WireguardIn, SiteIn
    <2>3. CASE Live(sites[x])
        <3>1. Deployed(d)'
            BY <2>1, <2>2, <2>3 DEF Deployed, Live
        <3>2. x # s
            BY <1>7, <2>3
        <3>3. d.host # v.ip
            BY <1>3, <1>4, <2>1, <3>2 DEF Serial, AddressesExclusive, WireguardIn
        <3> QED
            BY <3>1, <3>3
    <2>4. CASE \E e \in ConfirmReqs : /\ confirms[e] # None /\ confirms[e].site = x
                                      /\ d.model \notin confirms[e].todo
        <3>1. x = s /\ d.model \notin v.todo
            BY <1>2, <1>8, <2>4
        <3>2. d.model # m /\ d.model \notin confirms'[c].todo
            BY <1>1, <1>6, <3>1
        <3> QED
            BY <1>6, <2>1, <2>2, <3>1, <3>2 DEF Deployed
    <2> QED
        BY <2>1, <2>3, <2>4
<1>12. Deployed(n)'
    <2>1. n.model \notin confirms'[c].todo
        BY <1>6, <1>9
    <2> QED
        BY <1>6, <1>9, <1>10, <2>1 DEF Deployed
<1>13. NoDuplicateDeployment'
    BY <1>4, <1>9, <1>11 DEF DeploymentsOfSites, NoDuplicateDeployment
<1>14. \A d \in deps' : d.host \in IPs => Deployed(d)'
    BY <1>9, <1>11, <1>12
<1> QED
    BY <1>13, <1>14 DEF DeploymentsOfSites

\* A confirm ends with its site up.
LEMMA ConfirmedIsUp ==
    ASSUME Serial, DeploymentsOfSites, NEW c \in ConfirmReqs, ConfirmFinish(c)
    PROVE  DeploymentsOfSites'
<1>1. PICK s \in Sites, st \in {"active", "partial"} :
        confirms[c].site = s /\ sites[s].status = "registered" /\ StatusSet(s, st)
    BY RequestsSetStatus DEF Serial
<1>2. confirms[c] # None /\ UNCHANGED deps
    BY DEF ConfirmFinish
<1>3. \A e \in ConfirmReqs : confirms[e] # None => e = c
    BY <1>2 DEF Serial, InProgressCurrent, Alone
<1>4. ASSUME NEW d \in deps, d.host \in IPs
      PROVE  Deployed(d)'
    <2>1. PICK x \in Sites :
            /\ WireguardIn(x) /\ sites[x].ip = d.host /\ d.site = x
            /\ \/ Live(sites[x])
               \/ \E e \in ConfirmReqs : /\ confirms[e] # None /\ confirms[e].site = x
                                         /\ d.model \notin confirms[e].todo
        BY <1>4 DEF DeploymentsOfSites, Deployed
    <2>2. CASE x = s
        <3>1. WireguardIn(x)' /\ sites'[x].ip = sites[x].ip /\ Live(sites'[x])
            BY <1>1, <2>2 DEF StatusSet, Live
        <3> QED
            BY <2>1, <3>1 DEF Deployed, Live
    <2>3. CASE x # s
        <3>1. Live(sites[x])
            BY <1>1, <1>3, <2>1, <2>3
        <3>2. sites'[x] = sites[x] /\ WireguardIn(x)'
            BY <1>1, <2>1, <2>3 DEF StatusSet, WireguardIn, SiteIn
        <3> QED
            BY <2>1, <3>1, <3>2 DEF Deployed, Live
    <2> QED
        BY <2>2, <2>3
<1> QED
    BY <1>2, <1>4 DEF DeploymentsOfSites, NoDuplicateDeployment

\* A revoke ends with no deployment left at the address of its site.
LEMMA RevokedIsEmpty ==
    ASSUME Serial, RevokesCover, DeploymentsOfSites, Answers, NEW r \in RevokeReqs, RevokeFinish(r)
    PROVE  DeploymentsOfSites'
<1> DEFINE v == revokes[r]
<1>1. v # None /\ v.listed /\ v.todo = {} /\ UNCHANGED <<deps, confirms>>
    BY DEF RevokeFinish
<1>2. \A c \in ConfirmReqs : confirms[c] = None
    BY <1>1 DEF Serial, InProgressCurrent, Alone
<1>3. PICK s \in Sites :
        /\ v.site = s
        /\ \/ /\ v.transport = "wireguard" /\ v.ip = sites[s].ip /\ StatusSet(s, "revoked")
           \/ /\ ~WireguardIn(s) /\ ~WireguardIn(s)'
              /\ \A x \in Sites \ {s} : sites'[x] = sites[x]
    BY RequestsSetStatus DEF Serial
<1>4. \A d \in deps : ~Managed(v, d)
    BY <1>1 DEF RevokesCover, Answers
<1>5. ASSUME NEW d \in deps, d.host \in IPs
      PROVE  Deployed(d)'
    <2>1. PICK x \in Sites : WireguardIn(x) /\ sites[x].ip = d.host /\ d.site = x /\ Live(sites[x])
        BY <1>2, <1>5 DEF DeploymentsOfSites, Deployed
    <2>2. x # s
        BY <1>3, <1>4, <2>1 DEF Managed
    <2>3. sites'[x] = sites[x] /\ WireguardIn(x)'
        BY <1>3, <2>1, <2>2 DEF StatusSet, WireguardIn, SiteIn
    <2> QED
        BY <2>1, <2>3 DEF Deployed, Live
<1> QED
    BY <1>1, <1>5 DEF DeploymentsOfSites, NoDuplicateDeployment

\* No step leaves a deployment behind, or makes a second one.
LEMMA NextDeployments ==
    ASSUME Serial, CarefulTokens, RevokesCover, DeploymentsOfSites, [Next]_vars, Answers,
           "serial" \in Habits, "freshKeys" \in Habits, "noReissue" \in Habits
    PROVE  DeploymentsOfSites'
<1> USE DEF Serial
<1>1. ASSUME deps' \subseteq deps, UNCHANGED <<sites, confirms>>
      PROVE  DeploymentsOfSites'
    <2>1. \A s \in Sites : WireguardIn(s) => WireguardIn(s)' /\ sites'[s] = sites[s]
        BY <1>1 DEF WireguardIn, SiteIn
    <2> QED
        BY <1>1, <2>1, DeploymentsKept
<1>2. ASSUME deps' \subseteq deps, NothingInFlight,
             \A s \in Sites : WireguardIn(s) /\ Live(sites[s]) =>
                WireguardIn(s)' /\ sites'[s].ip = sites[s].ip /\ sites'[s].status = sites[s].status
      PROVE  DeploymentsOfSites'
    BY <1>2, DeploymentsKept DEF NothingInFlight, Live
<1>3. ASSUME NEW t \in Tokens, NEW key \in Keys, NEW reached \in Stages, register(t, key, reached)
      PROVE  DeploymentsOfSites'
    <2>1. PICK s \in Sites :
            /\ Usable(t) /\ tokens[t].site = s
            /\ \A x \in Sites \ {s} : sites'[x] = sites[x]
        BY <1>3, RegisterFresh DEF CarefulTokens
    <2>2. WireguardIn(s) => ~Live(sites[s])
        BY <2>1 DEF CarefulTokens, NotBehind, Usable, Live
    <2>3. \A x \in Sites : WireguardIn(x) /\ Live(sites[x])
            => WireguardIn(x)' /\ sites'[x] = sites[x]
        BY <2>1, <2>2 DEF WireguardIn, SiteIn
    <2>4. NothingInFlight /\ UNCHANGED deps
        BY <1>3 DEF register, Admitted
    <2> QED
        BY <1>2, <2>3, <2>4
<1>4. ASSUME NEW t \in Tokens, ConfirmRefused(t)
      PROVE  DeploymentsOfSites'
    <2>1. PICK s \in Sites : sites[s].status = "registered" /\ StatusSet(s, "failed")
        BY <1>4, RequestsSetStatus
    <2>2. \A x \in Sites : WireguardIn(x) /\ Live(sites[x])
            => WireguardIn(x)' /\ sites'[x] = sites[x]
        BY <2>1 DEF StatusSet, Live, WireguardIn, SiteIn
    <2>3. NothingInFlight /\ UNCHANGED deps
        BY <1>4 DEF ConfirmRefused, Admitted
    <2> QED
        BY <1>2, <2>2, <2>3
<1>5. ASSUME NEW c \in ConfirmReqs, NEW t \in Tokens, ConfirmBegin(c, t)
      PROVE  DeploymentsOfSites'
    <2>1. NothingInFlight /\ UNCHANGED <<deps, sites>>
        BY <1>5 DEF ConfirmBegin, Admitted
    <2>2. \A s \in Sites : WireguardIn(s) => WireguardIn(s)' /\ sites'[s] = sites[s]
        BY <2>1 DEF WireguardIn, SiteIn
    <2> QED
        BY <1>2, <2>1, <2>2
<1>6. ASSUME NEW s \in Sites, NEW a \in Addresses, NEW ms \in SUBSET Models, admin_direct(s, a, ms)
      PROVE  DeploymentsOfSites'
    <2>1. (WireguardIn(s) => ~InUse(sites[s])) /\ \A x \in Sites \ {s} : sites'[x] = sites[x]
        BY <1>6, WritersOfRows
    <2>2. \A x \in Sites : WireguardIn(x) /\ Live(sites[x])
            => WireguardIn(x)' /\ sites'[x] = sites[x]
        BY <2>1 DEF InUse, WireguardIn, SiteIn
    <2>3. NothingInFlight /\ UNCHANGED deps
        BY <1>6 DEF admin_direct, Admitted
    <2> QED
        BY <1>2, <2>2, <2>3
<1>7. ASSUME NEW s \in Sites, NEW ms \in SUBSET Models, admin_models(s, ms)
      PROVE  DeploymentsOfSites'
    <2>1. \A x \in Sites :
            /\ SiteIn(x)' <=> SiteIn(x)
            /\ sites'[x].transport = sites[x].transport /\ sites'[x].ip = sites[x].ip
            /\ sites'[x].status = sites[x].status
        BY <1>7, WritersOfRows
    <2>2. \A x \in Sites : WireguardIn(x) =>
            WireguardIn(x)' /\ sites'[x].ip = sites[x].ip /\ sites'[x].status = sites[x].status
        BY <2>1 DEF WireguardIn
    <2>3. NothingInFlight /\ UNCHANGED deps
        BY <1>7 DEF admin_models, Admitted
    <2> QED
        BY <1>2, <2>2, <2>3
<1>8. ASSUME NEW s \in Sites, NEW a \in Addresses, NEW m \in Models, StageDirect(s, a, m)
      PROVE  DeploymentsOfSites'
    <2> DEFINE new == [id |-> nextDep, model |-> m, host |-> a, site |-> s]
    <2>1. deps' = deps \cup {new} /\ UNCHANGED <<sites, confirms>>
        BY <1>8 DEF StageDirect
    <2>2. new.host \notin IPs
        BY HostsAssumption
    <2> HIDE DEF new
    <2>3. ASSUME NEW d \in deps, d.host \in IPs
          PROVE  Deployed(d)'
        BY <2>1, <2>3 DEF DeploymentsOfSites, Deployed, WireguardIn, SiteIn, Live
    <2>4. NoDuplicateDeployment'
        BY <2>1, <2>2 DEF DeploymentsOfSites, NoDuplicateDeployment
    <2> QED
        BY <2>1, <2>2, <2>3, <2>4 DEF DeploymentsOfSites
<1>9. CASE PublicStep
    BY <1>3, <1>4, <1>5, <1>9, PostedOnce, ConfirmedIsUp DEF PublicStep
<1>10. CASE AdminStep
    <2>1. ASSUME NEW t \in Tokens, NEW s \in Sites, NEW ms \in SUBSET Models, admin_token(t, s, ms)
          PROVE  DeploymentsOfSites'
        BY <1>1, <2>1 DEF admin_token
    <2>2. ASSUME NEW r \in RevokeReqs, NEW s \in Sites, NEW wgOk \in BOOLEAN,
                 RevokeBegin(r, s, wgOk)
          PROVE  DeploymentsOfSites'
        BY <1>1, <2>2 DEF RevokeBegin
    <2>3. ASSUME NEW r \in RevokeReqs, NEW answer \in {"ok", "error", "lost"}, RevokeList(r, answer)
          PROVE  DeploymentsOfSites'
        BY <1>1, <2>3 DEF RevokeList
    <2>4. ASSUME NEW r \in RevokeReqs, NEW id \in 1..MaxDeps, NEW deleted \in BOOLEAN,
                 NEW answer \in {"ok", "error", "lost"}, RevokeDelete(r, id, deleted, answer)
          PROVE  DeploymentsOfSites'
        BY <1>1, <2>4 DEF RevokeDelete
    <2>5. ASSUME NEW s \in Sites, NEW id \in 1..MaxDeps, UnstageDirect(s, id)
          PROVE  DeploymentsOfSites'
        BY <1>1, <2>5 DEF UnstageDirect
    <2> QED
        BY <1>6, <1>7, <1>8, <1>10, <2>1, <2>2, <2>3, <2>4, <2>5, RevokedIsEmpty DEF AdminStep
<1>11. CASE EnvironmentStep
    BY <1>1, <1>11
       DEF EnvironmentStep, TokenExpires, Crash, CrashInRevoke, WgRestart, Answers, Fault
<1>12. CASE UNCHANGED vars
    BY <1>1, <1>12
<1> QED
    BY <1>9, <1>10, <1>11, <1>12 DEF Next

\* How the portal is used by one careful operator, while LiteLLM answers.
CarefulUse ==
    Answers /\ "serial" \in Habits /\ "freshKeys" \in Habits /\ "noReissue" \in Habits

\* All of it together: what the theorems below need.
CarefulInv == Serial /\ CarefulTokens /\ RevokesCover /\ DeploymentsOfSites

\* The invariant of a portal that is used with care.
LEMMA CarefulHolds ==
    ASSUME CarefulUse
    PROVE  /\ Init => CarefulInv
           /\ CarefulInv /\ [Next]_vars => CarefulInv'
           /\ CarefulInv => NoDuplicateDeployment /\ NoForeignDeployment
<1> USE DEF CarefulUse
<1>1. ASSUME Init PROVE CarefulInv
    <2>1. Serial
        BY <1>1, SerialHolds
    <2>2. CarefulTokens
        BY <1>1 DEF Init, CarefulTokens, KeysEnrolled, OneUnused, NotBehind, WireguardIn,
                    SiteIn, TokenIn
    <2>3. RevokesCover /\ DeploymentsOfSites
        BY <1>1 DEF Init, RevokesCover, DeploymentsOfSites, NoDuplicateDeployment
    <2> QED
        BY <2>1, <2>2, <2>3 DEF CarefulInv
<1>2. ASSUME CarefulInv, [Next]_vars PROVE CarefulInv'
    <2>1. Serial'
        BY <1>2, SerialHolds DEF CarefulInv
    <2>2. CarefulTokens'
        BY <1>2, NextTokens DEF CarefulInv
    <2>3. RevokesCover'
        BY <1>2, NextCover DEF CarefulInv, Serial, Answers
    <2>4. DeploymentsOfSites'
        BY <1>2, NextDeployments DEF CarefulInv
    <2> QED
        BY <2>1, <2>2, <2>3, <2>4 DEF CarefulInv
<1>3. ASSUME CarefulInv PROVE NoForeignDeployment
    <2> SUFFICES ASSUME NEW d \in deps, NEW s \in Sites, SiteIn(s), sites[s].ip = d.host
                 PROVE  d.site = s
        BY DEF NoForeignDeployment
    <2>1. d.host \in IPs
        <3>1. d.host # None
            BY NoneAssumption, KeysAssumption, <1>3
               DEF CarefulInv, Serial, TypeOK, Deployment
        <3> QED
            BY <1>3, <3>1, RowsAre DEF CarefulInv, Serial
    <2>2. PICK x \in Sites : SiteIn(x) /\ sites[x].ip = d.host /\ d.site = x
        BY <1>3, <2>1 DEF CarefulInv, DeploymentsOfSites, Deployed, WireguardIn
    <2> QED
        BY <1>3, <2>1, <2>2, KeysAssumption DEF CarefulInv, Serial, AddressesExclusive
<1>4. CarefulInv => NoDuplicateDeployment
    BY DEF CarefulInv, DeploymentsOfSites
<1> QED
    BY <1>1, <1>2, <1>3, <1>4

\* With one request at a time, a new key for every install, no token while an install
\* is under way and a LiteLLM that answers, a model of a site is deployed once, also
\* when `wg set` fails and the WireGuard container restarts.
THEOREM NoDuplicateDeployments ==
    ASSUME CarefulUse
    PROVE  Spec => []NoDuplicateDeployment
BY CarefulHolds, PTL DEF Spec

\* Under the same use an address that is handed out again comes without deployments
\* of its former holder.
THEOREM NoForeignDeployments ==
    ASSUME CarefulUse
    PROVE  Spec => []NoForeignDeployment
BY CarefulHolds, PTL DEF Spec
===============================================================================
