# LLM-Portal in TLA+

LLM-Portal puts one gateway (LiteLLM behind nginx, on a VPS) in front of model
servers that run at private *sites*. This directory holds TLA+ modules for the
parts of it that keep state in several places at once, TLC runs over small
instances of them, and TLAPS proofs for every instance.

## The system

| component | state it keeps | operations | what makes it correct |
|---|---|---|---|
| **onboardd** (`onboardd/onboardd.py`) | SQLite `tokens`, `sites`; through commands the WireGuard interface and `wg0.conf`; through HTTP LiteLLM's deployments | token, install, register, confirm, revoke, direct, models, groups, probe | an address has one holder; a token enrols one peer; a revoked site is off the tunnel and out of LiteLLM; a Direct site leaves only when its routes are gone |
| **console, site administration** (`console/console.py`) | none of its own: LiteLLM's deployments and onboardd's registry | Direct registration with rollback, add / refresh / delete models, aliases, probe | registry and deployments agree; a failed registration takes back what it added and nothing else |
| **console, MCP registry** | `external-mcp.json`, a lock per event loop | register, groups, remove: write, restart the hub, attest, roll back | after an answer, file and running hub agree: both new or both old |
| **mcp-hub** (`mcp-hub/mcp_hub.py`) | tools loaded at start, hash of the registry, uploaded files | start-up registration, config state, uploads, TTL clean-up | the hash it reports is that of what it loaded; a tool is visible to its groups only |
| **console, groups** + `vps/litellm/group_routing.py` | groups are derived: tags of deployments, metadata of keys, entries of the MCP registry | create, rename, delete | a key reaches deployments of its group only; renaming moves all of a group or none |
| **console, admin login** | failure windows, used codes, TOTP state file, sessions | login, logout, 2FA setup / confirm / disable | a code is used once; the failure limit holds, up to the requests under way |
| **console, keys and vault** | LiteLLM keys, encrypted vault file | create, import, reveal, update, toggle, delete | a key that can be revealed exists |
| **conversation monitor** (`conversation_monitor.py`) | shared SQLite (records, policy), per-process policy cache, replay buffer, subscriber queues | capture, policy updates, listing, SSE | policy versions grow; a subscriber misses nothing silently; retention and capacity hold |
| **compat proxy** (`compat/`) | none between requests | message normalisation, stream fixing, image eviction | never worse than the input; output well-formed |
| metrics adapter, usage pages, UI, nginx, deploy and release scripts, benchmarks | — | — | not modelled (see the end) |

Who calls whom: the site's `install.sh` calls onboardd's public routes; the
operator's browser calls the console, which calls onboardd's admin routes and
LiteLLM's admin API, writes the MCP registry and restarts the hub; onboardd runs
`wg` in the WireGuard container and calls LiteLLM. Nothing spans two of these
stores with a transaction, and a handler that awaits holds what it read before.

## Plan

1. **Onboarding** (done): `WgConf`, `Onboarding`, its runs and its proofs.
2. **McpRegistry** (done): apply / attest / roll back with the hub's start-up, crashes
   and external edits, implementing the abstract `McpCommit`; its runs and its proofs.
3. **SiteAdmin** (done): the console's edits of models, groups, keys and MCP bindings
   over LiteLLM and the registry; its runs and its proofs.
4. **ConversationMonitor** (done): capture, the policy of two processes,
   retention, event streams with replay, the paged listing; its run, and proofs of all
   but the one liveness property.
5. **Compat proxy** (done): `ContextPolicy`, `ContextOptimizer` and `CompatProxy`,
   which composes the two with requests and answers; its run, and proofs of all but the
   one liveness property.
6. **AdminLogin** (done): failure window, one-time codes, the second factor, sessions;
   its run and its proofs.
7. Open: the vault (keys in LiteLLM and their encrypted copies), and the hub's uploads
   with their clean-up by age.

Every safety invariant and action property that the runs find to hold is proved. Theorems
worth proving next: those of the open modules. The section on what is proved, near the
end, says what stays with TLC and why.

## Onboarding

`WgConf` holds the gateway's side of the tunnel as operators over values: the
routing table of the interface (`Routes`: which key an address delivers to), and
`wg0.conf` (`Conf`). Of the file's text it keeps what the code's cutting at blank
lines depends on: which block each peer is in, whether `[Interface]` is still
there, the order of the peers, and whether the file ends with a newline.

`Onboarding` is the state machine. Variables and what they stand for:

| variable | in the code |
|---|---|
| `tokens`, `sites` | the two SQLite tables (`init_db`); a missing row is `None` |
| `issued` | every token ever generated: `secrets.token_urlsafe` does not repeat |
| `route`, `conf` | the interface and the file |
| `deps`, `nextDep` | LiteLLM's deployment table and its next id |
| `confirms`, `revokes` | the local variables of `confirm` and `admin_revoke` while they await |
| `enrolled`, `cut` | history: which site a key last registered for; keys a revoke took off |

onboardd is one asyncio process: between two awaits a handler is not interrupted,
so an action is the stretch of a handler from one await to the next. `register`
does not await after its body has been read; it is one action with a parameter
saying how far it came (`wg set` refused, or onboardd stopped at one of three
points). `confirm` is `ConfirmRefused` or `ConfirmBegin`, then `ConfirmPost` for
every model, then `ConfirmFinish`; `admin_revoke` is `RevokeBegin`, `RevokeList`,
`RevokeDelete` for every deployment, `RevokeFinish`. The other admin handlers are
one action each. The environment lets tokens expire, stops onboardd, and takes the
WireGuard container down and up.

Two constants say under which circumstances a run looks at the system. `Faults`
lists what may fail (`wg` commands, LiteLLM's admin API, its listing, onboardd, the
WireGuard container). `Habits` lists restraints of the people using it: `serial`
(one request at a time), `freshKeys` (each register brings a new key, as
`install.sh` makes it), `noReissue` (no new token while an install is under way).
The code enforces none of the three; a property that needs one is weaker for it, so
each run states which it assumes, and runs without them come first.

### Runs

| run | assumes | shows |
|---|---|---|
| `onboarding_tunnel` | nothing; wg failures, crashes, restarts | `AddressesExclusive`, `CutPeerStaysOff`, `OneShotToken` |
| `onboarding_careful` | all three habits; wg failures, restarts | `NoDuplicateDeployment`, `NoForeignDeployment`: each fails without any one of the habits, under crashes, and under LiteLLM failures. `NoForeignPeer`: without restarts it holds without any habit and under every other failure, as is proved; a restart may bring back a stale line of `wg0.conf`, which the habits rule out |
| `onboarding_direct` | `serial`; LiteLLM refuses, answers are lost | `TypeOK`; `OneOwnerPerAddress` and `DirectLeavesNoRoutes`; `ActiveSiteIsRouted`, which fails when onboardd stops or the tunnel restarts; `RevokedMeansGone`, which fails when `wg` does. Both Direct and revoke properties fail without `serial`, and the two about deployments when a failed listing reads as an empty one (`info`) |

Why the bounds are enough. Two sites, because the properties compare two; three
tokens, because a clash needs one token spent, one outstanding and one that gets the
freed address; two addresses, so that one can be free while the other is held; two
keys (three with `freshKeys`), so that a key can come back; one model where the
number of models does not matter to the property; one confirm and one revoke in
progress together, since two confirms of one site are told apart by nothing the
second could disturb more than the revoke does. `MaxBlocks` bounds the blocks of
`wg0.conf` (a revoke that would write another is disabled) and `MaxDeps` the
deployments ever created. Sites, tokens and keys are interchangeable, so runs use
symmetry. Deadlock is not checked: nobody has to use the portal, and the supply of
tokens is bounded.

No fairness is assumed and no liveness is claimed: a request whose client goes away,
or whose answer is lost, is never taken up again by the code.

### Disagreements

One run expects a violation: `finding_conf`. Peers are appended without a blank line,
so they share a block with `[Interface]`; removing one removes all of it from the file,
and the next restart of the container brings up no tunnel (`PeersArePersisted`).

The others need no run, as they are visible in single actions or follow from the
failures named in the table above:

- A confirm that began before a revoke adds deployments after it (`ConfirmPost` after
  `RevokeList`), although the runbook says that a revoke withdraws what a site has
  published (line 217): `RevokedMeansGone` fails without `serial`.
- Enrolling a site anew before its first install confirms replaces the row and leaves
  the first peer on the interface (`register`), also after `site-revoke`, although
  the runbook says that this cuts the tunnel (line 217).
- An error answer to `GET /model/info` reads as an empty list, so that a Direct site is
  deleted with its routes left behind; `DirectLeavesNoRoutes` holds without that fault.
- The comment in `register` about a second register with the same token
  (`onboardd.py:184`) describes a branch that no state reaches, since the first one
  spends the token: the theorem `StaleBranchIsDead`.
- `confirm` and `admin_revoke` write their status by name after their awaits
  (`ConfirmFinish`, `RevokeFinish`). The row of that name may be another one by then:
  a Direct row becomes `partial` or `revoked` by what was begun for the WireGuard row
  before it, and no property asks otherwise.
- A revoke marks the row as revoked also when `wg set ... remove` has failed
  (`RevokeBegin`): the key stays on the interface. `CutPeerStaysOff` and
  `RevokedMeansGone` speak of revokes whose `wg` command worked; what holds without it
  is `NoForeignPeer`. In the same way the row of a WireGuard site becomes `revoked`
  when the deletion of a deployment has failed, and the next holder of its address
  inherits the deployment: `NoForeignDeployment` needs a LiteLLM that answers.
- A confirm whose `/model/new` was carried out and not answered is served again, and
  deploys the model a second time (`ConfirmPost`): `NoDuplicateDeployment` needs a
  LiteLLM that answers, too.
- Only `admin_token` says "revoke first": a token issued before a site came up replaces
  the active row later.

### Proofs

`WgConf_proof` states what the operators return for every file and table.
`Onboarding_proof` proves, for every value of the constants:

- `TypeCorrect`. `TypeOK` is inductive: one lemma per handler. A Direct row never is
  `registered` or `failed`, since `confirm` reads a row as `registered` in the step that
  makes it `failed`; it can become `partial` or `revoked` (see above).
- `AddressesAreExclusive`. `TypeOK /\ AddressesExclusive` is inductive. Only
  `admin_token` and `register` bring claims to an address (`TableSteps`): the first
  picks one that neither table holds, the second burns the token in the step that
  puts the row in. The clause about tokens *and* rows is the strengthening: without
  it the row of a register could meet another row on its address.
- `StaleBranchIsDead` follows from it.
- `CutPeersStayOff`, `NoForeignPeers` (assuming no restart), each inductive together
  with the two above, from what a step may do to the tunnel (`TunnelSteps`).
- `TokensAreOneShot`, an action property, with `TokensIssued` as the extra invariant.

The other six each need some of what `Faults` and `Habits` rule out, and the theorem
names it; TLC shows a counterexample without it.

- `ActiveSitesAreRouted`, unless onboardd stops or the container restarts: requests
  interleave freely, and `wg` and LiteLLM may fail. `RoutedInv` speaks of rows
  instead of active rows, since a row keeps its route when its status changes.
- `AddressesHaveOneOwner`, with `serial`: `admin_direct` checks an address and adds a
  row in one step, but a revoke that awaits LiteLLM writes the status it read before.
  The invariant says that what a handler holds is what the row still says
  (`InProgressCurrent`), and that a Direct row is always up (`DirectUp`).
- `RevokedIsGone` and `DirectSitesLeaveNoRoutes`, with `serial` and a list of
  deployments that is read. `RevokesCover` says that every deployment the row answers
  for is among those the revoke still has to delete, or could not delete, and then it
  does not succeed; `RevokesCut` says that the key is off.
- `NoDuplicateDeployments` and `NoForeignDeployments`, with all habits and a LiteLLM that
  answers, under `wg` failures and restarts of the container. `DeploymentsOfSites` says
  that a deployment at an address of the tunnel is one its site has confirmed, or is
  confirming, and `CarefulTokens` that a site has one token to use and is not up while
  it has one, so that no confirm follows another.

The proofs rest on the named assumptions of the modules only: `None` is no key,
address, site or row, and addresses of the tunnel are numbers.

## MCP registry

`McpConfig` holds what an administrator may do to `external-mcp.json`, as operators
on a function from names to groups. `McpRegistry` is the protocol around it.

| variable | in the code |
|---|---|
| `file` | `external-mcp.json`: a registry, absent (`Missing`) or unreadable (`Garbage`); the value stands for its SHA-256 too |
| `hub` | the mcp-hub process: what `register_external_tools` read, the entries still to connect, the owner of every tool, `ok`, the hash taken in `lifespan` |
| `offers` | the tools every upstream exposes now |
| `ops` | the handlers of the console: where each is, and the locals it holds there (`entries`, `expected`, `previous`) |
| `lock` | `_mcp_config_lock` (`serialized_mcp_mutation`) |
| `attested` | history: `mcp_hub_ready` held for the present file and nobody wrote since |

A handler runs `Acquire`, then `Refuse`, `SkipCommit` or `Read`; `register` goes
through `Preflight` for every entry; then `apply_mcp_conf`: `Snapshot`, `Write`,
`Restart`, `Succeed`, or `Deadline`, `Rollback`, `RestartAgain`, `Recover`. The hub
runs `HubBoots` (docker's `restart: unless-stopped`), `register_external_tools`,
`HubConnects` for every entry, `HubHashes`. Console, hub and the operator's
`prepare_legacy_mcp_rollback.py` are processes of their own, so they interleave at
every step and not only at the console's awaits: the snapshot and the compare before
the write are two actions although no other handler can come between them.

`McpCommit` says what the pages promise: a request is applied as a whole to what
the earlier ones left, or nothing changes. `McpRegistryCommit` instantiates it `WITH`
the mapping, and `AtomicCommit` says that the protocol implements it: from the write to the attestation the candidate is in the file, but the committed
registry is still `previous`.

### Runs

| run | faults | shows |
|---|---|---|
| `mcp_commit` | hub stops, restart fails, deadlines pass early, upstreams change; two servers whose tools may collide | `AtomicCommit`: the protocol implements `McpCommit`. `AttestedIsServed`: also after it restarted on its own, the hub serves what was attested last. `OkMeansServed`: "ok" only while the hub has a tool of every entry asked for (of `Builtins` there are none in the runs; the theorem covers any set of them) |
| `mcp_answers` | restart fails, torn writes, console crashes, upstreams, the rollback script | `EveryRequestAnswered`: nobody waits for ever on the lock or the hub. `TypeOK`, with the lock discipline: a handler past the lock is its only holder |

Bounds. Two requests, as a third is to each of them what the second is. Two servers
where their tools can collide, one where they need not: a registry with one entry
has every kind of edit but a rename that skips an entry. Two groups where a rename
is among the jobs. Every request is sent once, so a run can end: deadlock is
unchecked, and `EveryRequestAnswered` says what it would have said.

Fairness. A handler that can go on does (asyncio), a hub that can go on does (its
container is restarted), and the lock is granted to a request that is waiting
whenever it is free again and again (`asyncio.Lock` serves waiters in turn): weak
fairness for the first two, strong for the third. Nobody has to send a request and
no fault has to happen. A deadline may pass only on a hub that answers and is not
ready, except under `slow`, so that `mcp_answers` is not true merely because
deadlines exist: a restarted hub does come up and does answer.

What the properties leave open, and the code too: with one upstream down the hub's
`ok` is false, so no other entry can be changed either: the request is rolled back.

### Disagreements

None has a run, as each is visible in a single action.

- A write that stops half-way (`Torn`, a full disk) is not rolled back, although
  `console.py:3090` says that a failure of any step restores the bytes: the `OSError`
  leaves `apply_mcp_conf` before its rollback, and the next request reads the torn file
  as an empty registry.
- `HubHashes` comes after `register_external_tools` and every connection: if the file
  changed in between, the hash is of bytes the hub never loaded. `AttestedIsServed`
  holds nevertheless, since whoever writes restarts the hub before it asks.
- `Recover` does not compare the owners, although the runbook (line 181) says that both
  attestations do.
- `Snapshot`, which guards the write, comes after the preflight, so an edit made by the
  rollback script during a preflight is overwritten.

### Proofs

`McpRegistry_proof` proves, for every set of requests, servers, groups and tools:

- `TypeCorrect`: `TypeOK`, one lemma per action. Its part about the lock is what the
  others stand on: a handler in a critical phase is the lock's holder.
- `AttestedIsServedAlways`, unless the rollback script runs. The strengthening
  `HubFresh` says that a hub which is loading or serving holds the present file, or a
  handler has written since and is on its way to restart it; `OpFresh` says in which
  phases that is so, and that `attested` is then off.
- `OkMeansServedAlways`, from the same invariant and `Sound`: every entry the hub
  has connected has a tool, as long as its `ok` holds.
- `CommitIsAtomic`, the refinement, unless the script runs, a write tears or the
  console crashes (after each of these the file may keep what no answer confirmed).
  `Applies` is its invariant: a handler past its reading holds the edit of what it
  read, and until the write that is still in the file.

`EveryRequestAnswered` is liveness and stays with TLC.

## Site administration and groups

`Deployments` holds LiteLLM's deployments as the console sees them and the routing of
a request by the group of its key, as operators. `SiteAdmin` is what the console's
handlers do to them.

| variable | in the code |
|---|---|
| `sites` | onboardd's registry: is the site in use, the models and groups of its row; a missing row is `None` |
| `deps`, `nextId` | LiteLLM's deployments and the next id it gives |
| `keys` | `metadata.group` of every virtual key |
| `mcp` | the groups every MCP entry is bound to |
| `lock` | `_mcp_config_lock`, which a rename and a binding hold from start to end |
| `ops` | the handlers under way: what they have read (`rows`, `seen`, `bound`), what is still to do (`todo`, `work`), what to take back (`made`, `moved`), and whether anything failed (`errors`) |
| `promised` | history: the models an administrator was told are served, and has not asked to take away since |

An action is what a handler does from one of its calls to the next, since every call
is an await and other handlers run meanwhile. All handlers begin with `Start`
(`onboard_sites`). Group handlers go on with `ReadDeployments`, `ReadKeys`
(`group_snapshot` and the checks on it), then for each site `NextSite`,
`ListForRetag`, per deployment `Replace` and `DeleteReplaced`, and `SyncGroups`; a
rename ends with `Rebind` or `Unbind` per key and the `Commit` of the MCP registry.
A call that fails is told apart from one whose answer is lost only by what LiteLLM
holds afterwards, as for the console itself (`ll_json`).

`Faults` lists what may fail, `Habits` may contain `serial`: one request at a time.
The code enforces no such order. `Asked` is the set of jobs a run allows, `First` the
sets of deployments it starts from, `LastId` the bound on ids: a creation is disabled
when they are used up.

### Runs

| run | assumes | shows |
|---|---|---|
| `sites_edits` | `serial`; refused and lost calls, answers without id, onboardd unreachable | `OkKeepsAgreement`: what LiteLLM and the registry agreed on they still agree on. `DirectTakesBack`: a failed Direct registration keeps what was there and, if its deletions succeed, leaves nothing of its own but the one deployment whose creation was not answered, if there is one; provided it can tell its deployments apart (`Tells`) |
| `sites_groups` | `serial`; refused and lost calls, onboardd unreachable, failed MCP commits | `RenameKeepsReach`: a rename answered with ok moved everything. `RenameWidensNothing`: not even a half-done rename lets a key reach more. `DeleteStrandsNobody`. `TypeOK`, with the lock: every way out of a rename or a binding gives it back |
| `sites_race` | nothing; refused calls, failed listings; two requests | `PromisesKept`: a promised model has a deployment at every moment |

Bounds of the serial runs: a tunnel site and a Direct site, none to two models at the
start, two more ids than the start uses, which is what one retag of two sites, or a
Direct registration of two models, takes; requests follow one another until they are
used up, so an edit meets what a failed one left behind. `sites_groups` has two keys,
so that a rename can fail after it moved one, and an MCP entry, rebound by requests
of their own between jobs; two groups. `sites_edits` has no keys, as its properties
do not mention them. Bounds of `sites_race`: one site
with one model and two requests of every job that creates or deletes on it. What one
of them can do to the other is to create, or to delete, the deployment the other has
listed. The theorem below covers any number of everything.

The properties of these two fail without `serial`, and this is the code, not the
model: each handler decides on a listing it took at its start. A key bound to a group
while it is being deleted is stranded; a model added to a site while it is refreshed
disappears from the registry; a site registered during a rename keeps the old tag.
Only `PromisesKept` survives, as creating comes first and deletion is by id.

Deadlock is not checked, as nobody has to make a request, and no liveness is claimed:
an unreachable LiteLLM ends a handler rather than being retried.

### Disagreements

None has a run, as each is visible in the actions named:

- The fallback for an answer without id (`console.py:1711`) looks for an id that was not
  there *before the request*, and so takes the first deployment of a name again when
  the second one of the same name has just been created; the clean-up then leaves that
  one behind. One name over two upstream models is allowed, since the check for
  duplicates compares both. No call needs to fail for it but the last, so the clean-up
  that the docstring calls atomic (line 1654) leaves a deployment behind:
  `DirectTakesBack` is violated without its hypothesis `Tells`.
- The answer of `/model/new` is lost after LiteLLM created the deployment: the
  registration fails, and that deployment stays, although every call on the way back
  succeeds (`CreateDirect`; the handler keeps it as `old`). The docstring says
  "atomically from the console's point of view", and the console indeed never learns of
  the deployment. `DirectTakesBack` does not exempt this case but bounds it: exactly the
  deployment asked for may stay, and nothing else.
- In the same way onboardd may have written the row of a Direct site and its answer be
  lost: the deployments are taken back and the row stays (`Register`).
- The name that a group is given is compared with the tags of sites in use only
  (`group_snapshot`). A deployment that a failed Direct registration left at a site
  without a row may carry it already; the keys that are renamed then reach it.
  `RenameKeepsReach` and `RenameWidensNothing` assume that there is none (`Tidy`).
- A rename retags the sites first, and then rebinds the keys one by one
  (`NextSite`, `Rebind`): in between, a key of the group reaches nothing, and when a
  call fails there it stays so, as the retagging is not taken back. `runbook.md:27`
  says that changing groups keeps a connection available, which holds for the
  deployments (`PromisesKept`) and not for the keys.
- A lost answer of `/key/update` is not rolled back: the key concerned is not among
  those `Unbind` visits.
- Rename and delete pass over a site whose deployments do not carry the tag
  (`NextSite`), so its registry row keeps the group: a deleted group is still there,
  a renamed one is there twice. The row's groups are synced although the retag failed
  (`SyncGroups`).
- Failed listings read as empty (`Read`): `api_groups_delete` then finds no key bound
  and goes on, `api_sites_models` creates a second deployment of a name and, like
  `api_groups_create`, drops the tags it did not see.
- Two Direct registrations of one address at once: each may adopt what the other
  created, and the one onboardd refuses deletes it (`ListForDirect`, `CleanUp`).
- Aliases are not written to the registry.

### Proofs

`SiteAdmin_proof` proves, for any number of sites, keys, requests and ids:

- `TypeCorrect`. `TypeOK` alone is not inductive: a handler in a phase must be doing
  a job that phase belongs to, and rely on rows it has read. `TypeInv` adds this
  (`Fits`). One lemma per action shows that the handler that moves goes on with the
  same job or answers (`Moves`); one lemma about `Moves` does the lock.
- `PromisesAlwaysKept`, whatever fails and however many requests interleave, unless a
  Direct registration is among the jobs (`OnlyCopies`): its clean-up does delete
  what another request may have adopted. The invariant `PromiseInv` says that an id
  means one model of one site, in LiteLLM and in the hands of all handlers (`Known`),
  that ids to come are new, and that a promise is served by a deployment nobody is
  about to delete (`Doomed`). A handler dooms one only in the step that created its
  like under a new id, or withdrew the promise.

The five other properties are proved for requests that come one at a time and listings
that are answered (`Serial`, which the section above shows to be needed); every other
call may fail or lose its answer, anywhere, and ids may be missing from answers:
`RenamesWidenNothing`, `RenamesKeepReach`, `DeletesStrandNobody`, `AgreementIsKept`,
`DirectIsTakenBack`. Each compares the end of an operation, or every moment of it, with
what was found at its start (`found`), many steps before. The invariant `SInv` says
that ids mean one deployment (`Ids`), that one handler is at work (`OneAtWork`), and
how far that one has come (`HandlerInv`):

- `RetagInv`: every deployment there now is one that was found, or its copy with the
  group retagged; sites still to do are untouched; unless an error was noted, the
  sites that are done have only copies, and rows that agree with them.
- `RenameInv`: a key is as it was found, or was bound to the old name and is bound to
  the new one, which nothing had: this is why a rename that stops half-way widens
  nothing. `DeleteInv`: nothing was bound to the group, and nobody could bind it since.
- `EditInv` and `DirectInv`: what an edit of one site has created and not deleted yet;
  what a registration has created is what its clean-up will delete, but for the one
  deployment whose creation gave no id (`Unnamed`).

TLC found no violation of `SInv` in the two serial runs; the proof has one lemma for
each step and each part, over what the step does to the handler's record.

## Conversation monitor

`ConversationMonitor` is `conversation_monitor.py`, which two processes import: the
compat proxy captures and reports, the console changes the policy and lists the table.
They share the database and nothing else.

| variable | in the code |
|---|---|
| `row`, `cache` | the policy in the database, and `self._policy` of each process |
| `counter`, `replay` | `self._event_counter` and the `deque` of the latest events |
| `streams` | the event streams: the backlog a client is still sent and its queue |
| `last` | the `Last-Event-ID` a client would reconnect with |
| `task` | the capture of each answer: before it, in the pool of threads, or how it ended |
| `records`, `tip` | the rows of the table with their `seq`, and the last `seq` given out |
| `clock`, `horizon` | the next `created_ts`, and the age limit |
| `reader` | an administrator who pages through the listing |
| `refused` | history: events the full queue of a client refused |

`Capture` is the handler up to the thread: it reads the policy, publishes the event and
hands the write over with the capacity of that moment. `StartPersist` takes the time,
`Store` or `StoreFails` is the transaction, with the two deletions of retention in it,
and `Report` publishes the drop. `Connect` takes the backlog and subscribes in one step,
as `sse` does without an await. `Restart` empties what is in memory. An event is its
number and carries nothing.

The run `monitor` has two answers of one credential, since limits, order and paging
compare two; buffers of two and a queue of one, so that both overflow; two changes of
the policy, and one restart of either process. It shows, besides `TypeOK`:

- `CaptureFollowsPolicy`: a credential the console took off the list is not captured a
  moment later by the other process, if that one can read the database.
- `StreamComplete`: a client gets every event once and in order, over the backlog, the
  live queue, reconnects and restarts, and what is in the buffer and not refused by its
  queue is on its way.
- `ListingComplete`: a reader who follows `next_cursor` misses nothing that stays.
- `StoredIsKept`, `StoredOrReported`: what was written is there, and what is not is
  reported, unless the process ends. The fairness assumed is that the threads of the
  pool run and that the loop resumes a capture after them.

Disagreements, none of which needs a run:

- The `reset` event is never sent: its condition (`conversation_monitor.py:667`, here
  `ResetDue`) asks that nothing in the buffer is beyond the client's last event and that
  the oldest event in the buffer is. `docs/design/conversation-monitor.md:136` and `:155`
  say that a reset is sent when the replay cannot fill the gap. A client that
  reconnects after the buffer went round, or after a restart, does not learn that it
  missed events: `StreamComplete` speaks of what is in the buffer only.
- Captures and drops are published in the proxy's process and changes of the policy in
  the console's, so the live view of the console shows no capture, and its summary
  counts none.
- When the policy cannot be read the cached one stays in force (`Refreshed`), although
  the design (line 153) says that the default is off.
- The design (line 130) says that a change affects new requests only; the decision is
  taken when the answer ends, so it affects those under way.
- The cursor of the listing is a time and an event id, the order of a page a time and
  `seq`; they agree as long as no two records have the same time, as assumed here.

`ConversationMonitor_proof` proves, for any number of answers, clients, credentials,
changes and restarts:

- `CapturesFollowThePolicy`, from `PolicyInv`: the console knows the row, since only it
  writes it, and a cache is never ahead of the row and is the row if the versions agree.
- `StreamsAreComplete`, from `EventInv`: a buffer is in order and ends with the counter at
  most (`Buffered`); what a client waits for is in order, beyond what it has, and
  includes what the buffer has beyond it, but for what its queue refused (`Served`).
- `ListingsAreComplete` and `WhatIsStoredIsKept`, from `KeepInv`: numbers and times tell
  conversations apart, in the table and on their way (`Apart`), and what a reader wants
  is seen or before its cursor (`Paging`). The page, the backlog and the two deletions
  of retention choose least elements and suffixes; the lemma `Least` gives them.
- `TypeCorrect`, with the limits of buffers and queues.

`StoredOrReported` is liveness and stays with TLC.

## Compat proxy and context policy

`ContextPolicy` is the second policy of that module, which both processes create or
migrate when they start: every statement that SQLite commits by itself is a step.
`ContextOptimizer` has the rules a request passes, as operators on sequences of
messages. `CompatProxy` composes the two with requests, answers and chunks.

| variable | in the code |
|---|---|
| `columns`, `stored` | the image columns of the table, and its row |
| `proc` | how far `_init_db` has come in each process |
| `known`, `checked` | `self._context_policy`, and whether it was read less than a second ago |
| `talk`, `sent` | the conversation of a client, and what was last forwarded of it |
| `answer` | an answer on its way: the pieces to come, the chunk that has, the buffered line, what went out |
| `probe` | an input of the rules for tool results |
| `traffic` | which of these a behaviour is about: they share no state but the policy |

The run `compat`. *Start*: a new database, or one with a row and without the columns.
`EveryoneStarts`: both processes run in the end, as containers are restarted (weak
fairness of the steps of a start); `StartKeepsPolicy`: no start changes the version, the
mode or the list of credentials of a row that is there, and once the process that added
the last column has seeded the image fields, nothing but a change of the policy alters
the row; `CacheConverges`: who reads it again has what the database has.
*Requests*: conversations of up to four messages, the least that has two user messages
with images before and after. `ImagesRight` relates what is removed to the limit of the
model, to `keep_last` and to the images just shown, `EvictionMonotone` one request to
the next of the same conversation, `NormalizedRight` the recursion over the messages to a
definition by places: which messages begin one of the normal form (`heads`), and which
join it. A part carries the place it was said at, so that the order of all parts is in
the property. *Answers*: three lines for two choices, cut into chunks of one to three
pieces (three can hold two line ends), broken off between any two lines or before the
first: `AnswerRight`. The lines of a chunk go out one by one, as the generator yields.
Requests that force several tools are rejected, and arguments in DSML are turned into
JSON in the history and in JSON answers; how a single tool is forced is not modelled.
A JSON answer that breaks off raises out of the handler (`BreakJson`) and is not
captured, unlike a stream that does.
*Texts*: `TextRulesShrink` over lines of three lengths, four at most, with limits around
their sizes; a line is its length, and `FoldRound` is one round of the loop that folds.

Disagreements, none of which needs a run:

- Eviction is not monotone when tools return images after the last user message, as the
  module's docstring (lines 22 to 24) would have it. With a limit of one, a user's image
  followed by a tool's evicts the tool's; when the user then goes on with a text, that
  one is back and the user's is gone. `EvictionMonotone` assumes `ShownLast`.
- The fixer of `finish_reason` tells choices apart by their position in a line
  (`compat_proxy.py:304`) and not by their `index`, though its docstring speaks of
  each choice. Both agree while a line has one choice.
- A broken stream is captured as not truncated.
- The seeding of new columns is a statement of its own: when a process ends between
  the last `ALTER` and it, the defaults of the columns stay, which the comment at line
  241 means to rule out. And when the other process changed the policy in between, the
  late seeding overwrites its image fields (`Seed`), although what the database has is
  meant to stand once it is there (lines 241 and 242); the version stays, and this is
  why `Fresher` compares with "not older". `StartKeepsPolicy` therefore speaks of the
  image fields only after the migration (`Migrated`): the loss is possible once, at the
  first start of a version that adds the columns.
- The console fills the fields a client did not send from what it knows, not from the
  row (`NextContext`).

`ContextPolicy_proof` proves `StartKeepsPolicy` and `CacheConverges` for every policy and
every number of changes. A process that is adding columns misses none but those of the
table, so that with all of them there every addition fails, and only who added the last
one is late. The invariant `PolicyInv` says that a process which is starting
knows the first version, and that one which runs knows no later version than the
database has; one lemma for each statement shows that it moves one process only
(`OneMoves`).

`CompatProxy_proof` proves `AnswersAreRight` for every set of lines, every length of an
answer and of its chunks, and every limit of the capture. The invariant `StreamInv` says
where the bytes of the answer are: what went out, the buffered line, the chunk and the
rest are the whole, in this order (`Whole`). The place of the next piece then tells
whether it is a line or its end (`NextPiece`), so that the line that goes out is the next
one and the fixer has seen exactly the lines up to it (`PassedOn`).

The rest of the module is about requests and tool results, for conversations and texts of
any length. The provers have no induction over recursive definitions, so two things are
done by hand: each recursion is shown to have a solution, from which its equations follow
(`Recursion`), and an induction is the least counterexample among the numbers up to the
length (`LeastNumber`, `Upward`).

- `ImagesAreRight`. The images before one of a finite set number its place in it
  (`Ranks`), so the n oldest are n, and what an eviction leaves can be counted; what it
  leaves is later than what it takes (`OldestFirst`). The
  invariant `RequestInv` says that the body is what the rules make of a beginning of the
  conversation under a valid policy.
- `EvictionsAreMonotone`. While nothing has an image after what the user said last, an
  eviction is the oldest `Quota` images (`PlanIsOldest`); the quota grows with the images
  (`QuotaGrows`), the normal form of a conversation goes on from that of its beginning
  (`NormalizedContinues`), and new images come after old ones, so the oldest of the
  beginning are among the oldest of the whole (`Lengthened`).
- `NormalizedIsRight`. After n messages the recursion has what the definition says of
  the first n (`Normal`): a message that is no system message begins one (`HeadPlaced`), a
  system message joins the last user message (`JoinPlaced`), whose joined messages are
  then one more, all others staying.
- `TextsShrink`. After each round of the loop the pairs stand for the lines before its
  index, in no more bytes than these (`Rounds`); n rounds come past line n.

## Admin login

`AdminLogin` is both logins with the failure window they share, one-time codes, the
management of the second factor, and sessions. A request in a slot is a handler that
awaits its body or LiteLLM, with what it read before; between awaits handlers run alone.

| variable | in the code |
|---|---|
| `account` | `ADMIN_EMAIL` and `ADMIN_PASSWORD`: both, the address alone, or none; any of the three at the start, fixed then |
| `fails` | `_login_fails`: start and count of the window of an address |
| `used` | `_totp_used`, the steps whose codes were accepted |
| `secrets` | the state file: secret in force and pending secret |
| `sessions` | `sessions.db` |
| `handler` | the handlers under way: kind, secret read, and which list of failures they hold |
| `clock`, `high` | the time in steps of 30 seconds; it may be set back by one step |
| `proofs`, `reused`, `guesses` | history: accepted codes, whether one was accepted twice, failures in the present window |

A handler keeps the list of failures it read; once `_login_fails` holds another list for
the address, what is counted on the old one is lost (`Detached`). The bound of
`GuessesBounded` counts this: each of the requests under way may begin the window once
more, and lose those begun before. With two requests it is reached; that it holds for
three was checked apart. All of it, and the limit itself, is for requests that are
answered within a step: no tick of the clock while one is under way (`Quiet`). A request
older than its window, which the code does not rule out, may count where no guess of
this model does.

Who may become an administrator depends on `account`. With both parts, by
`api_admin_login` alone. With the address alone `api_admin_login` answers 503 and keys
get the role user, so nobody. Without an address `api_login` asks LiteLLM whether the
key is the master key, and gives it an administrator's session with neither password
nor code, whether or not a second factor is in force (`KeyRoles`): the fallback that
`docs/runbook.md:31` and `SECURITY.md:47` document and tell operators to close.
`LoginProven` therefore claims a code only for an account that has its address.

The run `login` has two requests from one address, two secrets and three steps of the
clock, which is the tolerance of a code on both sides; it shows `CodeOnce`,
`GuessesBounded` and `LoginProven`. One address, as windows of two share nothing.
All three accounts are initial states. No fairness is assumed.

Observations:

- `api_2fa_disable` reads the secret before it awaits the body (`BeginChange`): when
  another session confirms a new secret meanwhile, a code of the old one removes the new.
  `LoginProven` is about logins and about secrets coming into force.
- Used codes are kept in memory and forgotten by a restart of the console, so that a
  code can be used again within its tolerance; they are shared by all secrets, so that
  a new secret cannot be confirmed in the step of a login.

`AdminLogin_proof` proves, for any number of requests, addresses, sessions and secrets:
`CodesAreOneTime` and `LoginsAreProven`, from the invariant `LoginInv`: a code once
accepted is remembered or too old by every clock to come (`CodesInv`), which holds as the
clock is never more than a step behind its latest time (`ClockInv`); and, for the second,
`AccountInv`: a login with a password is under way only if the account is complete. And `TypeCorrect`:
a handler holds the list of an address only while that list runs.

`GuessesAreBounded`: with N slots and a limit L, at most N(L-1) + N(N+1)/2 failures in the
window of an address, under `Quiet` as above. It counts handlers, so the invariant `GuessInv` weighs them: the
failures so far, and those still to come from the handlers that hold the list in force,
that hold none yet and may begin a new one, and whose list is lost (`Weight`). Each step
of each handler leaves the weight or lessens it, and an empty window starts below the
bound.

## What is proved, and what stays with TLC

Every theorem holds for every value of the constants that its module's named assumptions
allow, without bounds on sites, keys, requests, clients or lengths; what else it
assumes about faults and habits it says. With TLC stay:

- `EveryRequestAnswered`, `StoredOrReported`, `EveryoneStarts`: liveness under fairness,
  which the prover cannot state (`ENABLED`).
- `PeersArePersisted`, which the code violates.

## What is abstracted or left out

- In `Onboarding` the groups column and tags, which `SiteAdmin` has; the order of a
  site's models (a set); the display timestamp `latest_probe`.
- In `SiteAdmin` every site has one port, so that an api_base is its site; rate limits
  and timeouts copied from one deployment to the next; probes of the upstream, which
  only end a request early; blocking of keys, their model lists and the vault; the
  limit of 100 keys that `key_list_full` lists, beyond which keys are not rebound.
  `api_sites_revoke` is one step, its interleavings are in `Onboarding`.
- `write_text` is atomic here; a crash in the middle of it, which truncates the file,
  is not modelled. Nor is a missing `wg0.conf`, which `deploy.sh` rules out.
- Of an MCP entry: url, credential, prefix, and the order of entries (the hub and the
  preflight connect them in any order, so every order of a collision is covered). A
  tool is named by its full name, prefix included. The check that a group exists
  before an entry is bound to it is in `SiteAdmin`.
- The WireGuard entrypoint adopting an interface that is already up changes nothing.
- What the console does around a Direct registration is reduced to two environment
  steps, `StageDirect` and `UnstageDirect`.
- In `ConversationMonitor` the content of events, redaction, filters of the listing, the
  detail of a record and the summary, which only read; a stream whose client goes away
  before its first chunk. In `ContextPolicy` errors of the database.
- In `CompatProxy` the streams of the Anthropic protocol beyond their capture, which are
  passed on unchanged; DSML is told apart by kinds, not parsed.
- In `AdminLogin` the secret preset in the environment, the migration of the session
  table, and a restart of the console.
- The vault, and the uploads of the hub. The Anthropic and OpenAI clients, LiteLLM,
  WireGuard and Docker appear only as what the code calls.
- Not modelled at all: usage SQL and dashboards, the metrics adapter (stateless),
  static pages, the brand generator, nginx, deploy and release scripts (run once by
  an operator), benchmark tools.
