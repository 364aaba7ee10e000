------------------------------ MODULE SiteAdmin -------------------------------
(***************************************************************************)
(* How console.py edits the models and groups of sites.  LiteLLM holds the *)
(* deployments and the keys, onboardd the site registry, external-mcp.json *)
(* the MCP entries; the console keeps nothing but the local variables of   *)
(* its handlers.  An action is what a handler does from one call to the    *)
(* next; several handlers interleave, and between two calls of one of them *)
(* the stores change under it.                                             *)
(***************************************************************************)
EXTENDS Deployments

CONSTANTS
    DirectSites,   \* the sites reached at an address of their own
    Keys, Entries, \* virtual keys; external MCP servers
    Requests,      \* handlers that may be under way together
    Asked,         \* the jobs administrators may ask for, a subset of Jobs
    None,
    Habits,        \* {"serial"}: administrators send one request at a time
    Faults,        \* what may fail, a subset of AllFaults
    First,         \* the sets of deployments a portal may start with
    FirstId,       \* the first id that LiteLLM has not used then
    LastId         \* bound on the ids it uses

(* refused: a write to LiteLLM fails; lost: it is done but answered with   *)
(* an error; lists: a listing fails and reads as empty; noId: /model/new   *)
(* answers 200 without an id; onboardd: it cannot be reached; mcp: the     *)
(* registry of MCP servers is rolled back (see McpRegistry).               *)
AllFaults == {"refused", "lost", "lists", "noId", "onboardd", "mcp"}

OneSite == {"groups", "add", "refresh", "remove"}
Retags  == {"groups", "create", "rename", "delete"}
Locked  == {"rename", "bind"}
Groupwise == {"create", "rename", "delete", "bind"}

Jobs == [op : {"groups"}, site : Sites, groups : SUBSET Groups]
   \cup [op : {"add", "refresh"}, site : Sites, model : Models]
   \cup [op : {"remove"}, site : Sites, name : Names]
   \cup [op : {"alias"}, alias : Names, target : Names]
   \cup [op : {"direct"}, site : DirectSites, groups : SUBSET Groups,
         models : SUBSET Models \ {{}}]
   \cup [op : {"create"}, group : Groups, members : SUBSET Sites \ {{}}]
   \cup [op : {"delete"}, group : Groups]
   \cup [op : {"rename"}, group : Groups, to : Groups]
   \cup [op : {"bind"}, entry : Entries, groups : SUBSET Groups]

Row == [live : BOOLEAN, models : SUBSET Models, groups : SUBSET Groups]

Phases == {"idle", "deployments", "keys", "sites", "list", "new", "find",
           "delete", "models", "cleanup", "rebind", "unbind", "mcp"}

ASSUME SitesAssumption  == DirectSites \subseteq Sites
ASSUME JobsAssumption   == Asked \subseteq Jobs
ASSUME FaultsAssumption == Faults \subseteq AllFaults
ASSUME FirstAssumption  ==
    /\ FirstId \in Nat \ {0} /\ LastId \in Nat
    /\ \A ds \in First :
        /\ ds \subseteq Deployments /\ Uniform(ds)
        /\ \A d \in ds : d.id < FirstId
        /\ \A d, e \in ds : d.id = e.id => d = e
ASSUME NoneAssumption   ==
    /\ None \notin Groups \cup {"default"} /\ None \notin Requests
    /\ None \notin Sites /\ None \notin Row /\ None \notin Asked /\ None \notin Deployments

VARIABLES
    sites,     \* onboardd's registry: site -> row, None: no row
    deps,      \* LiteLLM's deployments
    nextId,    \* LiteLLM does not use an id twice
    keys,      \* key -> its metadata.group, None: no such key
    mcp,       \* MCP entry -> the groups it is bound to, {}: global
    lock,      \* holder of _mcp_config_lock
    ops,       \* request -> its handler
    promised   \* <<site, name>> an administrator was told is served, and
               \* nobody has asked to take away since (history variable)

litellm == <<deps, nextId>>
vars == <<sites, deps, nextId, keys, mcp, lock, ops, promised>>

NoRows == [s \in Sites |-> None]
NoKeys == [k \in Keys |-> None]

Idle == [phase |-> "idle", job |-> None,
         rows |-> NoRows,     \* the registry as read
         seen |-> {},         \* the deployments as read
         todo |-> {},         \* sites still to retag
         site |-> None,       \* the one being retagged ...
         tags |-> {},         \* ... and its new tags
         work |-> {},         \* deployments still to create or replace
         old |-> None,        \* the one to delete next; of a Direct registration,
                              \* the one whose creation gave no id
         made |-> {},         \* ids created so far
         bound |-> {},        \* keys still to rebind, as read
         moved |-> {},        \* keys rebound
         errors |-> FALSE,
         found |-> None,      \* the stores at the start (history)
         answer |-> None]

Portals == [sites : [Sites -> Row \cup {None}], deps : SUBSET Deployments,
            keys : [Keys -> Groups \cup {"default", None}]]

Handlers == [phase : Phases, job : Asked \cup {None},
             rows : [Sites -> Row \cup {None}], seen : SUBSET Deployments,
             todo : SUBSET Sites, site : Sites \cup {None},
             tags : SUBSET Groups, work : SUBSET Deployments,
             old : Deployments \cup {None}, made : SUBSET Nat,
             bound : SUBSET Keys, moved : SUBSET Keys, errors : BOOLEAN,
             found : Portals \cup {None},
             answer : {"ok", "failed", "refused", None}]

Live(row) == row # None /\ row.live

Served(ds) == {<<d.site, d.name>> : d \in ds}

(* The registry row of a site says what LiteLLM holds for it.              *)
Agrees(row, ds) == /\ row.models = ModelsOf(ds)
                   /\ \A d \in ds : d.tags = row.groups

(* A portal whose stores agree.                                            *)
Init == /\ deps \in First
        /\ nextId = FirstId
        /\ sites = [s \in Sites |->
                LET ds == Of(s, deps)
                IN IF s \in DirectSites /\ ds = {} THEN None
                   ELSE [live |-> TRUE, models |-> ModelsOf(ds),
                         groups |-> TagsOf(ds)]]
        /\ keys \in [Keys -> Groups \cup {"default", None}]
        /\ mcp \in [Entries -> SUBSET Groups]
        /\ lock = None
        /\ ops = [r \in Requests |-> Idle]
        /\ promised = Served(deps)

-------------------------------------------------------------------------------
(* Calls *)

At(r, phase) == ops[r].phase = phase
Does(r, jobs) == ops[r].job # None /\ ops[r].job.op \in jobs
Step(r, op) == ops' = [ops EXCEPT ![r] = op] /\ UNCHANGED lock

(* The handler answers; rename and bind leave the lock.                    *)
Answer(r, answer) ==
    /\ ops' = [ops EXCEPT ![r] = [Idle EXCEPT !.answer = answer]]
    /\ lock' = IF lock = r THEN None ELSE lock

Admitted == "serial" \in Habits => \A q \in Requests : At(q, "idle")

(* A listing that fails reads as an empty one.                             *)
Read(store, nothing) == {store} \cup IF "lists" \in Faults THEN {nothing} ELSE {}

(* POST /model/new, /model/delete and /key/update.  Only "ok" is told from *)
(* the rest by the console.                                                *)
Answers == {"ok", "refused", "lost"}

Creates(d, answer) ==
    /\ answer \in {"ok"} \cup Faults
    /\ IF answer = "refused"
       THEN UNCHANGED litellm
       ELSE /\ nextId <= LastId
            /\ deps' = deps \cup {[d EXCEPT !.id = nextId]}
            /\ nextId' = nextId + 1

Deletes(id, answer) ==
    /\ IF \E d \in deps : d.id = id
       THEN /\ answer \in {"ok"} \cup Faults
            /\ deps' = IF answer = "refused" THEN deps
                                             ELSE {d \in deps : d.id # id}
       ELSE answer = "refused" /\ UNCHANGED deps
    /\ UNCHANGED nextId

Rebinds(k, group, answer) ==
    IF keys[k] # None
    THEN /\ answer \in {"ok"} \cup Faults
         /\ keys' = IF answer = "refused" THEN keys
                                          ELSE [keys EXCEPT ![k] = group]
    ELSE answer = "refused" /\ UNCHANGED keys

(* A call to onboardd that writes a row: UPDATE ... WHERE name = s.  When  *)
(* it fails nothing catches the exception, and the handler ends.           *)
Updates(s, row, reached) ==
    /\ ~reached => "onboardd" \in Faults
    /\ \/ sites' = [sites EXCEPT ![s] = IF @ = None THEN None ELSE row]
       \/ ~reached /\ UNCHANGED sites

-------------------------------------------------------------------------------
(* Every handler first reads the registry of sites. *)

(* group_snapshot: the groups that exist are those something is in.        *)
GroupsOf(rows, ds, ks, entries) ==
    (UNION {rows[s].groups \cup TagsOf(Of(s, ds)) :
               s \in {x \in Sites : Live(rows[x])}})
    \cup ({ks[k] : k \in Keys} \ {None, "default"})
    \cup (UNION {entries[e] : e \in Entries})

(* _site_row_or_error, and the address check of api_sites_direct.          *)
Rejected(job, rows) ==
    \/ job.op \in OneSite /\ ~Live(rows[job.site])
    \/ job.op = "direct" /\ Live(rows[job.site])

Start(r) ==
    /\ At(r, "idle") /\ Admitted
    /\ \E job \in Asked, rows \in Read(sites, NoRows) :
        /\ job.op \in Locked => lock = None
        /\ IF Rejected(job, rows)
           THEN Answer(r, "refused")
           ELSE /\ ops' = [ops EXCEPT ![r] = [Idle EXCEPT
                    !.phase = IF job.op \in Groupwise THEN "deployments"
                                                      ELSE "list",
                    !.job = job,
                    !.rows = rows,
                    !.site = IF job.op = "groups" THEN job.site ELSE None,
                    !.tags = IF job.op = "groups" THEN job.groups ELSE {},
                    !.found = IF "serial" \in Habits
                              THEN [sites |-> sites, deps |-> deps, keys |-> keys]
                              ELSE None]]
                /\ lock' = IF job.op \in Locked THEN r ELSE lock
    /\ UNCHANGED <<sites, litellm, keys, mcp, promised>>

ReadDeployments(r) ==
    /\ At(r, "deployments")
    /\ \E seen \in Read(deps, {}) :
          Step(r, [ops[r] EXCEPT !.phase = "keys", !.seen = seen])
    /\ UNCHANGED <<sites, litellm, keys, mcp, promised>>

\* Mutant: a rename does not ask whether the new name is in use.
Accepted_NoClash(op, ks) ==
    LET job == op.job
        known == GroupsOf(op.rows, op.seen, ks, mcp)
    IN CASE job.op = "create" -> job.group \notin known
         [] job.op = "rename" -> job.group \in known
         [] job.op = "delete" -> /\ \A k \in Keys : ks[k] # job.group
                                 /\ \A e \in Entries : job.group \notin mcp[e]
         [] OTHER -> TRUE

\* Mutant: a delete asks only whether keys are bound to the group.
Accepted_KeysOnly(op, ks) ==
    LET known == GroupsOf(op.rows, op.seen, ks, mcp)
    IN CASE op.job.op \in {"create", "bind"} -> TRUE
         [] op.job.op = "rename" -> op.job.group \in known /\ op.job.to \notin known
         [] OTHER -> \A k \in Keys : ks[k] # op.job.group

(* Whether the job goes on, when the keys ks have been listed.             *)
Accepted(op, ks) ==
    LET job == op.job
        known == GroupsOf(op.rows, op.seen, ks, mcp)
    IN CASE job.op = "create" -> /\ job.group \notin known
                                 /\ \A s \in job.members : Live(op.rows[s])
         [] job.op = "rename" -> job.group \in known /\ job.to \notin known
         [] job.op = "delete" -> /\ job.group \in known
                                 /\ \A k \in Keys : ks[k] # job.group
                                 /\ \A e \in Entries : job.group \notin mcp[e]
         [] OTHER -> job.groups \subseteq known

ReadKeys(r) ==
    /\ At(r, "keys")
    /\ \E ks \in Read(keys, NoKeys) :
        IF ~Accepted(ops[r], ks)
        THEN Answer(r, "refused")
        ELSE Step(r, [ops[r] EXCEPT
                !.phase = IF Does(r, {"bind"}) THEN "mcp" ELSE "sites",
                !.seen = {},
                !.todo = CASE Does(r, {"create"}) -> ops[r].job.members
                           [] Does(r, {"bind"})   -> {}
                           [] OTHER -> {s \in Sites : ops[r].rows[s] # None},
                !.bound = IF Does(r, {"rename"})
                          THEN {k \in Keys : ks[k] = ops[r].job.group}
                          ELSE {}])
    /\ UNCHANGED <<sites, litellm, keys, mcp, promised>>

-------------------------------------------------------------------------------
(* Retagging: every deployment is created anew and the old one deleted. *)

(* What the groups of a site become that are current now.                  *)
NewGroups(job, current) ==
    CASE job.op = "create" -> current \cup {job.group}
      [] job.op = "delete" -> current \ {job.group}
      [] job.op = "rename" -> (current \ {job.group}) \cup {job.to}
      [] OTHER             -> job.groups

(* site_current_tags; renaming and deleting pass over sites without the tag.*)
NextSite(r) ==
    /\ At(r, "sites")
    /\ \E s \in ops[r].todo, listed \in Read(deps, {}) :
        LET current == TagsOf(Of(s, listed))
            op == [ops[r] EXCEPT !.todo = @ \ {s}]
        IN Step(r, IF Does(r, {"create"}) \/ ops[r].job.group \in current
                   THEN [op EXCEPT !.phase = "list", !.site = s,
                                   !.tags = NewGroups(ops[r].job, current)]
                   ELSE op)
    /\ UNCHANGED <<sites, litellm, keys, mcp, promised>>

ListForRetag(r) ==
    /\ At(r, "list") /\ Does(r, Retags)
    /\ \E listed \in Read(deps, {}) :
          Step(r, [ops[r] EXCEPT !.phase = "new",
                                 !.work = Of(ops[r].site, listed)])
    /\ UNCHANGED <<sites, litellm, keys, mcp, promised>>

\* Mutant: without the "continue" after a failed creation.
Replace_DeletesAnyway(r, answer) ==
    /\ At(r, "new") /\ Does(r, Retags \cup {"refresh"})
    /\ \E d \in ops[r].work :
        /\ Creates([d EXCEPT !.tags = ops[r].tags], answer)
        /\ Step(r, [ops[r] EXCEPT !.phase = "delete", !.old = d,
                                  !.errors = @ \/ answer # "ok"])
    /\ UNCHANGED <<sites, keys, mcp, promised>>

(* The deployment that takes the place of d.                               *)
Replacement(op, d) ==
    IF op.job.op = "refresh" THEN [d EXCEPT !.upstream = op.job.model.upstream]
                             ELSE [d EXCEPT !.tags = op.tags]

Replace(r, answer) ==
    /\ At(r, "new") /\ Does(r, Retags \cup {"refresh"})
    /\ \E d \in ops[r].work :
        /\ Creates(Replacement(ops[r], d), answer)
        /\ CASE answer = "ok" ->
                  Step(r, [ops[r] EXCEPT !.phase = "delete", !.old = d])
             [] answer # "ok" /\ Does(r, Retags) ->
                  Step(r, [ops[r] EXCEPT !.work = @ \ {d}, !.errors = TRUE])
             [] OTHER -> Answer(r, "failed")
    /\ UNCHANGED <<sites, keys, mcp, promised>>

DeleteReplaced(r, answer) ==
    /\ At(r, "delete") /\ Does(r, Retags)
    /\ Deletes(ops[r].old.id, answer)
    /\ Step(r, [ops[r] EXCEPT !.phase = "new", !.old = None,
                              !.work = @ \ {ops[r].old},
                              !.errors = @ \/ answer # "ok"])
    /\ UNCHANGED <<sites, keys, mcp, promised>>

(* sync_onboard_group, with what the registry said at the start.           *)
SyncGroups(r, reached) ==
    LET op == ops[r]
        s  == op.site
    IN /\ At(r, "new") /\ Does(r, Retags) /\ op.work = {}
       /\ Does(r, {"groups"}) => ~op.errors
       /\ Updates(s, [sites[s] EXCEPT
                        !.groups = NewGroups(op.job, op.rows[s].groups)], reached)
       /\ CASE ~reached -> Answer(r, "failed")
            [] reached /\ Does(r, {"groups"}) -> Answer(r, "ok")
            [] OTHER -> Step(r, [op EXCEPT !.phase = "sites", !.site = None,
                                           !.tags = {}])
       /\ UNCHANGED <<litellm, keys, mcp, promised>>

(* api_sites_groups stops before it when a deployment failed.              *)
GroupsFail(r) ==
    /\ At(r, "new") /\ Does(r, {"groups"})
    /\ ops[r].work = {} /\ ops[r].errors
    /\ Answer(r, "failed")
    /\ UNCHANGED <<sites, litellm, keys, mcp, promised>>

\* Mutant: the keys are moved although a site could not be retagged.
SitesDone_IgnoresErrors(r) ==
    /\ At(r, "sites") /\ ops[r].todo = {}
    /\ IF Does(r, {"rename"}) THEN Step(r, [ops[r] EXCEPT !.phase = "rebind"])
                              ELSE Answer(r, "ok")
    /\ UNCHANGED <<sites, litellm, keys, mcp, promised>>

(* All sites done: a rename goes on with the keys.                         *)
SitesDone(r) ==
    /\ At(r, "sites") /\ ops[r].todo = {}
    /\ CASE ops[r].errors -> Answer(r, "failed")
         [] ~ops[r].errors /\ Does(r, {"rename"}) ->
                Step(r, [ops[r] EXCEPT !.phase = "rebind"])
         [] OTHER -> Answer(r, "ok")
    /\ UNCHANGED <<sites, litellm, keys, mcp, promised>>

-------------------------------------------------------------------------------
(* Models of one site.  Every handler lists the deployments of the site and*)
(* in the end writes that list, edited, over the models of its row.        *)

Listed(name, ds) == {d \in ds : d.name = name}

ListForAdd(r) ==
    /\ At(r, "list") /\ Does(r, {"add"})
    /\ \E listed \in Read(deps, {}) :
        LET job == ops[r].job
            mine == Of(job.site, listed)
        IN IF Listed(job.model.name, mine) # {}
           THEN Answer(r, "refused")
           ELSE Step(r, [ops[r] EXCEPT
                    !.phase = "new", !.seen = mine,
                    !.work = {[id |-> 0, name |-> job.model.name,
                               upstream |-> job.model.upstream,
                               site |-> job.site,
                               tags |-> TagsOf(mine)
                                   \cup ops[r].rows[job.site].groups]}])
    /\ UNCHANGED <<sites, litellm, keys, mcp, promised>>

CreateAdded(r, answer) ==
    /\ At(r, "new") /\ Does(r, {"add"})
    /\ \E d \in ops[r].work : Creates(d, answer)
    /\ IF answer = "ok"
       THEN /\ Step(r, [ops[r] EXCEPT !.phase = "models", !.work = {}])
            /\ promised' = promised \cup {<<ops[r].job.site, ops[r].job.model.name>>}
       ELSE Answer(r, "failed") /\ UNCHANGED promised
    /\ UNCHANGED <<sites, keys, mcp>>

(* Of two deployments of the name the first one listed is taken.           *)
ListForRefresh(r) ==
    /\ At(r, "list") /\ Does(r, {"refresh"})
    /\ \E listed \in Read(deps, {}) :
        LET model == ops[r].job.model
            mine == Of(ops[r].job.site, listed)
        IN \/ /\ Listed(model.name, mine) = {}
              /\ Answer(r, "refused")
           \/ \E d \in Listed(model.name, mine) :
                IF d.upstream = model.upstream
                THEN Answer(r, "ok")
                ELSE Step(r, [ops[r] EXCEPT !.phase = "new", !.seen = mine,
                                            !.work = {d}])
    /\ UNCHANGED <<sites, litellm, keys, mcp, promised>>

DeleteRefreshed(r, answer) ==
    /\ At(r, "delete") /\ Does(r, {"refresh"})
    /\ Deletes(ops[r].old.id, answer)
    /\ IF answer = "ok" THEN Step(r, [ops[r] EXCEPT !.phase = "models"])
                        ELSE Answer(r, "failed")
    /\ UNCHANGED <<sites, keys, mcp, promised>>

ListForRemove(r) ==
    /\ At(r, "list") /\ Does(r, {"remove"})
    /\ \E listed \in Read(deps, {}) :
        LET job == ops[r].job
            mine == Of(job.site, listed)
        IN \/ /\ Listed(job.name, mine) = {}
              /\ Answer(r, "refused")
              /\ UNCHANGED promised
           \/ \E d \in Listed(job.name, mine) :
              /\ Step(r, [ops[r] EXCEPT !.phase = "delete", !.seen = mine,
                                        !.old = d])
              /\ promised' = promised \ {<<job.site, job.name>>}
    /\ UNCHANGED <<sites, litellm, keys, mcp>>

DeleteRemoved(r, answer) ==
    /\ At(r, "delete") /\ Does(r, {"remove"})
    /\ Deletes(ops[r].old.id, answer)
    /\ IF answer = "ok" THEN Step(r, [ops[r] EXCEPT !.phase = "models"])
                        ELSE Answer(r, "failed")
    /\ UNCHANGED <<sites, keys, mcp, promised>>

\* Mutant: the refreshed model is added to the list, not put in its place.
ModelsAfter_KeepsOld(op) ==
    IF op.job.op = "remove" THEN ModelsOf(op.seen \ {op.old})
                            ELSE ModelsOf(op.seen) \cup {op.job.model}

(* sync_onboard_models.                                                    *)
ModelsAfter(op) ==
    CASE op.job.op = "add"    -> ModelsOf(op.seen) \cup {op.job.model}
      [] op.job.op = "remove" -> ModelsOf(op.seen \ {op.old})
      [] OTHER -> ModelsOf(op.seen \ {op.old}) \cup {op.job.model}

SyncModels(r, reached) ==
    LET s == ops[r].job.site
    IN /\ At(r, "models")
       /\ Updates(s, [sites[s] EXCEPT !.models = ModelsAfter(ops[r])], reached)
       /\ Answer(r, IF reached THEN "ok" ELSE "failed")
       /\ UNCHANGED <<litellm, keys, mcp, promised>>

-------------------------------------------------------------------------------
(* Aliases: every deployment of the target is created under a second name; *)
(* the registry is not told.                                               *)

ListForAlias(r) ==
    /\ At(r, "list") /\ Does(r, {"alias"})
    /\ \E listed \in Read(deps, {}) :
        LET job == ops[r].job
        IN IF Listed(job.alias, listed) # {} \/ Listed(job.target, listed) = {}
           THEN Answer(r, "refused")
           ELSE Step(r, [ops[r] EXCEPT !.phase = "new",
                    !.work = {[d EXCEPT !.name = job.alias] :
                                 d \in Listed(job.target, listed)}])
    /\ UNCHANGED <<sites, litellm, keys, mcp, promised>>

CreateAlias(r, answer) ==
    /\ At(r, "new") /\ Does(r, {"alias"})
    /\ \E d \in ops[r].work :
        /\ Creates(d, answer)
        /\ Step(r, [ops[r] EXCEPT
                     !.work = @ \ {d},
                     !.made = IF answer = "ok" THEN @ \cup {nextId} ELSE @])
        /\ promised' = IF answer = "ok" THEN promised \cup {<<d.site, d.name>>}
                                        ELSE promised
    /\ UNCHANGED <<sites, keys, mcp>>

AliasDone(r) ==
    /\ At(r, "new") /\ Does(r, {"alias"}) /\ ops[r].work = {}
    /\ Answer(r, IF ops[r].made = {} THEN "failed" ELSE "ok")
    /\ UNCHANGED <<sites, litellm, keys, mcp, promised>>

-------------------------------------------------------------------------------
(* Direct registration: what is there already is adopted, the rest created,*)
(* and the row comes last; a failure takes back what was created.          *)

\* Mutant: what is adopted counts as created.
ListForDirect_OwnsAdopted(r) ==
    /\ At(r, "list") /\ Does(r, {"direct"})
    /\ \E listed \in Read(deps, {}) :
        LET job == ops[r].job
            mine == Of(job.site, listed)
        IN Step(r, [ops[r] EXCEPT
                !.phase = "new", !.seen = listed,
                !.made = {d.id : d \in {x \in mine : ModelsOf({x}) \subseteq job.models}},
                !.work = {[id |-> 0, name |-> x.name, upstream |-> x.upstream,
                           site |-> job.site, tags |-> job.groups] :
                            x \in job.models \ ModelsOf(mine)}])
    /\ UNCHANGED <<sites, litellm, keys, mcp, promised>>

ListForDirect(r) ==
    /\ At(r, "list") /\ Does(r, {"direct"})
    /\ \E listed \in Read(deps, {}) :
        LET job == ops[r].job
        IN Step(r, [ops[r] EXCEPT
                !.phase = "new", !.seen = listed,
                !.work = {[id |-> 0, name |-> m.name, upstream |-> m.upstream,
                           site |-> job.site, tags |-> job.groups] :
                            m \in job.models \ ModelsOf(Of(job.site, listed))}])
    /\ UNCHANGED <<sites, litellm, keys, mcp, promised>>

(* A creation without an answer ends the attempt; what it made is not      *)
(* among what is taken back.                                               *)
CreateDirect(r, answer) ==
    /\ At(r, "new") /\ Does(r, {"direct"})
    /\ \E d \in ops[r].work :
        /\ Creates(d, answer)
        /\ \/ /\ answer = "ok"
              /\ Step(r, [ops[r] EXCEPT !.work = @ \ {d}, !.made = @ \cup {nextId}])
           \/ /\ answer = "ok" /\ "noId" \in Faults
              /\ Step(r, [ops[r] EXCEPT !.phase = "find", !.old = d])
           \/ /\ answer # "ok"
              /\ Step(r, [ops[r] EXCEPT !.phase = "cleanup",
                                        !.old = IF answer = "lost" THEN d ELSE @])
    /\ UNCHANGED <<sites, keys, mcp, promised>>

(* An answer without id: any deployment of that name and address that was  *)
(* not there before is taken for the one created.                          *)
FindMade(r) ==
    /\ At(r, "find")
    /\ \E listed \in Read(deps, {}) :
        LET d == ops[r].old
            new == {e \in Of(d.site, Listed(d.name, listed)) :
                        \A f \in ops[r].seen : f.id # e.id}
        IN \/ \E e \in new :
                Step(r, [ops[r] EXCEPT !.phase = "new", !.old = None,
                                       !.work = @ \ {d}, !.made = @ \cup {e.id}])
           \/ /\ new = {}
              /\ Step(r, [ops[r] EXCEPT !.phase = "cleanup"])
    /\ UNCHANGED <<sites, litellm, keys, mcp, promised>>

(* POST /onboard/admin/direct (see Onboarding).                            *)
Register(r, reached) ==
    LET job == ops[r].job
        row == [live |-> TRUE, models |-> job.models, groups |-> job.groups]
    IN /\ At(r, "new") /\ Does(r, {"direct"}) /\ ops[r].work = {}
       /\ ~reached => "onboardd" \in Faults
       /\ \/ /\ ~Live(sites[job.site])
             /\ sites' = [sites EXCEPT ![job.site] = row]
             /\ IF reached
                THEN /\ Answer(r, "ok")
                     /\ promised' = promised \cup {<<job.site, m.name>> : m \in job.models}
                ELSE /\ Step(r, [ops[r] EXCEPT !.phase = "cleanup"])
                     /\ UNCHANGED promised
          \/ /\ Live(sites[job.site]) \/ ~reached
             /\ Step(r, [ops[r] EXCEPT !.phase = "cleanup"])
             /\ UNCHANGED <<sites, promised>>
       /\ UNCHANGED <<litellm, keys, mcp>>

CleanUp(r, answer) ==
    /\ At(r, "cleanup")
    /\ \E id \in ops[r].made :
        /\ Deletes(id, answer)
        /\ Step(r, [ops[r] EXCEPT !.made = @ \ {id},
                                  !.errors = @ \/ answer # "ok"])
    /\ UNCHANGED <<sites, keys, mcp, promised>>

CleanedUp(r) ==
    /\ At(r, "cleanup") /\ ops[r].made = {}
    /\ Answer(r, "failed")
    /\ UNCHANGED <<sites, litellm, keys, mcp, promised>>

-------------------------------------------------------------------------------
(* Keys and MCP entries of a renamed group; groups of an MCP entry. *)

(* The metadata written are those read at the start, with the new group.   *)
Rebind(r, answer) ==
    /\ At(r, "rebind")
    /\ \E k \in ops[r].bound :
        /\ Rebinds(k, ops[r].job.to, answer)
        /\ Step(r, IF answer = "ok"
                   THEN [ops[r] EXCEPT !.bound = @ \ {k}, !.moved = @ \cup {k}]
                   ELSE [ops[r] EXCEPT !.phase = "unbind"])
    /\ UNCHANGED <<sites, litellm, mcp, promised>>

Unbind(r, answer) ==
    /\ At(r, "unbind")
    /\ \E k \in ops[r].moved :
        /\ Rebinds(k, ops[r].job.group, answer)
        /\ Step(r, [ops[r] EXCEPT !.moved = @ \ {k}])
    /\ UNCHANGED <<sites, litellm, mcp, promised>>

\* Mutant: this way out of a rename keeps the lock.
Unbound_KeepsLock(r) ==
    /\ At(r, "unbind") /\ ops[r].moved = {}
    /\ Step(r, [Idle EXCEPT !.answer = "failed"])
    /\ UNCHANGED <<sites, litellm, keys, mcp, promised>>

Unbound(r) ==
    /\ At(r, "unbind") /\ ops[r].moved = {}
    /\ Answer(r, "failed")
    /\ UNCHANGED <<sites, litellm, keys, mcp, promised>>

KeysDone(r) ==
    /\ At(r, "rebind") /\ ops[r].bound = {}
    /\ Step(r, [ops[r] EXCEPT !.phase = "mcp"])
    /\ UNCHANGED <<sites, litellm, keys, mcp, promised>>

EntriesAfter(job, entries) ==
    IF job.op = "bind"
    THEN [entries EXCEPT ![job.entry] = job.groups]
    ELSE [e \in Entries |->
            IF job.group \in entries[e] THEN (entries[e] \ {job.group}) \cup {job.to}
                                        ELSE entries[e]]

(* apply_mcp_conf commits or restores, under the lock (McpRegistry); a     *)
(* rename calls it only when it moved an entry.                            *)
Commit(r) ==
    /\ At(r, "mcp")
    /\ \/ mcp' = EntriesAfter(ops[r].job, mcp) /\ Answer(r, "ok")
       \/ /\ "mcp" \in Faults
          /\ Does(r, {"bind"}) \/ EntriesAfter(ops[r].job, mcp) # mcp
          /\ UNCHANGED mcp /\ Answer(r, "failed")
    /\ UNCHANGED <<sites, litellm, keys, promised>>

-------------------------------------------------------------------------------
(* Requests that are a single call.                                        *)

api_keys_create(k, group) ==
    /\ Admitted /\ keys[k] = None
    /\ keys' = [keys EXCEPT ![k] = group]
    /\ UNCHANGED <<sites, litellm, mcp, lock, ops, promised>>

api_keys_update(k, group) ==
    /\ Admitted /\ keys[k] # None
    /\ keys' = [keys EXCEPT ![k] = group]
    /\ UNCHANGED <<sites, litellm, mcp, lock, ops, promised>>

api_keys_delete(k) ==
    /\ Admitted /\ keys[k] # None
    /\ keys' = [keys EXCEPT ![k] = None]
    /\ UNCHANGED <<sites, litellm, mcp, lock, ops, promised>>

(* api_sites_revoke passes on to onboardd, here without failures: of a     *)
(* Direct site the deployments its row names go, and the row (Onboarding). *)
api_sites_revoke(s) ==
    LET managed == {d \in Of(s, deps) :
            s \in DirectSites => ModelsOf({d}) \subseteq sites[s].models}
    IN /\ Admitted /\ sites[s] # None
       /\ deps' = deps \ managed
       /\ sites' = [sites EXCEPT ![s] =
                       IF s \in DirectSites THEN None ELSE [@ EXCEPT !.live = FALSE]]
       /\ promised' = promised \ ({s} \X Names)
       /\ UNCHANGED <<nextId, keys, mcp, lock, ops>>

Proceed(r) ==
    \/ Start(r) \/ ReadDeployments(r) \/ ReadKeys(r)
    \/ NextSite(r) \/ ListForRetag(r) \/ GroupsFail(r) \/ SitesDone(r)
    \/ ListForAdd(r) \/ ListForRefresh(r) \/ ListForRemove(r)
    \/ ListForAlias(r) \/ AliasDone(r)
    \/ ListForDirect(r) \/ FindMade(r) \/ CleanedUp(r)
    \/ Unbound(r) \/ KeysDone(r) \/ Commit(r)
    \/ \E answer \in Answers :
          \/ Replace(r, answer) \/ DeleteReplaced(r, answer)
          \/ CreateAdded(r, answer) \/ DeleteRefreshed(r, answer)
          \/ DeleteRemoved(r, answer) \/ CreateAlias(r, answer)
          \/ CreateDirect(r, answer) \/ CleanUp(r, answer)
          \/ Rebind(r, answer) \/ Unbind(r, answer)
    \/ \E reached \in BOOLEAN :
          SyncGroups(r, reached) \/ SyncModels(r, reached) \/ Register(r, reached)

Next == \/ \E r \in Requests : Proceed(r)
        \/ \E k \in Keys, g \in Groups \cup {"default"} :
              api_keys_create(k, g) \/ api_keys_update(k, g)
        \/ \E k \in Keys : api_keys_delete(k)
        \/ \E s \in Sites : api_sites_revoke(s)

Spec == Init /\ [][Next]_vars


-------------------------------------------------------------------------------
(* Properties *)

\* Types, and: who holds the lock of the MCP registry renames a group or
\* binds an entry, and whoever does so holds it (serialized_mcp_mutation):
\* every path of api_groups_rename and api_mcp_groups gives it back.
TypeOK ==
    /\ sites \in [Sites -> Row \cup {None}]
    /\ deps \subseteq Deployments /\ nextId \in Nat \ {0}
    /\ keys \in [Keys -> Groups \cup {"default", None}]
    /\ mcp \in [Entries -> SUBSET Groups]
    /\ promised \subseteq Sites \X Names
    /\ lock \in Requests \cup {None}
    /\ ops \in [Requests -> Handlers]
    /\ \A r \in Requests : /\ At(r, "idle") <=> ops[r].job = None
                           /\ Does(r, Locked) <=> lock = r

\* A model an administrator was told is served stays served until somebody
\* asks to remove it or to revoke its site: retagging and refreshing leave
\* no moment without a deployment, whatever fails and whatever other
\* requests do meanwhile ("create first, then delete": retag_site,
\* api_sites_models_refresh).
PromisesKept == \A p \in promised : \E d \in deps : d.site = p[1] /\ d.name = p[2]

Finishes(r, op, answer) ==
    /\ Does(r, {op}) /\ At(r, "idle")' /\ ops'[r].answer = answer

KeyReach(ks, ds, k) == IF ks[k] = None THEN {} ELSE Reach(ks[k], ds)

(* Every site in use has a row: what rename and delete go through.         *)
Managed(found) == \A d \in found.deps : found.sites[d.site] # None

(* They are in use even: what a new name is compared with (group_snapshot).*)
Tidy(found) == \A d \in found.deps : Live(found.sites[d.site])

\* A rename that is answered with ok moved everything: sites, keys and MCP
\* entries, so no key reaches anything else than before (api_groups_rename).
RenameKeepsReach ==
    [][\A r \in Requests : \A k \in Keys :
          LET found == ops[r].found
          IN Finishes(r, "rename", "ok") /\ Uniform(found.deps) /\ Tidy(found)
                => KeyReach(keys, deps, k)' = KeyReach(found.keys, found.deps, k)]_vars

\* At no moment of a rename, finished or given up, does a key reach a
\* deployment its group did not reach before: rolling the keys back keeps
\* the groups apart (api_groups_rename).
RenameWidensNothing ==
    \A r \in Requests : \A k \in Keys :
        Does(r, {"rename"}) /\ Uniform(ops[r].found.deps) /\ Tidy(ops[r].found)
            => KeyReach(keys, deps, k) \subseteq
                   KeyReach(ops[r].found.keys, ops[r].found.deps, k)

Synced == {"groups", "add", "refresh", "remove", "create", "rename", "direct"}

\* Where the registry agreed with LiteLLM, an operation that is answered
\* with ok leaves it in agreement ("the authority is LiteLLM, the registry
\* only has to be consistent with it", _site_models_from_deps).
OkKeepsAgreement ==
    [][\A r \in Requests : \A op \in Synced :
          LET found == ops[r].found
          IN Finishes(r, op, "ok")
                => \A s \in Sites :
                      Live(found.sites[s]) /\ Agrees(found.sites[s], Of(s, found.deps))
                          => Agrees(sites'[s], Of(s, deps'))]_vars

(* Which deployment was made can be told: by the id in the answer, or by   *)
(* the name.                                                               *)
Tells(job) == "noId" \in Faults => \A m, n \in job.models : m.name = n.name => m = n

\* A Direct registration that fails takes back the deployments it created
\* and never one that was there before it, an adopted one.  When every call
\* on the way back succeeds, one deployment can be left: the one whose own
\* creation was not answered, or answered without an id and not found
\* again; then there is just this one, and it is of the model asked for.
\* (api_sites_direct, which calls that atomic "from the console's point of
\* view".)
DirectTakesBack ==
    [][\A r \in Requests :
          LET found == ops[r].found
              unnamed == ops[r].old
          IN Does(r, {"direct"}) /\ At(r, "idle")' =>
                /\ found.deps \subseteq deps'
                /\ ops'[r].answer # "ok" /\ ~ops[r].errors /\ Tells(ops[r].job) =>
                      /\ unnamed = None => deps' = found.deps
                      /\ unnamed # None =>
                            \A d, e \in deps' \ found.deps :
                                d = e /\ d = [unnamed EXCEPT !.id = d.id]]_vars

\* After a group was deleted no key and no MCP entry is bound to it, and no
\* deployment carries it any more (api_groups_delete).
DeleteStrandsNobody ==
    [][\A r \in Requests :
          LET g == ops[r].job.group
          IN Finishes(r, "delete", "ok") /\ Managed(ops[r].found) =>
                /\ \A k \in Keys : keys'[k] # g
                /\ \A e \in Entries : g \notin mcp'[e]
                /\ g \notin TagsOf(deps')]_vars
===============================================================================
