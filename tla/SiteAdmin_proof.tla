--------------------------- MODULE SiteAdmin_proof ----------------------------
(***************************************************************************)
(* The console's edits of models, groups, keys and Direct sites.           *)
(*                                                                         *)
(* First types and the lock, and the promises that any requests keep       *)
(* together.  Then what holds of requests that come one at a time          *)
(* (Serial): the invariant SInv relates what the handler at work has done  *)
(* so far to what it found when it began, and the last step of each        *)
(* operation turns that into its property.                                 *)
(***************************************************************************)
EXTENDS SiteAdmin, TLAPS

\* What the registry keeps of deployments is well formed.
LEMMA Listing == ASSUME NEW s, NEW ds \in SUBSET Deployments
                 PROVE  /\ Of(s, ds) \subseteq ds
                        /\ TagsOf(ds) \subseteq Groups
                        /\ ModelsOf(ds) \subseteq Models
BY DEF Of, TagsOf, ModelsOf, Models, Deployments

\* Reading, a listing that failed included, gives a set of deployments.
LEMMA Reading == ASSUME TypeOK, NEW listed \in Read(deps, {})
                 PROVE  /\ listed \subseteq deps
                        /\ listed \in SUBSET Deployments
BY DEF TypeOK, Read

HandlersOK == /\ lock \in Requests \cup {None}
              /\ ops \in [Requests -> Handlers]
              /\ \A r \in Requests : /\ At(r, "idle") <=> ops[r].job = None
                                     /\ Does(r, Locked) <=> lock = r

StoresOK == /\ sites \in [Sites -> Row \cup {None}]
            /\ deps \subseteq Deployments /\ nextId \in Nat \ {0}
            /\ keys \in [Keys -> Groups \cup {"default", None}]
            /\ mcp \in [Entries -> SUBSET Groups]
            /\ promised \subseteq Sites \X Names

(* Which jobs pass through a phase, and the rows they may rely on.         *)
Fits(op) ==
    /\ op.phase \in {"deployments", "keys"} => op.job.op \in Groupwise
    /\ op.phase = "sites"  => op.job.op \in {"create", "rename", "delete"}
    /\ op.phase = "models" => op.job.op \in {"add", "refresh", "remove"}
    /\ op.phase \in {"find", "cleanup"} => op.job.op = "direct"
    /\ op.phase \in {"rebind", "unbind"} => op.job.op = "rename"
    /\ op.phase = "mcp" => op.job.op \in Locked
    /\ op.site # None => op.rows[op.site] \in Row
    /\ \A s \in op.todo : op.rows[s] \in Row
    /\ op.job.op \in OneSite => op.rows[op.job.site] \in Row

TypeInv == TypeOK /\ \A r \in Requests : ~At(r, "idle") => Fits(ops[r])

(* What every action but Start does to the handler that takes it.          *)
Moves(r) ==
    \/ \E op \in Handlers : /\ Step(r, op)
                            /\ op.job = ops[r].job
                            /\ op.phase # "idle"
                            /\ Fits(op)
    \/ \E answer \in {"ok", "failed", "refused"} : Answer(r, answer)

Alone(r) == \A q \in Requests \ {r} : ops'[q] = ops[q]

\* A handler that waits is well formed.
LEMMA IdleOK == /\ Idle \in Handlers
                /\ \A answer \in {"ok", "failed", "refused"} :
                      [Idle EXCEPT !.answer = answer] \in Handlers
<1>1. NoRows \in [Sites -> Row \cup {None}]
  BY DEF NoRows
<1>2. "idle" \in Phases BY DEF Phases
<1>3. Idle \in Handlers
  BY <1>1, <1>2 DEF Idle, Handlers
<1>4. \A h \in Handlers, answer \in {"ok", "failed", "refused"} :
         [h EXCEPT !.answer = answer] \in Handlers
  BY DEF Handlers
<1>. QED BY <1>3, <1>4

\* A handler that answers waits again, and has let go of the lock.
LEMMA AnswersTyped ==
    ASSUME TypeOK, NEW r \in Requests,
           NEW answer \in {"ok", "failed", "refused"}, Answer(r, answer)
    PROVE  HandlersOK' /\ At(r, "idle")' /\ Alone(r)
<1>2. ops' = [ops EXCEPT ![r] = [Idle EXCEPT !.answer = answer]]
  BY DEF Answer
<1>3. [Idle EXCEPT !.answer = answer].job = None /\ [Idle EXCEPT !.answer = answer].phase = "idle"
  BY DEF Idle
<1>4. ops' \in [Requests -> Handlers]
  BY <1>2, IdleOK DEF TypeOK
<1>5. \A q \in Requests \ {r} : ops'[q] = ops[q]
  BY <1>2 DEF TypeOK
<1>6. ops'[r].job = None /\ ops'[r].phase = "idle"
  BY <1>2, <1>3 DEF TypeOK
<1>7. lock' = IF lock = r THEN None ELSE lock
  BY DEF Answer
<1>8. lock' \in Requests \cup {None}
  BY <1>7 DEF TypeOK
<1>9. ASSUME NEW q \in Requests
      PROVE  /\ ops'[q].phase = "idle" <=> ops'[q].job = None
             /\ (ops'[q].job # None /\ ops'[q].job.op \in Locked) <=> lock' = q
  <2>1. CASE q = r
    BY <2>1, <1>6, <1>7, NoneAssumption
  <2>2. CASE q # r
    BY <2>2, <1>5, <1>7, NoneAssumption DEF TypeOK, At, Does
  <2>. QED BY <2>1, <2>2
<1>. QED BY <1>4, <1>5, <1>6, <1>8, <1>9 DEF HandlersOK, At, Does, Alone

\* Handlers stay well formed, and so does the lock.
LEMMA MovesKeepHandlers ==
    ASSUME TypeOK, NEW r \in Requests, ~At(r, "idle"), Moves(r)
    PROVE  HandlersOK' /\ (~At(r, "idle")' => Fits(ops[r])') /\ Alone(r)
<1>1. CASE \E op \in Handlers : Step(r, op) /\ op.job = ops[r].job
                                /\ op.phase # "idle" /\ Fits(op)
  <2>1. PICK op \in Handlers : Step(r, op) /\ op.job = ops[r].job
                               /\ op.phase # "idle" /\ Fits(op)
    BY <1>1
  <2>2. ops' \in [Requests -> Handlers] /\ lock' = lock
    BY <2>1 DEF Step, TypeOK
  <2>3. ASSUME NEW q \in Requests
        PROVE  ops'[q].job = ops[q].job /\ (ops'[q].phase = "idle" <=> ops[q].phase = "idle")
    BY <2>1 DEF Step, TypeOK, At
  <2>4. ops'[r] = op
    BY <2>1 DEF Step, TypeOK
  <2>5. Fits(ops[r])'
    BY <2>1, <2>4 DEF Fits
  <2>6. Alone(r)
    BY <2>1 DEF Step, TypeOK, Alone
  <2>7. HandlersOK'
    BY <2>2, <2>3 DEF HandlersOK, TypeOK, At, Does
  <2>. QED BY <2>5, <2>6, <2>7
<1>2. CASE \E answer \in {"ok", "failed", "refused"} : Answer(r, answer)
  BY <1>2, AnswersTyped
<1>. QED BY <1>1, <1>2 DEF Moves

\* Going on with the same job, in a phase fit for it, is a move.
LEMMA AdvanceMoves ==
    ASSUME NEW r \in Requests, NEW op \in Handlers, Step(r, op),
           op.job = ops[r].job, op.phase # "idle", Fits(op)
    PROVE  Moves(r)
BY DEF Moves

\* Answering is a move.
LEMMA AnswerMoves ==
    ASSUME NEW r \in Requests, NEW answer \in {"ok", "failed", "refused"},
           Answer(r, answer)
    PROVE  Moves(r)
BY DEF Moves

\* A handler at work has a job.
LEMMA AtWork ==
    ASSUME TypeInv, NEW r \in Requests, ~At(r, "idle")
    PROVE  /\ ops[r] \in Handlers /\ Fits(ops[r])
           /\ ops[r].job \in Asked /\ ops[r].job \in Jobs
BY JobsAssumption DEF TypeInv, TypeOK, At, Handlers

\* Creating, deleting, rebinding and updating keep the stores well formed.
LEMMA CreatesTyped ==
    ASSUME TypeOK, NEW d \in Deployments, NEW answer, Creates(d, answer)
    PROVE  deps' \subseteq Deployments /\ nextId' \in Nat \ {0}
<1>1. [d EXCEPT !.id = nextId] \in Deployments
  BY DEF TypeOK, Deployments
<1>. QED BY <1>1 DEF Creates, TypeOK, litellm

\* POST /model/delete leaves deployments.
LEMMA DeletesTyped ==
    ASSUME TypeOK, NEW id, NEW answer, Deletes(id, answer)
    PROVE  deps' \subseteq Deployments /\ nextId' \in Nat \ {0}
BY DEF Deletes, TypeOK

\* POST /key/update leaves keys bound to groups.
LEMMA RebindsTyped ==
    ASSUME TypeOK, NEW k \in Keys, NEW group \in Groups, NEW answer,
           Rebinds(k, group, answer)
    PROVE  keys' \in [Keys -> Groups \cup {"default", None}]
BY DEF Rebinds, TypeOK

\* An onboardd call writes a row or leaves the one there is.
LEMMA UpdatesTyped ==
    ASSUME TypeOK, NEW s, NEW row, NEW reached \in BOOLEAN,
           Updates(s, row, reached),
           s \in Sites /\ sites[s] # None => row \in Row
    PROVE  sites' \in [Sites -> Row \cup {None}]
BY DEF Updates, TypeOK

\* group_snapshot's first listing only fills the handler's copy.
LEMMA ReadDeploymentsMoves ==
    ASSUME TypeInv, NEW r \in Requests, ReadDeployments(r)
    PROVE  Moves(r) /\ StoresOK'
<1>1. PICK seen \in Read(deps, {}) :
         Step(r, [ops[r] EXCEPT !.phase = "keys", !.seen = seen])
  BY DEF ReadDeployments
<1>. DEFINE op == [ops[r] EXCEPT !.phase = "keys", !.seen = seen]
<1>2. /\ ops[r] \in Handlers /\ Fits(ops[r]) /\ ops[r].job \in Jobs
      /\ ops[r].phase = "deployments" /\ seen \in SUBSET Deployments
  BY AtWork, Reading DEF ReadDeployments, At, TypeInv
<1>3. op \in Handlers /\ op.job = ops[r].job /\ op.phase = "keys" /\ Fits(op)
  BY <1>2 DEF Handlers, Phases, Fits
<1>4. StoresOK'
  BY DEF ReadDeployments, TypeInv, TypeOK, StoresOK, litellm
<1>. QED BY <1>1, <1>3, <1>4, AdvanceMoves

\* From group_snapshot a handler goes on to sites it has read a row of.
LEMMA ReadKeysMoves ==
    ASSUME TypeInv, NEW r \in Requests, ReadKeys(r)
    PROVE  Moves(r) /\ StoresOK'
<1>1. PICK ks \in Read(keys, NoKeys) :
         IF ~Accepted(ops[r], ks) THEN Answer(r, "refused")
         ELSE Step(r, [ops[r] EXCEPT
                !.phase = IF Does(r, {"bind"}) THEN "mcp" ELSE "sites",
                !.seen = {},
                !.todo = CASE Does(r, {"create"}) -> ops[r].job.members
                           [] Does(r, {"bind"})   -> {}
                           [] OTHER -> {s \in Sites : ops[r].rows[s] # None},
                !.bound = IF Does(r, {"rename"})
                          THEN {k \in Keys : ks[k] = ops[r].job.group}
                          ELSE {}])
  BY DEF ReadKeys
<1>. DEFINE phase == IF Does(r, {"bind"}) THEN "mcp" ELSE "sites"
            todo  == CASE Does(r, {"create"}) -> ops[r].job.members
                       [] Does(r, {"bind"})   -> {}
                       [] OTHER -> {s \in Sites : ops[r].rows[s] # None}
            bound == IF Does(r, {"rename"})
                     THEN {k \in Keys : ks[k] = ops[r].job.group} ELSE {}
            op == [ops[r] EXCEPT !.phase = phase, !.seen = {}, !.todo = todo,
                                 !.bound = bound]
<1>2. /\ ops[r] \in Handlers /\ Fits(ops[r]) /\ ops[r].job \in Jobs
      /\ ops[r].job \in Asked /\ ops[r].job.op \in Groupwise
      /\ ops[r].job # None
  BY AtWork DEF ReadKeys, At, TypeInv, TypeOK, Fits
<1>3. StoresOK'
  BY DEF ReadKeys, TypeInv, TypeOK, StoresOK, litellm
<1>4. CASE ~Accepted(ops[r], ks)
  BY <1>1, <1>3, <1>4, AnswerMoves
<1>5. CASE Accepted(ops[r], ks)
  <2>1. phase \in Phases /\ phase # "idle" BY DEF Phases
  <2>2. /\ phase = "sites" => ops[r].job.op \in {"create", "rename", "delete"}
        /\ phase = "mcp" => ops[r].job.op \in Locked
        /\ phase \in {"sites", "mcp"}
    BY <1>2 DEF Does, Groupwise, Locked
  <2>3. todo \subseteq Sites /\ \A s \in todo : ops[r].rows[s] \in Row
    <3>1. CASE Does(r, {"create"})
      <4>1. ops[r].job.members \subseteq Sites
        BY <3>1, <1>2 DEF Does, Jobs
      <4>2. \A s \in ops[r].job.members : Live(ops[r].rows[s])
        BY <1>5, <3>1 DEF Accepted, Does
      <4>. QED BY <3>1, <4>1, <4>2, <1>2 DEF Handlers, Live
    <3>2. CASE ~Does(r, {"create"})
      BY <3>2, <1>2 DEF Handlers
    <3>. QED BY <3>1, <3>2
  <2>4. bound \subseteq Keys OBVIOUS
  <2>5. Step(r, op) BY <1>1, <1>5
  <2>. HIDE DEF phase, todo, bound
  <2>6. op \in Handlers /\ op.job = ops[r].job /\ op.phase = phase /\ op.todo = todo
        /\ op.site = ops[r].site /\ op.rows = ops[r].rows
    BY <1>2, <2>1, <2>3, <2>4 DEF Handlers
  <2>7. Fits(op)
    BY <1>2, <2>2, <2>3, <2>6 DEF Fits
  <2>. QED BY <1>3, <2>1, <2>5, <2>6, <2>7, AdvanceMoves
<1>. QED BY <1>4, <1>5

\* The groups a site is moved to are groups.
LEMMA NewGroupsTyped ==
    ASSUME NEW job \in Jobs, job.op \in Retags, NEW current \in SUBSET Groups
    PROVE  NewGroups(job, current) \in SUBSET Groups
<1>1. CASE job.op = "groups"
  BY <1>1 DEF NewGroups, Jobs
<1>2. CASE job.op = "create"
  BY <1>2 DEF NewGroups, Jobs
<1>3. CASE job.op = "delete"
  BY <1>3 DEF NewGroups, Jobs
<1>4. CASE job.op = "rename"
  BY <1>4 DEF NewGroups, Jobs
<1>. QED BY <1>1, <1>2, <1>3, <1>4 DEF Retags

\* The next site to retag is one whose row was read.
LEMMA NextSiteMoves ==
    ASSUME TypeInv, NEW r \in Requests, NextSite(r)
    PROVE  Moves(r) /\ StoresOK'
<1>1. /\ ops[r] \in Handlers /\ Fits(ops[r]) /\ ops[r].job \in Jobs
      /\ ops[r].phase = "sites" /\ ops[r].job.op \in Retags
  BY AtWork DEF NextSite, At, TypeInv, Fits, Retags
<1>2. StoresOK'
  BY DEF NextSite, TypeInv, TypeOK, StoresOK, litellm
<1>3. PICK s \in ops[r].todo, listed \in Read(deps, {}) :
         LET current == TagsOf(Of(s, listed))
             op == [ops[r] EXCEPT !.todo = @ \ {s}]
         IN Step(r, IF Does(r, {"create"}) \/ ops[r].job.group \in current
                    THEN [op EXCEPT !.phase = "list", !.site = s,
                                    !.tags = NewGroups(ops[r].job, current)]
                    ELSE op)
  BY DEF NextSite
<1>. DEFINE tags == NewGroups(ops[r].job, TagsOf(Of(s, listed)))
            pass == [ops[r] EXCEPT !.todo = @ \ {s}]
            op   == [pass EXCEPT !.phase = "list", !.site = s, !.tags = tags]
<1>4. tags \in SUBSET Groups
  <2>1. TagsOf(Of(s, listed)) \in SUBSET Groups
    BY Reading, Listing DEF TypeInv
  <2>. QED BY <1>1, <2>1, NewGroupsTyped
<1>5. s \in Sites /\ ops[r].rows[s] \in Row
  BY <1>1 DEF Handlers, Fits
<1>6. Step(r, pass) \/ Step(r, op)
  BY <1>3
<1>. HIDE DEF tags
<1>7. pass \in Handlers /\ pass.job = ops[r].job /\ pass.phase = "sites" /\ Fits(pass)
  BY <1>1 DEF Handlers, Fits
<1>8. op \in Handlers /\ op.job = ops[r].job /\ op.phase = "list" /\ Fits(op)
  <2>. HIDE DEF pass
  <2>1. op \in Handlers /\ op.job = pass.job /\ op.phase = "list" /\ op.site = s
        /\ op.rows = pass.rows /\ op.todo = pass.todo
    BY <1>4, <1>5, <1>7 DEF Handlers, Phases
  <2>2. pass.rows = ops[r].rows
    BY <1>1 DEF Handlers, pass
  <2>. QED BY <1>5, <1>7, <2>1, <2>2 DEF Fits
<1>. HIDE DEF op, pass
<1>. QED BY <1>2, <1>6, <1>7, <1>8, AdvanceMoves

\* What is to be replaced are deployments LiteLLM holds.
LEMMA ListForRetagMoves ==
    ASSUME TypeInv, NEW r \in Requests, ListForRetag(r)
    PROVE  Moves(r) /\ StoresOK'
<1>1. /\ ops[r] \in Handlers /\ Fits(ops[r]) /\ ops[r].phase = "list"
  BY AtWork DEF ListForRetag, At, TypeInv
<1>2. StoresOK'
  BY DEF ListForRetag, TypeInv, TypeOK, StoresOK, litellm
<1>3. PICK listed \in Read(deps, {}) :
         Step(r, [ops[r] EXCEPT !.phase = "new", !.work = Of(ops[r].site, listed)])
  BY DEF ListForRetag
<1>. DEFINE work == Of(ops[r].site, listed)
            op == [ops[r] EXCEPT !.phase = "new", !.work = work]
<1>4. work \in SUBSET Deployments
  BY Reading, Listing DEF TypeInv
<1>. HIDE DEF work
<1>5. op \in Handlers /\ op.job = ops[r].job /\ op.phase = "new" /\ Fits(op)
  BY <1>1, <1>4 DEF Handlers, Phases, Fits
<1>. QED BY <1>2, <1>3, <1>5, AdvanceMoves DEF work

\* The replacement is well formed, and the next to delete is a deployment.
LEMMA ReplaceMoves ==
    ASSUME TypeInv, NEW r \in Requests, NEW answer \in Answers, Replace(r, answer)
    PROVE  Moves(r) /\ StoresOK'
<1>1. /\ ops[r] \in Handlers /\ Fits(ops[r]) /\ ops[r].phase = "new"
      /\ ops[r].job \in Jobs
  BY AtWork DEF Replace, At, TypeInv
<1>2. PICK d \in ops[r].work :
        /\ Creates(Replacement(ops[r], d), answer)
        /\ CASE answer = "ok" ->
                  Step(r, [ops[r] EXCEPT !.phase = "delete", !.old = d])
             [] answer # "ok" /\ Does(r, Retags) ->
                  Step(r, [ops[r] EXCEPT !.work = @ \ {d}, !.errors = TRUE])
             [] OTHER -> Answer(r, "failed")
  BY DEF Replace
<1>3. d \in Deployments
  BY <1>1 DEF Handlers
<1>4. Replacement(ops[r], d) \in Deployments
  <2>1. CASE ops[r].job.op = "refresh"
    <3>1. ops[r].job.model.upstream \in Upstreams
      BY <1>1, <2>1 DEF Jobs, Models
    <3>. QED BY <1>3, <2>1, <3>1 DEF Replacement, Deployments
  <2>2. CASE ops[r].job.op # "refresh"
    BY <1>1, <1>3, <2>2 DEF Replacement, Deployments, Handlers
  <2>. QED BY <2>1, <2>2
<1>5. StoresOK'
  BY <1>2, <1>4, CreatesTyped DEF Replace, TypeInv, TypeOK, StoresOK
<1>6. CASE answer = "ok"
  <2>. DEFINE op == [ops[r] EXCEPT !.phase = "delete", !.old = d]
  <2>1. op \in Handlers /\ op.job = ops[r].job /\ op.phase = "delete" /\ Fits(op)
    BY <1>1, <1>3 DEF Handlers, Phases, Fits
  <2>. QED BY <1>2, <1>5, <1>6, <2>1, AdvanceMoves
<1>7. CASE answer # "ok" /\ Does(r, Retags)
  <2>. DEFINE op == [ops[r] EXCEPT !.work = @ \ {d}, !.errors = TRUE]
  <2>1. op \in Handlers /\ op.job = ops[r].job /\ op.phase = "new" /\ Fits(op)
    BY <1>1 DEF Handlers, Phases, Fits
  <2>. QED BY <1>2, <1>5, <1>7, <2>1, AdvanceMoves
<1>8. CASE answer # "ok" /\ ~Does(r, Retags)
  BY <1>2, <1>5, <1>8, AnswerMoves
<1>. QED BY <1>6, <1>7, <1>8

\* After deleting the replaced one the handler has one fewer to do.
LEMMA DeleteReplacedMoves ==
    ASSUME TypeInv, NEW r \in Requests, NEW answer \in Answers,
           DeleteReplaced(r, answer)
    PROVE  Moves(r) /\ StoresOK'
<1>1. /\ ops[r] \in Handlers /\ Fits(ops[r]) /\ ops[r].phase = "delete"
  BY AtWork DEF DeleteReplaced, At, TypeInv
<1>2. StoresOK'
  BY DeletesTyped DEF DeleteReplaced, TypeInv, TypeOK, StoresOK
<1>. DEFINE op == [ops[r] EXCEPT !.phase = "new", !.old = None,
                                 !.work = @ \ {ops[r].old},
                                 !.errors = @ \/ answer # "ok"]
<1>3. op \in Handlers /\ op.job = ops[r].job /\ op.phase = "new" /\ Fits(op)
  BY <1>1 DEF Handlers, Phases, Fits
<1>. QED BY <1>2, <1>3, AdvanceMoves DEF DeleteReplaced

\* sync_onboard_group writes a row, and ends the job or goes to the next site.
LEMMA SyncGroupsMoves ==
    ASSUME TypeInv, NEW r \in Requests, NEW reached \in BOOLEAN,
           SyncGroups(r, reached)
    PROVE  Moves(r) /\ StoresOK'
<1>1. /\ ops[r] \in Handlers /\ Fits(ops[r]) /\ ops[r].job \in Jobs
      /\ ops[r].job.op \in Retags /\ ops[r].phase = "new"
  BY AtWork DEF SyncGroups, At, Does, TypeInv
<1>. DEFINE s == ops[r].site
            groups == NewGroups(ops[r].job, ops[r].rows[s].groups)
            row == [sites[s] EXCEPT !.groups = groups]
<1>2. Updates(s, row, reached)
  BY DEF SyncGroups
<1>3. ASSUME s \in Sites, sites[s] # None
      PROVE  row \in Row
  <2>1. ops[r].rows[s] \in Row
    BY <1>1, <1>3, NoneAssumption DEF Fits
  <2>2. groups \in SUBSET Groups
    BY <1>1, <2>1, NewGroupsTyped DEF Row
  <2>3. sites[s] \in Row
    BY <1>3 DEF TypeInv, TypeOK
  <2>. HIDE DEF groups
  <2>. QED BY <2>2, <2>3 DEF Row
<1>4. sites' \in [Sites -> Row \cup {None}]
  <2>. HIDE DEF s, row
  <2>. QED BY <1>2, <1>3, UpdatesTyped DEF TypeInv
<1>5. StoresOK'
  BY <1>4 DEF SyncGroups, TypeInv, TypeOK, StoresOK, litellm
<1>. DEFINE op == [ops[r] EXCEPT !.phase = "sites", !.site = None, !.tags = {}]
<1>6. \/ Answer(r, "failed") \/ Answer(r, "ok")
      \/ ~Does(r, {"groups"}) /\ Step(r, op)
  BY DEF SyncGroups
<1>7. CASE Answer(r, "failed") \/ Answer(r, "ok")
  BY <1>5, <1>7, AnswerMoves
<1>8. CASE ~Does(r, {"groups"}) /\ Step(r, op)
  <2>1. ops[r].job.op \in {"create", "rename", "delete"}
    BY <1>1, <1>8 DEF Does, Retags, SyncGroups
  <2>2. op \in Handlers /\ op.job = ops[r].job /\ op.phase = "sites" /\ Fits(op)
    BY <1>1, <2>1 DEF Handlers, Phases, Fits
  <2>. QED BY <1>5, <1>8, <2>2, AdvanceMoves
<1>. QED BY <1>6, <1>7, <1>8

\* The handler of one site's groups that met errors answers.
LEMMA GroupsFailMoves ==
    ASSUME TypeInv, NEW r \in Requests, GroupsFail(r)
    PROVE  Moves(r) /\ StoresOK'
BY AnswerMoves DEF GroupsFail, TypeInv, TypeOK, StoresOK, litellm

\* Only a rename goes on, to the keys, when all sites are done.
LEMMA SitesDoneMoves ==
    ASSUME TypeInv, NEW r \in Requests, SitesDone(r)
    PROVE  Moves(r) /\ StoresOK'
<1>1. /\ ops[r] \in Handlers /\ Fits(ops[r]) /\ ops[r].phase = "sites"
  BY AtWork DEF SitesDone, At, TypeInv
<1>2. StoresOK'
  BY DEF SitesDone, TypeInv, TypeOK, StoresOK, litellm
<1>. DEFINE op == [ops[r] EXCEPT !.phase = "rebind"]
<1>3. \/ Answer(r, "failed") \/ Answer(r, "ok")
      \/ Does(r, {"rename"}) /\ Step(r, op)
  BY DEF SitesDone
<1>4. CASE Does(r, {"rename"}) /\ Step(r, op)
  <2>1. op \in Handlers /\ op.job = ops[r].job /\ op.phase = "rebind" /\ Fits(op)
    BY <1>1, <1>4 DEF Handlers, Phases, Fits, Does
  <2>. QED BY <1>2, <1>4, <2>1, AdvanceMoves
<1>. QED BY <1>2, <1>3, <1>4, AnswerMoves

\* The model to add is a deployment of the site.
LEMMA ListForAddMoves ==
    ASSUME TypeInv, NEW r \in Requests, ListForAdd(r)
    PROVE  Moves(r) /\ StoresOK'
<1>1. /\ ops[r] \in Handlers /\ Fits(ops[r]) /\ ops[r].phase = "list"
      /\ ops[r].job \in Jobs /\ ops[r].job.op = "add"
  BY AtWork DEF ListForAdd, At, Does, TypeInv
<1>2. StoresOK'
  BY DEF ListForAdd, TypeInv, TypeOK, StoresOK, litellm
<1>3. PICK listed \in Read(deps, {}) :
        LET job == ops[r].job
            mine == Of(job.site, listed)
        IN IF Listed(job.model.name, mine) # {}
           THEN Answer(r, "refused")
           ELSE Step(r, [ops[r] EXCEPT
                    !.phase = "new", !.seen = mine,
                    !.work = {[id |-> 0, name |-> job.model.name,
                               upstream |-> job.model.upstream,
                               site |-> job.site,
                               tags |-> TagsOf(mine)
                                   \cup ops[r].rows[job.site].groups]}])
  BY DEF ListForAdd
<1>. DEFINE job  == ops[r].job
            mine == Of(job.site, listed)
            d == [id |-> 0, name |-> job.model.name, upstream |-> job.model.upstream,
                  site |-> job.site,
                  tags |-> TagsOf(mine) \cup ops[r].rows[job.site].groups]
            op == [ops[r] EXCEPT !.phase = "new", !.seen = mine, !.work = {d}]
<1>4. mine \in SUBSET Deployments
  BY Reading, Listing DEF TypeInv
<1>5. d \in Deployments
  <2>1. job.site \in Sites /\ job.model.name \in Names /\ job.model.upstream \in Upstreams
    BY <1>1 DEF Jobs, Models
  <2>2. TagsOf(mine) \subseteq Groups
    BY <1>4, Listing
  <2>3. ops[r].rows[job.site].groups \subseteq Groups
    BY <1>1 DEF Fits, OneSite, Row
  <2>. QED BY <2>1, <2>2, <2>3 DEF Deployments
<1>6. Answer(r, "refused") \/ Step(r, op)
  BY <1>3
<1>. HIDE DEF mine, d
<1>7. op \in Handlers /\ op.job = ops[r].job /\ op.phase = "new" /\ Fits(op)
  BY <1>1, <1>4, <1>5 DEF Handlers, Phases, Fits
<1>. HIDE DEF op
<1>. QED BY <1>2, <1>6, <1>7, AdvanceMoves, AnswerMoves

\* An added model comes with a promise for its site and name.
LEMMA CreateAddedMoves ==
    ASSUME TypeInv, NEW r \in Requests, NEW answer \in Answers,
           CreateAdded(r, answer)
    PROVE  Moves(r) /\ StoresOK'
<1>1. /\ ops[r] \in Handlers /\ Fits(ops[r]) /\ ops[r].phase = "new"
      /\ ops[r].job \in Jobs /\ ops[r].job.op = "add"
  BY AtWork DEF CreateAdded, At, Does, TypeInv
<1>2. PICK d \in ops[r].work : Creates(d, answer)
  BY DEF CreateAdded
<1>3. d \in Deployments
  BY <1>1 DEF Handlers
<1>4. promised' \subseteq Sites \X Names
  <2>1. ops[r].job.site \in Sites /\ ops[r].job.model.name \in Names
    BY <1>1 DEF Jobs, Models
  <2>. QED BY <2>1 DEF CreateAdded, TypeInv, TypeOK
<1>5. StoresOK'
  BY <1>2, <1>3, <1>4, CreatesTyped DEF CreateAdded, TypeInv, TypeOK, StoresOK
<1>. DEFINE op == [ops[r] EXCEPT !.phase = "models", !.work = {}]
<1>6. op \in Handlers /\ op.job = ops[r].job /\ op.phase = "models" /\ Fits(op)
  BY <1>1 DEF Handlers, Phases, Fits
<1>7. Answer(r, "failed") \/ Step(r, op)
  BY DEF CreateAdded
<1>. QED BY <1>5, <1>6, <1>7, AdvanceMoves, AnswerMoves

\* The probed model replaces a deployment that was listed.
LEMMA ListForRefreshMoves ==
    ASSUME TypeInv, NEW r \in Requests, ListForRefresh(r)
    PROVE  Moves(r) /\ StoresOK'
<1>1. /\ ops[r] \in Handlers /\ Fits(ops[r]) /\ ops[r].phase = "list"
  BY AtWork DEF ListForRefresh, At, TypeInv
<1>2. StoresOK'
  BY DEF ListForRefresh, TypeInv, TypeOK, StoresOK, litellm
<1>3. PICK listed \in Read(deps, {}) :
        LET model == ops[r].job.model
            mine == Of(ops[r].job.site, listed)
        IN \/ /\ Listed(model.name, mine) = {}
              /\ Answer(r, "refused")
           \/ \E d \in Listed(model.name, mine) :
                IF d.upstream = model.upstream
                THEN Answer(r, "ok")
                ELSE Step(r, [ops[r] EXCEPT !.phase = "new", !.seen = mine,
                                            !.work = {d}])
  BY DEF ListForRefresh
<1>. DEFINE mine == Of(ops[r].job.site, listed)
<1>4. mine \in SUBSET Deployments
  BY Reading, Listing DEF TypeInv
<1>5. CASE Answer(r, "refused") \/ Answer(r, "ok")
  BY <1>2, <1>5, AnswerMoves
<1>6. CASE \E d \in Listed(ops[r].job.model.name, mine) :
              Step(r, [ops[r] EXCEPT !.phase = "new", !.seen = mine, !.work = {d}])
  <2>1. PICK d \in mine :
           Step(r, [ops[r] EXCEPT !.phase = "new", !.seen = mine, !.work = {d}])
    BY <1>6 DEF Listed
  <2>. DEFINE work == {d}
              op == [ops[r] EXCEPT !.phase = "new", !.seen = mine, !.work = work]
  <2>. HIDE DEF mine
  <2>. work \in SUBSET Deployments
    BY <1>4
  <2>. HIDE DEF work
  <2>2. op \in Handlers /\ op.job = ops[r].job /\ op.phase = "new" /\ Fits(op)
    BY <1>1, <1>4 DEF Handlers, Phases, Fits
  <2>. QED BY <1>2, <2>1, <2>2, AdvanceMoves DEF work
<1>. QED BY <1>3, <1>5, <1>6

\* After the refresh the site's list of models is synced.
LEMMA DeleteRefreshedMoves ==
    ASSUME TypeInv, NEW r \in Requests, NEW answer \in Answers,
           DeleteRefreshed(r, answer)
    PROVE  Moves(r) /\ StoresOK'
<1>1. /\ ops[r] \in Handlers /\ Fits(ops[r]) /\ ops[r].phase = "delete"
      /\ ops[r].job.op = "refresh"
  BY AtWork DEF DeleteRefreshed, At, Does, TypeInv
<1>2. StoresOK'
  BY DeletesTyped DEF DeleteRefreshed, TypeInv, TypeOK, StoresOK
<1>. DEFINE op == [ops[r] EXCEPT !.phase = "models"]
<1>3. op \in Handlers /\ op.job = ops[r].job /\ op.phase = "models" /\ Fits(op)
  BY <1>1 DEF Handlers, Phases, Fits
<1>4. Answer(r, "failed") \/ Step(r, op)
  BY DEF DeleteRefreshed
<1>. QED BY <1>2, <1>3, <1>4, AdvanceMoves, AnswerMoves

\* The deployment to remove is one that was listed.
LEMMA ListForRemoveMoves ==
    ASSUME TypeInv, NEW r \in Requests, ListForRemove(r)
    PROVE  Moves(r) /\ StoresOK'
<1>1. /\ ops[r] \in Handlers /\ Fits(ops[r]) /\ ops[r].phase = "list"
  BY AtWork DEF ListForRemove, At, TypeInv
<1>2. promised' \subseteq promised
  BY DEF ListForRemove
<1>3. StoresOK'
  BY <1>2 DEF ListForRemove, TypeInv, TypeOK, StoresOK, litellm
<1>4. PICK listed \in Read(deps, {}) :
         \/ Answer(r, "refused")
         \/ \E d \in Listed(ops[r].job.name, Of(ops[r].job.site, listed)) :
               Step(r, [ops[r] EXCEPT !.phase = "delete",
                                      !.seen = Of(ops[r].job.site, listed),
                                      !.old = d])
  BY DEF ListForRemove
<1>. DEFINE mine == Of(ops[r].job.site, listed)
<1>5. mine \in SUBSET Deployments
  BY Reading, Listing DEF TypeInv
<1>6. CASE Answer(r, "refused")
  BY <1>3, <1>6, AnswerMoves
<1>7. CASE \E d \in Listed(ops[r].job.name, mine) :
              Step(r, [ops[r] EXCEPT !.phase = "delete", !.seen = mine, !.old = d])
  <2>1. PICK d \in mine :
           Step(r, [ops[r] EXCEPT !.phase = "delete", !.seen = mine, !.old = d])
    BY <1>7 DEF Listed
  <2>. DEFINE op == [ops[r] EXCEPT !.phase = "delete", !.seen = mine, !.old = d]
  <2>. HIDE DEF mine
  <2>2. op \in Handlers /\ op.job = ops[r].job /\ op.phase = "delete" /\ Fits(op)
    BY <1>1, <1>5 DEF Handlers, Phases, Fits
  <2>. QED BY <1>3, <2>1, <2>2, AdvanceMoves
<1>. QED BY <1>4, <1>6, <1>7

\* After the removal the site's list of models is synced.
LEMMA DeleteRemovedMoves ==
    ASSUME TypeInv, NEW r \in Requests, NEW answer \in Answers,
           DeleteRemoved(r, answer)
    PROVE  Moves(r) /\ StoresOK'
<1>1. /\ ops[r] \in Handlers /\ Fits(ops[r]) /\ ops[r].phase = "delete"
      /\ ops[r].job.op = "remove"
  BY AtWork DEF DeleteRemoved, At, Does, TypeInv
<1>2. StoresOK'
  BY DeletesTyped DEF DeleteRemoved, TypeInv, TypeOK, StoresOK
<1>. DEFINE op == [ops[r] EXCEPT !.phase = "models"]
<1>3. op \in Handlers /\ op.job = ops[r].job /\ op.phase = "models" /\ Fits(op)
  BY <1>1 DEF Handlers, Phases, Fits
<1>4. Answer(r, "failed") \/ Step(r, op)
  BY DEF DeleteRemoved
<1>. QED BY <1>2, <1>3, <1>4, AdvanceMoves, AnswerMoves

\* sync_onboard_models writes a row of models.
LEMMA SyncModelsMoves ==
    ASSUME TypeInv, NEW r \in Requests, NEW reached \in BOOLEAN,
           SyncModels(r, reached)
    PROVE  Moves(r) /\ StoresOK'
<1>1. /\ ops[r] \in Handlers /\ Fits(ops[r]) /\ ops[r].phase = "models"
      /\ ops[r].job \in Jobs /\ ops[r].job.op \in {"add", "refresh", "remove"}
  BY AtWork DEF SyncModels, At, TypeInv, Fits
<1>2. ModelsAfter(ops[r]) \in SUBSET Models
  <2>1. /\ ModelsOf(ops[r].seen) \subseteq Models
        /\ ModelsOf(ops[r].seen \ {ops[r].old}) \subseteq Models
    BY <1>1, Listing DEF Handlers
  <2>2. ops[r].job.op \in {"add", "refresh"} => ops[r].job.model \in Models
    BY <1>1 DEF Jobs
  <2>3. CASE ops[r].job.op = "add"
    BY <2>1, <2>2, <2>3 DEF ModelsAfter
  <2>4. CASE ops[r].job.op = "remove"
    BY <2>1, <2>4 DEF ModelsAfter
  <2>5. CASE ops[r].job.op = "refresh"
    BY <2>1, <2>2, <2>5 DEF ModelsAfter
  <2>. QED BY <1>1, <2>3, <2>4, <2>5
<1>. DEFINE s == ops[r].job.site
            row == [sites[s] EXCEPT !.models = ModelsAfter(ops[r])]
<1>3. ASSUME s \in Sites, sites[s] # None
      PROVE  row \in Row
  BY <1>2, <1>3 DEF TypeInv, TypeOK, Row
<1>4. Updates(s, row, reached)
  BY DEF SyncModels
<1>5. sites' \in [Sites -> Row \cup {None}]
  <2>. HIDE DEF s, row
  <2>. QED BY <1>3, <1>4, UpdatesTyped DEF TypeInv
<1>6. StoresOK'
  BY <1>5 DEF SyncModels, TypeInv, TypeOK, StoresOK, litellm
<1>7. Answer(r, "ok") \/ Answer(r, "failed")
  BY DEF SyncModels
<1>. QED BY <1>6, <1>7, AnswerMoves

\* The alias copies deployments that were listed.
LEMMA ListForAliasMoves ==
    ASSUME TypeInv, NEW r \in Requests, ListForAlias(r)
    PROVE  Moves(r) /\ StoresOK'
<1>1. /\ ops[r] \in Handlers /\ Fits(ops[r]) /\ ops[r].phase = "list"
      /\ ops[r].job \in Jobs /\ ops[r].job.op = "alias"
  BY AtWork DEF ListForAlias, At, Does, TypeInv
<1>2. StoresOK'
  BY DEF ListForAlias, TypeInv, TypeOK, StoresOK, litellm
<1>3. PICK listed \in Read(deps, {}) :
         \/ Answer(r, "refused")
         \/ Step(r, [ops[r] EXCEPT !.phase = "new",
                        !.work = {[d EXCEPT !.name = ops[r].job.alias] :
                                     d \in Listed(ops[r].job.target, listed)}])
  BY DEF ListForAlias
<1>. DEFINE work == {[d EXCEPT !.name = ops[r].job.alias] :
                        d \in Listed(ops[r].job.target, listed)}
            op == [ops[r] EXCEPT !.phase = "new", !.work = work]
<1>4. work \in SUBSET Deployments
  <2>1. ops[r].job.alias \in Names
    BY <1>1 DEF Jobs
  <2>. QED BY <2>1, Reading DEF TypeInv, Listed, Deployments
<1>5. Answer(r, "refused") \/ Step(r, op)
  BY <1>3
<1>. HIDE DEF work
<1>6. op \in Handlers /\ op.job = ops[r].job /\ op.phase = "new" /\ Fits(op)
  BY <1>1, <1>4 DEF Handlers, Phases, Fits
<1>. QED BY <1>2, <1>5, <1>6, AdvanceMoves, AnswerMoves

\* One more deployment under the alias, one fewer to create.
LEMMA CreateAliasMoves ==
    ASSUME TypeInv, NEW r \in Requests, NEW answer \in Answers,
           CreateAlias(r, answer)
    PROVE  Moves(r) /\ StoresOK'
<1>1. /\ ops[r] \in Handlers /\ Fits(ops[r]) /\ ops[r].phase = "new"
  BY AtWork DEF CreateAlias, At, TypeInv
<1>2. PICK d \in ops[r].work :
        /\ Creates(d, answer)
        /\ Step(r, [ops[r] EXCEPT
                     !.work = @ \ {d},
                     !.made = IF answer = "ok" THEN @ \cup {nextId} ELSE @])
        /\ promised' = IF answer = "ok" THEN promised \cup {<<d.site, d.name>>}
                                        ELSE promised
  BY DEF CreateAlias
<1>3. d \in Deployments
  BY <1>1 DEF Handlers
<1>4. promised' \subseteq Sites \X Names
  BY <1>2, <1>3 DEF TypeInv, TypeOK, Deployments
<1>5. StoresOK'
  BY <1>2, <1>3, <1>4, CreatesTyped DEF CreateAlias, TypeInv, TypeOK, StoresOK
<1>. DEFINE op == [ops[r] EXCEPT
                     !.work = @ \ {d},
                     !.made = IF answer = "ok" THEN @ \cup {nextId} ELSE @]
<1>6. op \in Handlers /\ op.job = ops[r].job /\ op.phase = "new" /\ Fits(op)
  <2>1. nextId \in Nat BY DEF TypeInv, TypeOK
  <2>. QED BY <1>1, <2>1 DEF Handlers, Fits
<1>. QED BY <1>2, <1>5, <1>6, AdvanceMoves

\* The alias handler answers.
LEMMA AliasDoneMoves ==
    ASSUME TypeInv, NEW r \in Requests, AliasDone(r)
    PROVE  Moves(r) /\ StoresOK'
BY AnswerMoves DEF AliasDone, TypeInv, TypeOK, StoresOK, litellm

\* A Direct registration creates deployments of its own site.
LEMMA ListForDirectMoves ==
    ASSUME TypeInv, NEW r \in Requests, ListForDirect(r)
    PROVE  Moves(r) /\ StoresOK'
<1>1. /\ ops[r] \in Handlers /\ Fits(ops[r]) /\ ops[r].phase = "list"
      /\ ops[r].job \in Jobs /\ ops[r].job.op = "direct"
  BY AtWork DEF ListForDirect, At, Does, TypeInv
<1>2. StoresOK'
  BY DEF ListForDirect, TypeInv, TypeOK, StoresOK, litellm
<1>3. PICK listed \in Read(deps, {}) :
         Step(r, [ops[r] EXCEPT
            !.phase = "new", !.seen = listed,
            !.work = {[id |-> 0, name |-> m.name, upstream |-> m.upstream,
                       site |-> ops[r].job.site, tags |-> ops[r].job.groups] :
                         m \in ops[r].job.models
                                  \ ModelsOf(Of(ops[r].job.site, listed))}])
  BY DEF ListForDirect
<1>. DEFINE work == {[id |-> 0, name |-> m.name, upstream |-> m.upstream,
                      site |-> ops[r].job.site, tags |-> ops[r].job.groups] :
                        m \in ops[r].job.models
                                 \ ModelsOf(Of(ops[r].job.site, listed))}
            op == [ops[r] EXCEPT !.phase = "new", !.seen = listed, !.work = work]
<1>4. work \in SUBSET Deployments
  <2>1. /\ ops[r].job.site \in Sites /\ ops[r].job.groups \in SUBSET Groups
        /\ ops[r].job.models \subseteq Models
    BY <1>1, SitesAssumption DEF Jobs
  <2>. QED BY <2>1 DEF Deployments, Models
<1>5. listed \in SUBSET Deployments
  BY Reading DEF TypeInv
<1>. HIDE DEF work
<1>6. op \in Handlers /\ op.job = ops[r].job /\ op.phase = "new" /\ Fits(op)
  BY <1>1, <1>4, <1>5 DEF Handlers, Phases, Fits
<1>7. Step(r, op)
  BY <1>3 DEF work
<1>. QED BY <1>2, <1>6, <1>7, AdvanceMoves

\* The created one is remembered, looked for, or all is taken back.
LEMMA CreateDirectMoves ==
    ASSUME TypeInv, NEW r \in Requests, NEW answer \in Answers,
           CreateDirect(r, answer)
    PROVE  Moves(r) /\ StoresOK'
<1>1. /\ ops[r] \in Handlers /\ Fits(ops[r]) /\ ops[r].phase = "new"
      /\ ops[r].job.op = "direct"
  BY AtWork DEF CreateDirect, At, Does, TypeInv
<1>. DEFINE op1(d) == [ops[r] EXCEPT !.work = @ \ {d}, !.made = @ \cup {nextId}]
            op2(d) == [ops[r] EXCEPT !.phase = "find", !.old = d]
            op3(d) == [ops[r] EXCEPT !.phase = "cleanup",
                                     !.old = IF answer = "lost" THEN d ELSE @]
<1>2. PICK d \in ops[r].work :
         Creates(d, answer) /\ (Step(r, op1(d)) \/ Step(r, op2(d)) \/ Step(r, op3(d)))
  BY DEF CreateDirect
<1>3. d \in Deployments
  BY <1>1 DEF Handlers
<1>4. StoresOK'
  BY <1>2, <1>3, CreatesTyped DEF CreateDirect, TypeInv, TypeOK, StoresOK
<1>5. op1(d) \in Handlers /\ op1(d).job = ops[r].job /\ op1(d).phase = "new" /\ Fits(op1(d))
  <2>1. nextId \in Nat BY DEF TypeInv, TypeOK
  <2>. QED BY <1>1, <2>1 DEF Handlers, Fits
<1>6. op2(d) \in Handlers /\ op2(d).job = ops[r].job /\ op2(d).phase = "find" /\ Fits(op2(d))
  BY <1>1, <1>3 DEF Handlers, Phases, Fits
<1>7. op3(d) \in Handlers /\ op3(d).job = ops[r].job /\ op3(d).phase = "cleanup" /\ Fits(op3(d))
  BY <1>1, <1>3 DEF Handlers, Phases, Fits
<1>. HIDE DEF op1, op2, op3
<1>. QED BY <1>2, <1>4, <1>5, <1>6, <1>7, AdvanceMoves

\* The one looked for is remembered under the id that was found.
LEMMA FindMadeMoves ==
    ASSUME TypeInv, NEW r \in Requests, FindMade(r)
    PROVE  Moves(r) /\ StoresOK'
<1>1. /\ ops[r] \in Handlers /\ Fits(ops[r]) /\ ops[r].phase = "find"
      /\ ops[r].job.op = "direct"
  BY AtWork DEF FindMade, At, TypeInv, Fits
<1>2. StoresOK'
  BY DEF FindMade, TypeInv, TypeOK, StoresOK, litellm
<1>. DEFINE op1(e) == [ops[r] EXCEPT !.phase = "new", !.old = None,
                                     !.work = @ \ {ops[r].old}, !.made = @ \cup {e.id}]
            op2 == [ops[r] EXCEPT !.phase = "cleanup"]
<1>3. PICK listed \in Read(deps, {}) :
         (\E e \in listed : Step(r, op1(e))) \/ Step(r, op2)
  <2>1. PICK listed \in Read(deps, {}) :
          LET d == ops[r].old
              new == {e \in Of(d.site, Listed(d.name, listed)) :
                          \A f \in ops[r].seen : f.id # e.id}
          IN \/ \E e \in new : Step(r, op1(e))
             \/ new = {} /\ Step(r, op2)
    BY DEF FindMade
  <2>. HIDE DEF op1, op2
  <2>. QED BY <2>1 DEF Of, Listed
<1>4. ASSUME NEW e \in listed
      PROVE  op1(e) \in Handlers /\ op1(e).job = ops[r].job /\ op1(e).phase = "new"
             /\ Fits(op1(e))
  <2>1. e.id \in Nat
    BY Reading DEF TypeInv, Deployments
  <2>. QED BY <1>1, <2>1 DEF Handlers, Phases, Fits
<1>5. op2 \in Handlers /\ op2.job = ops[r].job /\ op2.phase = "cleanup" /\ Fits(op2)
  BY <1>1 DEF Handlers, Phases, Fits
<1>. HIDE DEF op1, op2
<1>. QED BY <1>2, <1>3, <1>4, <1>5, AdvanceMoves

\* onboardd gets a live row, with the promises it carries.
LEMMA RegisterMoves ==
    ASSUME TypeInv, NEW r \in Requests, NEW reached \in BOOLEAN,
           Register(r, reached)
    PROVE  Moves(r) /\ StoresOK'
<1>1. /\ ops[r] \in Handlers /\ Fits(ops[r]) /\ ops[r].phase = "new"
      /\ ops[r].job \in Jobs /\ ops[r].job.op = "direct"
  BY AtWork DEF Register, At, Does, TypeInv
<1>2. /\ ops[r].job.site \in Sites /\ ops[r].job.groups \in SUBSET Groups
      /\ ops[r].job.models \in SUBSET Models
  BY <1>1, SitesAssumption DEF Jobs
<1>3. [live |-> TRUE, models |-> ops[r].job.models, groups |-> ops[r].job.groups] \in Row
  BY <1>2 DEF Row
<1>4. sites' \in [Sites -> Row \cup {None}]
  BY <1>3 DEF Register, TypeInv, TypeOK
<1>5. promised' \subseteq Sites \X Names
  <2>1. \A m \in ops[r].job.models : m.name \in Names
    BY <1>2 DEF Models
  <2>2. promised' = promised \/ promised' = promised
            \cup {<<ops[r].job.site, m.name>> : m \in ops[r].job.models}
    BY DEF Register
  <2>. QED BY <1>2, <2>1, <2>2 DEF TypeInv, TypeOK
<1>6. StoresOK'
  BY <1>4, <1>5 DEF Register, TypeInv, TypeOK, StoresOK, litellm
<1>. DEFINE op == [ops[r] EXCEPT !.phase = "cleanup"]
<1>7. Answer(r, "ok") \/ Step(r, op)
  BY DEF Register
<1>8. op \in Handlers /\ op.job = ops[r].job /\ op.phase = "cleanup" /\ Fits(op)
  BY <1>1 DEF Handlers, Phases, Fits
<1>. HIDE DEF op
<1>. QED BY <1>6, <1>7, <1>8, AdvanceMoves, AnswerMoves

\* One fewer of the created deployments to take back.
LEMMA CleanUpMoves ==
    ASSUME TypeInv, NEW r \in Requests, NEW answer \in Answers, CleanUp(r, answer)
    PROVE  Moves(r) /\ StoresOK'
<1>1. /\ ops[r] \in Handlers /\ Fits(ops[r]) /\ ops[r].phase = "cleanup"
  BY AtWork DEF CleanUp, At, TypeInv
<1>2. PICK id \in ops[r].made :
        /\ Deletes(id, answer)
        /\ Step(r, [ops[r] EXCEPT !.made = @ \ {id},
                                  !.errors = @ \/ answer # "ok"])
  BY DEF CleanUp
<1>3. StoresOK'
  BY <1>2, DeletesTyped DEF CleanUp, TypeInv, TypeOK, StoresOK
<1>. DEFINE op == [ops[r] EXCEPT !.made = @ \ {id}, !.errors = @ \/ answer # "ok"]
<1>4. op \in Handlers /\ op.job = ops[r].job /\ op.phase = "cleanup" /\ Fits(op)
  BY <1>1 DEF Handlers, Fits
<1>. QED BY <1>2, <1>3, <1>4, AdvanceMoves

\* With nothing left to take back the registration fails.
LEMMA CleanedUpMoves ==
    ASSUME TypeInv, NEW r \in Requests, CleanedUp(r)
    PROVE  Moves(r) /\ StoresOK'
BY AnswerMoves DEF CleanedUp, TypeInv, TypeOK, StoresOK, litellm

\* One more key is moved, or the moved ones are to be taken back.
LEMMA RebindMoves ==
    ASSUME TypeInv, NEW r \in Requests, NEW answer \in Answers, Rebind(r, answer)
    PROVE  Moves(r) /\ StoresOK'
<1>1. /\ ops[r] \in Handlers /\ Fits(ops[r]) /\ ops[r].phase = "rebind"
      /\ ops[r].job \in Jobs /\ ops[r].job.op = "rename"
  BY AtWork DEF Rebind, At, TypeInv, Fits
<1>. DEFINE op1(k) == [ops[r] EXCEPT !.bound = @ \ {k}, !.moved = @ \cup {k}]
            op2 == [ops[r] EXCEPT !.phase = "unbind"]
<1>2. PICK k \in ops[r].bound :
         Rebinds(k, ops[r].job.to, answer) /\ (Step(r, op1(k)) \/ Step(r, op2))
  BY DEF Rebind
<1>3. k \in Keys /\ ops[r].job.to \in Groups
  BY <1>1 DEF Handlers, Jobs
<1>4. StoresOK'
  BY <1>2, <1>3, RebindsTyped DEF Rebind, TypeInv, TypeOK, StoresOK, litellm
<1>5. op1(k) \in Handlers /\ op1(k).job = ops[r].job /\ op1(k).phase = "rebind"
      /\ Fits(op1(k))
  BY <1>1, <1>3 DEF Handlers, Fits
<1>6. op2 \in Handlers /\ op2.job = ops[r].job /\ op2.phase = "unbind" /\ Fits(op2)
  BY <1>1 DEF Handlers, Phases, Fits
<1>. HIDE DEF op1, op2
<1>. QED BY <1>2, <1>4, <1>5, <1>6, AdvanceMoves

\* One fewer key to take back.
LEMMA UnbindMoves ==
    ASSUME TypeInv, NEW r \in Requests, NEW answer \in Answers, Unbind(r, answer)
    PROVE  Moves(r) /\ StoresOK'
<1>1. /\ ops[r] \in Handlers /\ Fits(ops[r]) /\ ops[r].phase = "unbind"
      /\ ops[r].job \in Jobs /\ ops[r].job.op = "rename"
  BY AtWork DEF Unbind, At, TypeInv, Fits
<1>. DEFINE op(k) == [ops[r] EXCEPT !.moved = @ \ {k}]
<1>2. PICK k \in ops[r].moved :
         Rebinds(k, ops[r].job.group, answer) /\ Step(r, op(k))
  BY DEF Unbind
<1>3. k \in Keys /\ ops[r].job.group \in Groups
  BY <1>1 DEF Handlers, Jobs
<1>4. StoresOK'
  BY <1>2, <1>3, RebindsTyped DEF Unbind, TypeInv, TypeOK, StoresOK, litellm
<1>5. op(k) \in Handlers /\ op(k).job = ops[r].job /\ op(k).phase = "unbind" /\ Fits(op(k))
  BY <1>1 DEF Handlers, Fits
<1>. QED BY <1>2, <1>4, <1>5, AdvanceMoves

\* With no key left to take back the rename fails.
LEMMA UnboundMoves ==
    ASSUME TypeInv, NEW r \in Requests, Unbound(r)
    PROVE  Moves(r) /\ StoresOK'
BY AnswerMoves DEF Unbound, TypeInv, TypeOK, StoresOK, litellm

\* With all keys rebound the rename goes on to the MCP entries.
LEMMA KeysDoneMoves ==
    ASSUME TypeInv, NEW r \in Requests, KeysDone(r)
    PROVE  Moves(r) /\ StoresOK'
<1>1. /\ ops[r] \in Handlers /\ Fits(ops[r]) /\ ops[r].phase = "rebind"
  BY AtWork DEF KeysDone, At, TypeInv
<1>2. StoresOK'
  BY DEF KeysDone, TypeInv, TypeOK, StoresOK, litellm
<1>. DEFINE op == [ops[r] EXCEPT !.phase = "mcp"]
<1>3. op \in Handlers /\ op.job = ops[r].job /\ op.phase = "mcp" /\ Fits(op)
  BY <1>1 DEF Handlers, Phases, Fits, Locked
<1>. QED BY <1>2, <1>3, AdvanceMoves DEF KeysDone

\* The MCP entries keep being bound to groups.
LEMMA CommitMoves ==
    ASSUME TypeInv, NEW r \in Requests, Commit(r)
    PROVE  Moves(r) /\ StoresOK'
<1>1. /\ ops[r].job \in Jobs /\ ops[r].job.op \in {"rename", "bind"}
  BY AtWork DEF Commit, At, TypeInv, Fits, Locked
<1>2. EntriesAfter(ops[r].job, mcp) \in [Entries -> SUBSET Groups]
  <2>1. CASE ops[r].job.op = "bind"
    <3>1. ops[r].job.groups \in SUBSET Groups
      BY <1>1, <2>1 DEF Jobs
    <3>. QED BY <2>1, <3>1 DEF EntriesAfter, TypeInv, TypeOK
  <2>2. CASE ops[r].job.op = "rename"
    <3>1. ops[r].job.to \in Groups
      BY <1>1, <2>2 DEF Jobs
    <3>. QED BY <2>2, <3>1 DEF EntriesAfter, TypeInv, TypeOK
  <2>. QED BY <1>1, <2>1, <2>2
<1>3. StoresOK'
  BY <1>2 DEF Commit, TypeInv, TypeOK, StoresOK, litellm
<1>4. Answer(r, "ok") \/ Answer(r, "failed")
  BY DEF Commit
<1>. QED BY <1>3, <1>4, AnswerMoves

\* A handler starts with the job it was asked for, and with the lock if the
\* job needs it.
LEMMA StartTyped ==
    ASSUME TypeInv, NEW r \in Requests, Start(r)
    PROVE  /\ HandlersOK' /\ StoresOK' /\ Alone(r)
           /\ ~At(r, "idle")' => Fits(ops[r])'
<1>1. StoresOK'
  BY DEF Start, TypeInv, TypeOK, StoresOK, litellm
<1>2. PICK job \in Asked, rows \in Read(sites, NoRows) :
        /\ job.op \in Locked => lock = None
        /\ IF Rejected(job, rows)
           THEN Answer(r, "refused")
           ELSE /\ ops' = [ops EXCEPT ![r] = [Idle EXCEPT
                    !.phase = IF job.op \in Groupwise THEN "deployments"
                                                      ELSE "list",
                    !.job = job,
                    !.rows = rows,
                    !.site = IF job.op = "groups" THEN job.site ELSE None,
                    !.tags = IF job.op = "groups" THEN job.groups ELSE {},
                    !.found = IF "serial" \in Habits
                              THEN [sites |-> sites, deps |-> deps, keys |-> keys]
                              ELSE None]]
                /\ lock' = IF job.op \in Locked THEN r ELSE lock
  BY DEF Start
<1>3. At(r, "idle") /\ ops[r].job = None /\ job \in Jobs
  BY JobsAssumption DEF Start, TypeInv, TypeOK
<1>4. lock # r
  BY <1>3 DEF TypeInv, TypeOK, Does
<1>5. rows \in [Sites -> Row \cup {None}]
  BY DEF Read, NoRows, TypeInv, TypeOK
<1>6. job # None
  BY NoneAssumption
<1>7. CASE Rejected(job, rows)
  <2>1. Answer(r, "refused") BY <1>2, <1>7
  <2>. QED BY <1>1, <2>1, AnswersTyped DEF TypeInv
<1>8. CASE ~Rejected(job, rows)
  <2>. DEFINE phase == IF job.op \in Groupwise THEN "deployments" ELSE "list"
              site  == IF job.op = "groups" THEN job.site ELSE None
              tags  == IF job.op = "groups" THEN job.groups ELSE {}
              found == IF "serial" \in Habits
                       THEN [sites |-> sites, deps |-> deps, keys |-> keys]
                       ELSE None
              op == [Idle EXCEPT !.phase = phase, !.job = job, !.rows = rows,
                                 !.site = site, !.tags = tags, !.found = found]
  <2>1. phase \in Phases /\ phase # "idle" /\ phase \in {"deployments", "list"}
    BY DEF Phases
  <2>2. site \in Sites \cup {None} /\ tags \in SUBSET Groups
    BY <1>3 DEF Jobs
  <2>3. found \in Portals \cup {None}
    BY DEF TypeInv, TypeOK, Portals
  <2>4. site # None => site = job.site /\ job.op \in OneSite
    BY DEF OneSite
  <2>5. phase = "deployments" => job.op \in Groupwise
    OBVIOUS
  <2>6. job.op \in OneSite => rows[job.site] \in Row
    <3>1. job.op \in OneSite => job.site \in Sites
      BY <1>3 DEF Jobs, OneSite
    <3>. QED BY <1>5, <1>8, <3>1 DEF Rejected, Live
  <2>7. ops' = [ops EXCEPT ![r] = op] /\ lock' = IF job.op \in Locked THEN r ELSE lock
    BY <1>2, <1>8
  <2>. HIDE DEF phase, site, tags, found
  <2>8. op \in Handlers
    BY <1>5, <2>1, <2>2, <2>3, IdleOK DEF Handlers
  <2>9. op.phase = phase /\ op.job = job /\ op.rows = rows /\ op.site = site /\ op.todo = {}
    BY DEF Idle
  <2>. HIDE DEF op
  <2>10. Fits(op)
    BY <2>1, <2>4, <2>5, <2>6, <2>9 DEF Fits
  <2>11. ops' \in [Requests -> Handlers] /\ ops'[r] = op
         /\ \A q \in Requests \ {r} : ops'[q] = ops[q]
    BY <2>7, <2>8 DEF TypeInv, TypeOK
  <2>12. lock' \in Requests \cup {None}
    BY <2>7 DEF TypeInv, TypeOK
  <2>13. ASSUME NEW q \in Requests
         PROVE  /\ ops'[q].phase = "idle" <=> ops'[q].job = None
                /\ (ops'[q].job # None /\ ops'[q].job.op \in Locked) <=> lock' = q
    <3>1. CASE q = r
      BY <3>1, <1>4, <1>6, <2>1, <2>7, <2>9, <2>11
    <3>2. CASE q # r
      <4>1. /\ ops[q].phase = "idle" <=> ops[q].job = None
            /\ (ops[q].job # None /\ ops[q].job.op \in Locked) <=> lock = q
        BY DEF TypeInv, TypeOK, At, Does
      <4>2. lock' = q <=> lock = q
        BY <1>2, <2>7, <3>2, NoneAssumption
      <4>. QED BY <3>2, <4>1, <4>2, <2>11
    <3>. QED BY <3>1, <3>2
  <2>. QED BY <1>1, <2>10, <2>11, <2>12, <2>13 DEF HandlersOK, At, Does, Fits, Alone
<1>. QED BY <1>7, <1>8

\* Requests of a single call leave well formed stores and no handler moves.
LEMMA SinglesTyped ==
    ASSUME TypeInv,
           \/ \E k \in Keys, g \in Groups \cup {"default"} :
                 api_keys_create(k, g) \/ api_keys_update(k, g)
           \/ \E k \in Keys : api_keys_delete(k)
           \/ \E s \in Sites : api_sites_revoke(s)
    PROVE  StoresOK' /\ UNCHANGED <<ops, lock>>
<1>1. CASE \E k \in Keys, g \in Groups \cup {"default"} :
              api_keys_create(k, g) \/ api_keys_update(k, g)
  BY <1>1 DEF api_keys_create, api_keys_update, TypeInv, TypeOK, StoresOK, litellm
<1>2. CASE \E k \in Keys : api_keys_delete(k)
  BY <1>2 DEF api_keys_delete, TypeInv, TypeOK, StoresOK, litellm
<1>3. ASSUME NEW s \in Sites, api_sites_revoke(s)
      PROVE  StoresOK' /\ UNCHANGED <<ops, lock>>
  <2>1. sites[s] \in Row
    BY <1>3 DEF api_sites_revoke, TypeInv, TypeOK
  <2>2. [sites[s] EXCEPT !.live = FALSE] \in Row
    BY <2>1 DEF Row
  <2>3. sites' = [sites EXCEPT ![s] = IF s \in DirectSites THEN None
                                      ELSE [sites[s] EXCEPT !.live = FALSE]]
    BY <1>3 DEF api_sites_revoke, TypeInv, TypeOK
  <2>4. sites' \in [Sites -> Row \cup {None}]
    BY <2>2, <2>3 DEF TypeInv, TypeOK
  <2>. QED BY <1>3, <2>4 DEF api_sites_revoke, TypeInv, TypeOK, StoresOK
<1>. QED BY <1>1, <1>2, <1>3

\* A portal whose stores agree, with no request under way, is well formed.
LEMMA InitTyped == Init => TypeInv
<1>. SUFFICES ASSUME Init PROVE TypeInv
  OBVIOUS
<1>1. deps \in SUBSET Deployments /\ nextId \in Nat \ {0}
  BY FirstAssumption DEF Init
<1>2. sites \in [Sites -> Row \cup {None}]
  <2>1. ASSUME NEW s \in Sites
        PROVE  sites[s] \in Row \cup {None}
    <3>1. /\ ModelsOf(Of(s, deps)) \subseteq Models
          /\ TagsOf(Of(s, deps)) \subseteq Groups
      <4>1. Of(s, deps) \in SUBSET Deployments
        BY <1>1, Listing
      <4>. QED BY <4>1, Listing
    <3>. QED BY <3>1 DEF Init, Row
  <2>. QED BY <2>1 DEF Init
<1>3. promised \subseteq Sites \X Names
  BY <1>1 DEF Init, Served, Deployments
<1>4. /\ ops \in [Requests -> Handlers] /\ lock = None
      /\ \A r \in Requests : ops[r].phase = "idle" /\ ops[r].job = None
  <2>1. Idle.phase = "idle" /\ Idle.job = None
    BY DEF Idle
  <2>. QED BY <2>1, IdleOK DEF Init
<1>. QED BY <1>1, <1>2, <1>3, <1>4, NoneAssumption DEF Init, TypeInv, TypeOK, At, Does

\* A step of a handler keeps everything well formed, and touches no other.
LEMMA ProceedTyped ==
    ASSUME TypeInv, NEW r \in Requests, Proceed(r)
    PROVE  /\ HandlersOK' /\ StoresOK' /\ Alone(r)
           /\ ~At(r, "idle")' => Fits(ops[r])'
<1>1. CASE Start(r)
  BY <1>1, StartTyped
<1>2. CASE ~Start(r)
  <2>1. Moves(r) /\ StoresOK' /\ ~At(r, "idle")
    <3>1. CASE \/ ReadDeployments(r) \/ ReadKeys(r) \/ NextSite(r)
               \/ ListForRetag(r) \/ GroupsFail(r) \/ SitesDone(r)
      BY <3>1, ReadDeploymentsMoves, ReadKeysMoves, NextSiteMoves,
         ListForRetagMoves, GroupsFailMoves, SitesDoneMoves
         DEF ReadDeployments, ReadKeys, NextSite, ListForRetag, GroupsFail,
             SitesDone, At
    <3>2. CASE \/ ListForAdd(r) \/ ListForRefresh(r) \/ ListForRemove(r)
               \/ ListForAlias(r) \/ AliasDone(r) \/ ListForDirect(r)
      BY <3>2, ListForAddMoves, ListForRefreshMoves, ListForRemoveMoves,
         ListForAliasMoves, AliasDoneMoves, ListForDirectMoves
         DEF ListForAdd, ListForRefresh, ListForRemove, ListForAlias,
             AliasDone, ListForDirect, At
    <3>3. CASE \/ FindMade(r) \/ CleanedUp(r) \/ Unbound(r) \/ KeysDone(r)
               \/ Commit(r)
      BY <3>3, FindMadeMoves, CleanedUpMoves, UnboundMoves, KeysDoneMoves,
         CommitMoves
         DEF FindMade, CleanedUp, Unbound, KeysDone, Commit, At
    <3>4. ASSUME NEW answer \in Answers,
                 \/ Replace(r, answer) \/ DeleteReplaced(r, answer)
                 \/ CreateAdded(r, answer) \/ DeleteRefreshed(r, answer)
                 \/ DeleteRemoved(r, answer)
          PROVE  Moves(r) /\ StoresOK' /\ ~At(r, "idle")
      BY <3>4, ReplaceMoves, DeleteReplacedMoves, CreateAddedMoves,
         DeleteRefreshedMoves, DeleteRemovedMoves
         DEF Replace, DeleteReplaced, CreateAdded, DeleteRefreshed,
             DeleteRemoved, At
    <3>5. ASSUME NEW answer \in Answers,
                 \/ CreateAlias(r, answer) \/ CreateDirect(r, answer)
                 \/ CleanUp(r, answer) \/ Rebind(r, answer) \/ Unbind(r, answer)
          PROVE  Moves(r) /\ StoresOK' /\ ~At(r, "idle")
      BY <3>5, CreateAliasMoves, CreateDirectMoves, CleanUpMoves, RebindMoves,
         UnbindMoves
         DEF CreateAlias, CreateDirect, CleanUp, Rebind, Unbind, At
    <3>6. ASSUME NEW reached \in BOOLEAN,
                 \/ SyncGroups(r, reached) \/ SyncModels(r, reached)
                 \/ Register(r, reached)
          PROVE  Moves(r) /\ StoresOK' /\ ~At(r, "idle")
      BY <3>6, SyncGroupsMoves, SyncModelsMoves, RegisterMoves
         DEF SyncGroups, SyncModels, Register, At
    <3>. QED BY <1>2, <3>1, <3>2, <3>3, <3>4, <3>5, <3>6 DEF Proceed
  <2>. QED BY <2>1, MovesKeepHandlers DEF TypeInv
<1>. QED BY <1>1, <1>2

\* Every step keeps the inductive invariant of types.
LEMMA NextTyped == TypeInv /\ [Next]_vars => TypeInv'
<1>. SUFFICES ASSUME TypeInv, [Next]_vars PROVE TypeInv'
  OBVIOUS
<1>1. CASE \E r \in Requests : Proceed(r)
  <2>1. PICK r \in Requests : Proceed(r)
    BY <1>1
  <2>2. /\ HandlersOK' /\ StoresOK' /\ Alone(r)
        /\ ~At(r, "idle")' => Fits(ops[r])'
    BY <2>1, ProceedTyped
  <2>3. ASSUME NEW q \in Requests \ {r}, ~At(q, "idle")'
        PROVE  Fits(ops[q])'
    <3>1. ops'[q] = ops[q]
      BY <2>2 DEF Alone
    <3>2. Fits(ops[q])
      BY <2>3, <3>1 DEF TypeInv, At
    <3>. QED BY <3>1, <3>2 DEF Fits
  <2>4. TypeOK'
    BY <2>2 DEF HandlersOK, StoresOK, TypeOK
  <2>. QED BY <2>2, <2>3, <2>4 DEF TypeInv
<1>2. CASE \/ \E k \in Keys, g \in Groups \cup {"default"} :
                 api_keys_create(k, g) \/ api_keys_update(k, g)
           \/ \E k \in Keys : api_keys_delete(k)
           \/ \E s \in Sites : api_sites_revoke(s)
  <2>1. StoresOK' /\ UNCHANGED <<ops, lock>>
    BY <1>2, SinglesTyped
  <2>. QED BY <2>1 DEF StoresOK, TypeInv, TypeOK, At, Does, Fits
<1>3. CASE UNCHANGED vars
  BY <1>3 DEF vars, litellm, TypeInv, TypeOK, At, Does, Fits
<1>. QED BY <1>1, <1>2, <1>3 DEF Next

\* Types, and the lock of the MCP registry: it is held exactly by the
\* rename or bind request that is under way, on every path and whatever
\* fails (serialized_mcp_mutation).
THEOREM TypeCorrect == Spec => []TypeOK
<1>1. TypeInv => TypeOK
  BY DEF TypeInv
<1>. QED BY <1>1, InitTyped, NextTyped, PTL DEF Spec

-------------------------------------------------------------------------------
(* Promises.  The deployments a handler still means to copy or delete are  *)
(* in its hand; an id stands for one model of one site, in LiteLLM and in  *)
(* every hand.  What serves a promise is never what a handler is about to  *)
(* delete: a handler that deletes has just created the like of it.         *)

Copying == Retags \cup {"refresh"}

Hand(op) ==
    (IF op.job # None /\ op.job.op \in Copying THEN op.work ELSE {})
    \cup (IF op.phase = "delete" THEN {op.old} ELSE {})

Known == deps \cup UNION {Hand(ops[q]) : q \in Requests}

AddsItsModel(op) ==
    op.job # None /\ op.job.op = "add"
        => \A d \in op.work : d.site = op.job.site /\ d.name = op.job.model.name

Doomed(id) == \E q \in Requests : At(q, "delete") /\ ops[q].old.id = id

PromiseInv ==
    /\ Known \subseteq Deployments
    /\ \A d \in Known : d.id < nextId
    /\ \A d, e \in Known : d.id = e.id => d.site = e.site /\ d.name = e.name
    /\ \A q \in Requests : AddsItsModel(ops[q])
    /\ \A p \in promised : \E d \in deps :
          d.site = p[1] /\ d.name = p[2] /\ ~Doomed(d.id)

OnlyCopies == \A job \in Asked : job.op # "direct"

\* A step that neither creates nor deletes.
LEMMA QuietKeepsPromises ==
    ASSUME TypeInv, PromiseInv, NEW r \in Requests, Alone(r),
           UNCHANGED litellm, promised' \subseteq promised,
           Hand(ops'[r]) \subseteq Known, AddsItsModel(ops'[r]),
           ops'[r].phase # "delete"
    PROVE  PromiseInv'
<1>1. Known' \subseteq Known
  BY DEF Known, Alone, litellm
<1>2. \A id : Doomed(id)' => Doomed(id)
  BY DEF Doomed, At, Alone
<1>3. \A q \in Requests : AddsItsModel(ops[q])'
  BY DEF PromiseInv, Alone, AddsItsModel
<1>. QED BY <1>1, <1>2, <1>3 DEF PromiseInv, litellm

\* A step that creates a deployment, after which what it replaces may be
\* deleted.
LEMMA CreationKeepsPromises ==
    ASSUME TypeInv, PromiseInv, NEW r \in Requests, Alone(r),
           NEW new \in Deployments, new.id = nextId,
           deps' = deps \cup {new}, nextId' = nextId + 1,
           promised' \subseteq promised \cup {<<new.site, new.name>>},
           Hand(ops'[r]) \subseteq Known, AddsItsModel(ops'[r]),
           ops'[r].phase = "delete" =>
              /\ ops'[r].old \in Known
              /\ ops'[r].old.site = new.site /\ ops'[r].old.name = new.name
    PROVE  PromiseInv'
<1>1. Known' \subseteq Known \cup {new}
  BY DEF Known, Alone
<1>2. \A d \in Known : d.id \in Nat /\ d.id < nextId /\ nextId \in Nat
  BY DEF PromiseInv, TypeInv, TypeOK, Deployments
<1>. nextId \in Nat
  BY DEF TypeInv, TypeOK
<1>3. \A d \in Known' : d.id < nextId'
  BY <1>1, <1>2
<1>4. \A d, e \in Known' : d.id = e.id => d.site = e.site /\ d.name = e.name
  BY <1>1, <1>2 DEF PromiseInv
<1>5. \A q \in Requests : AddsItsModel(ops[q])'
  BY DEF PromiseInv, Alone, AddsItsModel
<1>6. \A q \in Requests : At(q, "delete") => ops[q].old \in Known
  BY DEF Known, Hand, At
<1>7. ~Doomed(new.id)'
  <2>1. \A q \in Requests : At(q, "delete")' => ops'[q].old \in Known
    BY <1>6 DEF Alone, At
  <2>. QED BY <2>1, <1>2 DEF Doomed
<1>8. ASSUME NEW p \in promised'
      PROVE  \E d \in deps' : d.site = p[1] /\ d.name = p[2] /\ ~Doomed(d.id)'
  <2>1. CASE p = <<new.site, new.name>>
    BY <2>1, <1>7
  <2>2. CASE p # <<new.site, new.name>>
    <3>1. PICK d \in deps : d.site = p[1] /\ d.name = p[2] /\ ~Doomed(d.id)
      BY <2>2 DEF PromiseInv
    <3>2. CASE ops'[r].phase = "delete" /\ ops'[r].old.id = d.id
      <4>1. d \in Known BY DEF Known
      <4>2. d.site = new.site /\ d.name = new.name
        BY <3>2, <4>1 DEF PromiseInv
      <4>. QED BY <3>1, <4>2, <1>7
    <3>3. CASE ~(ops'[r].phase = "delete" /\ ops'[r].old.id = d.id)
      <4>1. ~Doomed(d.id)'
        BY <3>1, <3>3 DEF Doomed, At, Alone
      <4>. QED BY <3>1, <4>1
    <3>. QED BY <3>2, <3>3
  <2>. QED BY <2>1, <2>2
<1>9. Known' \subseteq Deployments
  BY <1>1 DEF PromiseInv
<1>. QED BY <1>3, <1>4, <1>5, <1>8, <1>9 DEF PromiseInv

\* A step that deletes what its handler was about to delete.
LEMMA DeletionKeepsPromises ==
    ASSUME TypeInv, PromiseInv, NEW r \in Requests, Alone(r),
           At(r, "delete"), deps' \subseteq deps,
           \A d \in deps : d.id # ops[r].old.id => d \in deps',
           UNCHANGED <<nextId, promised>>,
           Hand(ops'[r]) \subseteq Known, AddsItsModel(ops'[r]),
           ops'[r].phase # "delete"
    PROVE  PromiseInv'
<1>1. Known' \subseteq Known
  BY DEF Known, Alone
<1>2. \A id : Doomed(id)' => Doomed(id)
  BY DEF Doomed, At, Alone
<1>3. \A q \in Requests : AddsItsModel(ops[q])'
  BY DEF PromiseInv, Alone, AddsItsModel
<1>4. \A d \in deps : ~Doomed(d.id) => d \in deps'
  BY DEF Doomed
<1>. QED BY <1>1, <1>2, <1>3, <1>4 DEF PromiseInv

\* A handler that answers has nothing in its hand.
LEMMA AnswersEmptyHanded ==
    ASSUME TypeInv, NEW r \in Requests, NEW answer, Answer(r, answer)
    PROVE  /\ Alone(r) /\ Hand(ops'[r]) = {} /\ AddsItsModel(ops'[r])
           /\ ops'[r].phase # "delete"
<1>1. ops'[r] = [Idle EXCEPT !.answer = answer]
  BY DEF Answer, TypeInv, TypeOK
<1>2. ops'[r].job = None /\ ops'[r].phase = "idle"
  BY <1>1 DEF Idle
<1>3. Alone(r)
  BY DEF Answer, TypeInv, TypeOK, Alone
<1>. QED BY <1>2, <1>3 DEF Hand, AddsItsModel

\* A handler that goes on is the one that was advanced.
LEMMA Advances ==
    ASSUME TypeInv, NEW r \in Requests, NEW op, Step(r, op)
    PROVE  ops'[r] = op /\ Alone(r)
BY DEF Step, TypeInv, TypeOK, Alone

\* A handler that goes on with no more work than it had keeps its hand.
LEMMA KeepsHand ==
    ASSUME PromiseInv, NEW r \in Requests, NEW op, op.job = ops[r].job,
           op.work \subseteq ops[r].work, op.phase # "delete"
    PROVE  Hand(op) \subseteq Known /\ AddsItsModel(op)
<1>1. Hand(op) \subseteq Hand(ops[r])
  BY DEF Hand
<1>2. AddsItsModel(ops[r])
  BY DEF PromiseInv
<1>. QED BY <1>1, <1>2 DEF Known, AddsItsModel

\* Answering, when LiteLLM is as it was, keeps the promises.
LEMMA AnswerKeepsPromises ==
    ASSUME TypeInv, PromiseInv, NEW r \in Requests, NEW answer,
           Answer(r, answer), UNCHANGED litellm, promised' \subseteq promised
    PROVE  PromiseInv'
BY AnswersEmptyHanded, QuietKeepsPromises

\* So does going on with no more work than before.
LEMMA AdvanceKeepsPromises ==
    ASSUME TypeInv, PromiseInv, NEW r \in Requests, NEW op, Step(r, op),
           UNCHANGED litellm, promised' \subseteq promised,
           op.job = ops[r].job, op.work \subseteq ops[r].work,
           op.phase # "delete"
    PROVE  PromiseInv'
BY Advances, KeepsHand, QuietKeepsPromises

\* Listing deployments takes nothing in hand.
LEMMA ReadDeploymentsKeeps ==
    ASSUME TypeInv, PromiseInv, NEW r \in Requests, ReadDeployments(r)
    PROVE  PromiseInv'
<1>1. PICK seen : Step(r, [ops[r] EXCEPT !.phase = "keys", !.seen = seen])
  BY DEF ReadDeployments
<1>. DEFINE op == [ops[r] EXCEPT !.phase = "keys", !.seen = seen]
<1>2. op.job = ops[r].job /\ op.work = ops[r].work /\ op.phase = "keys"
  BY DEF TypeInv, TypeOK, Handlers
<1>. HIDE DEF op
<1>. QED BY <1>1, <1>2, AdvanceKeepsPromises DEF ReadDeployments, op

\* Neither does listing keys.
LEMMA ReadKeysKeeps ==
    ASSUME TypeInv, PromiseInv, NEW r \in Requests, ReadKeys(r)
    PROVE  PromiseInv'
<1>1. UNCHANGED litellm /\ promised' = promised
  BY DEF ReadKeys
<1>2. PICK ks :
         \/ Answer(r, "refused")
         \/ Step(r, [ops[r] EXCEPT
                !.phase = IF Does(r, {"bind"}) THEN "mcp" ELSE "sites",
                !.seen = {},
                !.todo = CASE Does(r, {"create"}) -> ops[r].job.members
                           [] Does(r, {"bind"})   -> {}
                           [] OTHER -> {s \in Sites : ops[r].rows[s] # None},
                !.bound = IF Does(r, {"rename"})
                          THEN {k \in Keys : ks[k] = ops[r].job.group}
                          ELSE {}])
  BY DEF ReadKeys
<1>. DEFINE phase == IF Does(r, {"bind"}) THEN "mcp" ELSE "sites"
            todo  == CASE Does(r, {"create"}) -> ops[r].job.members
                       [] Does(r, {"bind"})   -> {}
                       [] OTHER -> {s \in Sites : ops[r].rows[s] # None}
            bound == IF Does(r, {"rename"})
                     THEN {k \in Keys : ks[k] = ops[r].job.group} ELSE {}
            op == [ops[r] EXCEPT !.phase = phase, !.seen = {}, !.todo = todo,
                                 !.bound = bound]
<1>3. phase # "delete" OBVIOUS
<1>4. Answer(r, "refused") \/ Step(r, op) BY <1>2
<1>. HIDE DEF phase, todo, bound
<1>5. op.job = ops[r].job /\ op.work = ops[r].work /\ op.phase = phase
  BY DEF TypeInv, TypeOK, Handlers
<1>. HIDE DEF op
<1>. QED BY <1>1, <1>3, <1>4, <1>5, AnswerKeepsPromises, AdvanceKeepsPromises

\* Choosing a site takes nothing in hand.
LEMMA NextSiteKeeps ==
    ASSUME TypeInv, PromiseInv, NEW r \in Requests, NextSite(r)
    PROVE  PromiseInv'
<1>1. UNCHANGED litellm /\ promised' = promised
  BY DEF NextSite
<1>2. PICK s, tags :
         LET pass == [ops[r] EXCEPT !.todo = @ \ {s}]
         IN \/ Step(r, pass)
            \/ Step(r, [pass EXCEPT !.phase = "list", !.site = s, !.tags = tags])
  BY DEF NextSite
<1>. DEFINE pass == [ops[r] EXCEPT !.todo = @ \ {s}]
            op == [pass EXCEPT !.phase = "list", !.site = s, !.tags = tags]
<1>3. pass.job = ops[r].job /\ pass.work = ops[r].work /\ pass.phase = "sites"
  BY DEF TypeInv, TypeOK, Handlers, NextSite, At
<1>4. op.job = ops[r].job /\ op.work = ops[r].work /\ op.phase = "list"
  BY DEF TypeInv, TypeOK, Handlers
<1>5. Step(r, pass) \/ Step(r, op) BY <1>2
<1>. HIDE DEF op, pass
<1>. QED BY <1>1, <1>3, <1>4, <1>5, AdvanceKeepsPromises

\* A listing taken in hand is part of what LiteLLM holds.
LEMMA TakesInHand ==
    ASSUME TypeInv, PromiseInv, NEW r \in Requests, NEW op, Step(r, op),
           UNCHANGED litellm, promised' = promised,
           op.job = ops[r].job, op.job.op # "add",
           op.job.op \in Copying => op.work \subseteq deps,
           op.phase # "delete"
    PROVE  PromiseInv'
<1>1. Hand(op) \subseteq Known
  BY DEF Hand, Known
<1>2. AddsItsModel(op)
  BY DEF AddsItsModel
<1>. QED BY <1>1, <1>2, Advances, QuietKeepsPromises

\* A retag takes in hand what it has listed.
LEMMA ListForRetagKeeps ==
    ASSUME TypeInv, PromiseInv, NEW r \in Requests, ListForRetag(r)
    PROVE  PromiseInv'
<1>1. UNCHANGED litellm /\ promised' = promised
  BY DEF ListForRetag
<1>2. PICK listed \in Read(deps, {}) :
         Step(r, [ops[r] EXCEPT !.phase = "new", !.work = Of(ops[r].site, listed)])
  BY DEF ListForRetag
<1>. DEFINE work == Of(ops[r].site, listed)
            op == [ops[r] EXCEPT !.phase = "new", !.work = work]
<1>3. work \subseteq deps
  BY Reading DEF Of, TypeInv
<1>4. Step(r, op) BY <1>2
<1>. HIDE DEF work
<1>5. op.job = ops[r].job /\ op.work = work /\ op.phase = "new"
  BY DEF TypeInv, TypeOK, Handlers
<1>6. op.job.op # "add"
  BY <1>5 DEF ListForRetag, Does, Retags
<1>. HIDE DEF op
<1>. QED BY <1>1, <1>3, <1>4, <1>5, <1>6, TakesInHand

\* A refresh takes in hand the one deployment of its model.
LEMMA ListForRefreshKeeps ==
    ASSUME TypeInv, PromiseInv, NEW r \in Requests, ListForRefresh(r)
    PROVE  PromiseInv'
<1>1. UNCHANGED litellm /\ promised' = promised
  BY DEF ListForRefresh
<1>2. PICK listed \in Read(deps, {}) :
         \/ Answer(r, "refused") \/ Answer(r, "ok")
         \/ \E d \in listed :
               Step(r, [ops[r] EXCEPT !.phase = "new",
                                      !.seen = Of(ops[r].job.site, listed),
                                      !.work = {d}])
  BY DEF ListForRefresh, Listed, Of
<1>3. CASE Answer(r, "refused") \/ Answer(r, "ok")
  BY <1>1, <1>3, AnswerKeepsPromises
<1>4. ASSUME NEW d \in listed,
             Step(r, [ops[r] EXCEPT !.phase = "new",
                                    !.seen = Of(ops[r].job.site, listed),
                                    !.work = {d}])
      PROVE  PromiseInv'
  <2>. DEFINE seen == Of(ops[r].job.site, listed)
              work == {d}
              op == [ops[r] EXCEPT !.phase = "new", !.seen = seen, !.work = work]
  <2>1. work \subseteq deps
    BY Reading DEF TypeInv
  <2>2. Step(r, op) BY <1>4
  <2>. HIDE DEF work, seen
  <2>3. op.job = ops[r].job /\ op.work = work /\ op.phase = "new"
    BY DEF TypeInv, TypeOK, Handlers
  <2>4. op.job.op # "add"
    BY <2>3 DEF ListForRefresh, Does
  <2>. HIDE DEF op
  <2>. QED BY <1>1, <2>1, <2>2, <2>3, <2>4, TakesInHand
<1>. QED BY <1>2, <1>3, <1>4

\* An alias has nothing in hand: it copies, and never deletes.
LEMMA ListForAliasKeeps ==
    ASSUME TypeInv, PromiseInv, NEW r \in Requests, ListForAlias(r)
    PROVE  PromiseInv'
<1>1. UNCHANGED litellm /\ promised' = promised
  BY DEF ListForAlias
<1>2. PICK work : \/ Answer(r, "refused")
                  \/ Step(r, [ops[r] EXCEPT !.phase = "new", !.work = work])
  BY DEF ListForAlias
<1>. DEFINE op == [ops[r] EXCEPT !.phase = "new", !.work = work]
<1>3. op.job = ops[r].job /\ op.phase = "new"
  BY DEF TypeInv, TypeOK, Handlers
<1>4. op.job.op = "alias"
  BY <1>3 DEF ListForAlias, Does
<1>. HIDE DEF op
<1>. QED BY <1>1, <1>2, <1>3, <1>4, TakesInHand, AnswerKeepsPromises
            DEF Copying, Retags, op

\* An addition means to create the model it was asked for.
LEMMA ListForAddKeeps ==
    ASSUME TypeInv, PromiseInv, NEW r \in Requests, ListForAdd(r)
    PROVE  PromiseInv'
<1>1. UNCHANGED litellm /\ promised' = promised
  BY DEF ListForAdd
<1>2. PICK mine, tags :
         \/ Answer(r, "refused")
         \/ Step(r, [ops[r] EXCEPT
                 !.phase = "new", !.seen = mine,
                 !.work = {[id |-> 0, name |-> ops[r].job.model.name,
                            upstream |-> ops[r].job.model.upstream,
                            site |-> ops[r].job.site, tags |-> tags]}])
  BY DEF ListForAdd
<1>. DEFINE d == [id |-> 0, name |-> ops[r].job.model.name,
                  upstream |-> ops[r].job.model.upstream,
                  site |-> ops[r].job.site, tags |-> tags]
            work == {d}
            op == [ops[r] EXCEPT !.phase = "new", !.seen = mine, !.work = work]
<1>3. \A x \in work : x.site = ops[r].job.site /\ x.name = ops[r].job.model.name
  OBVIOUS
<1>4. Answer(r, "refused") \/ Step(r, op) BY <1>2
<1>. HIDE DEF d, work
<1>5. op.job = ops[r].job /\ op.work = work /\ op.phase = "new"
  BY DEF TypeInv, TypeOK, Handlers
<1>6. Hand(op) = {}
  BY <1>5 DEF Hand, Copying, Retags, ListForAdd, Does
<1>7. AddsItsModel(op)
  BY <1>3, <1>5 DEF AddsItsModel
<1>. HIDE DEF op
<1>. QED BY <1>1, <1>4, <1>5, <1>6, <1>7, Advances, QuietKeepsPromises,
            AnswerKeepsPromises

\* A removal withdraws the promise before it has the deployment to delete.
LEMMA ListForRemoveKeeps ==
    ASSUME TypeInv, PromiseInv, NEW r \in Requests, ListForRemove(r)
    PROVE  PromiseInv'
<1>1. UNCHANGED litellm
  BY DEF ListForRemove
<1>2. PICK listed \in Read(deps, {}) :
         \/ Answer(r, "refused") /\ UNCHANGED promised
         \/ \E d \in Listed(ops[r].job.name, Of(ops[r].job.site, listed)) :
              /\ Step(r, [ops[r] EXCEPT !.phase = "delete",
                             !.seen = Of(ops[r].job.site, listed), !.old = d])
              /\ promised' = promised \ {<<ops[r].job.site, ops[r].job.name>>}
  BY DEF ListForRemove
<1>3. CASE Answer(r, "refused") /\ UNCHANGED promised
  BY <1>1, <1>3, AnswerKeepsPromises
<1>4. ASSUME NEW d \in Listed(ops[r].job.name, Of(ops[r].job.site, listed)),
             Step(r, [ops[r] EXCEPT !.phase = "delete",
                          !.seen = Of(ops[r].job.site, listed), !.old = d]),
             promised' = promised \ {<<ops[r].job.site, ops[r].job.name>>}
      PROVE  PromiseInv'
  <2>. DEFINE seen == Of(ops[r].job.site, listed)
              op == [ops[r] EXCEPT !.phase = "delete", !.seen = seen, !.old = d]
  <2>1. d \in deps /\ d.site = ops[r].job.site /\ d.name = ops[r].job.name
    BY Reading DEF Listed, Of, TypeInv
  <2>2. Step(r, op) BY <1>4
  <2>. HIDE DEF seen
  <2>3. /\ op.job = ops[r].job /\ op.work = ops[r].work
        /\ op.phase = "delete" /\ op.old = d
    BY DEF TypeInv, TypeOK, Handlers
  <2>4. ops[r].phase = "list" /\ op.job.op = "remove"
    BY <2>3 DEF ListForRemove, At, Does
  <2>. HIDE DEF op
  <2>5. ops'[r] = op /\ Alone(r)
    BY <2>2, Advances
  <2>6. Hand(op) = {d}
    BY <2>3, <2>4 DEF Hand, Copying, Retags
  <2>7. AddsItsModel(op)
    BY <2>4 DEF AddsItsModel
  <2>8. Known' \subseteq Known
    BY <1>1, <2>1, <2>5, <2>6 DEF Known, Alone, litellm
  <2>9. \A q \in Requests : AddsItsModel(ops[q])'
    BY <2>5, <2>7 DEF PromiseInv, Alone, AddsItsModel
  <2>10. \A id : Doomed(id)' => Doomed(id) \/ id = d.id
    BY <2>3, <2>5 DEF Doomed, At, Alone
  <2>11. ASSUME NEW p \in promised'
         PROVE  \E e \in deps' : e.site = p[1] /\ e.name = p[2] /\ ~Doomed(e.id)'
    <3>1. p \in promised /\ p # <<ops[r].job.site, ops[r].job.name>>
      BY <1>4
    <3>2. PICK e \in deps : e.site = p[1] /\ e.name = p[2] /\ ~Doomed(e.id)
      BY <3>1 DEF PromiseInv
    <3>3. p = <<p[1], p[2]>>
      BY <3>1 DEF TypeInv, TypeOK
    <3>4. e.id # d.id
      <4>1. e \in Known /\ d \in Known
        BY <2>1 DEF Known
      <4>. QED BY <2>1, <3>1, <3>2, <3>3, <4>1 DEF PromiseInv
    <3>. QED BY <1>1, <2>10, <3>2, <3>4 DEF litellm
  <2>. QED BY <1>1, <2>8, <2>9, <2>11 DEF PromiseInv, litellm
<1>. QED BY <1>2, <1>3, <1>4

\* What creating does: nothing, or one more deployment under a new id.
LEMMA CreatesOneMore ==
    ASSUME TypeInv, NEW d \in Deployments, NEW answer, Creates(d, answer)
    PROVE  \/ answer = "refused" /\ UNCHANGED litellm
           \/ \E new \in Deployments :
                 /\ new.id = nextId /\ new.site = d.site /\ new.name = d.name
                 /\ deps' = deps \cup {new} /\ nextId' = nextId + 1
<1>. DEFINE new == [d EXCEPT !.id = nextId]
<1>1. new \in Deployments /\ new.id = nextId /\ new.site = d.site /\ new.name = d.name
  BY DEF TypeInv, TypeOK, Deployments
<1>2. answer # "refused" => deps' = deps \cup {new} /\ nextId' = nextId + 1
  BY DEF Creates
<1>. HIDE DEF new
<1>. QED BY <1>1, <1>2 DEF Creates

\* The replacement serves what the replaced one, doomed now, served.
LEMMA ReplaceKeeps ==
    ASSUME TypeInv, PromiseInv, NEW r \in Requests, NEW answer \in Answers,
           Replace(r, answer)
    PROVE  PromiseInv'
<1>1. /\ ops[r] \in Handlers /\ ops[r].phase = "new" /\ ops[r].job \in Jobs
      /\ ops[r].job # None /\ ops[r].job.op \in Copying
      /\ promised' = promised
  BY AtWork DEF Replace, At, Does, Copying, TypeInv
<1>2. PICK d \in ops[r].work :
        /\ Creates(Replacement(ops[r], d), answer)
        /\ CASE answer = "ok" ->
                  Step(r, [ops[r] EXCEPT !.phase = "delete", !.old = d])
             [] answer # "ok" /\ Does(r, Retags) ->
                  Step(r, [ops[r] EXCEPT !.work = @ \ {d}, !.errors = TRUE])
             [] OTHER -> Answer(r, "failed")
  BY DEF Replace
<1>3. d \in Deployments /\ d \in Known
  BY <1>1 DEF Handlers, Known, Hand
<1>4. /\ Replacement(ops[r], d) \in Deployments
      /\ Replacement(ops[r], d).site = d.site
      /\ Replacement(ops[r], d).name = d.name
  <2>1. CASE ops[r].job.op = "refresh"
    <3>1. ops[r].job.model.upstream \in Upstreams
      BY <1>1, <2>1 DEF Jobs, Models
    <3>. QED BY <1>3, <2>1, <3>1 DEF Replacement, Deployments
  <2>2. CASE ops[r].job.op # "refresh"
    BY <1>1, <1>3, <2>2 DEF Replacement, Deployments, Handlers
  <2>. QED BY <2>1, <2>2
<1>. DEFINE next(op) ==
        /\ ops'[r] = op /\ Alone(r)
        /\ Hand(op) \subseteq Known /\ AddsItsModel(op)
        /\ op.phase = "delete" => answer = "ok" /\ op.old = d
<1>5. \E op : next(op)
  <2>1. CASE answer = "ok"
    <3>. DEFINE op == [ops[r] EXCEPT !.phase = "delete", !.old = d]
    <3>1. Step(r, op) BY <1>2, <2>1
    <3>2. op.job = ops[r].job /\ op.work = ops[r].work /\ op.phase = "delete" /\ op.old = d
      BY <1>1 DEF Handlers
    <3>. HIDE DEF op
    <3>3. Hand(op) \subseteq Hand(ops[r]) \cup {d}
      BY <3>2 DEF Hand
    <3>4. Hand(op) \subseteq Known
      BY <1>3, <3>3 DEF Known
    <3>5. AddsItsModel(op)
      BY <1>1, <3>2 DEF AddsItsModel, Copying, Retags
    <3>. QED BY <2>1, <3>1, <3>2, <3>4, <3>5, Advances
  <2>2. CASE answer # "ok" /\ Does(r, Retags)
    <3>. DEFINE op == [ops[r] EXCEPT !.work = @ \ {d}, !.errors = TRUE]
    <3>1. Step(r, op) BY <1>2, <2>2
    <3>2. op.job = ops[r].job /\ op.work \subseteq ops[r].work /\ op.phase = "new"
      BY <1>1 DEF Handlers
    <3>. HIDE DEF op
    <3>. QED BY <3>1, <3>2, Advances, KeepsHand
  <2>3. CASE answer # "ok" /\ ~Does(r, Retags)
    <3>1. Answer(r, "failed") BY <1>2, <2>3
    <3>. QED BY <3>1, AnswersEmptyHanded
  <2>. QED BY <2>1, <2>2, <2>3
<1>6. PICK op : next(op)
  BY <1>5
<1>7. CASE answer = "refused" /\ UNCHANGED litellm
  BY <1>1, <1>6, <1>7, QuietKeepsPromises
<1>8. ASSUME NEW new \in Deployments,
             new.id = nextId, new.site = d.site, new.name = d.name,
             deps' = deps \cup {new}, nextId' = nextId + 1
      PROVE  PromiseInv'
  BY <1>1, <1>3, <1>6, <1>8, CreationKeepsPromises
<1>. QED BY <1>2, <1>4, <1>7, <1>8, CreatesOneMore

\* An added model is there when it is promised.
LEMMA CreateAddedKeeps ==
    ASSUME TypeInv, PromiseInv, NEW r \in Requests, NEW answer \in Answers,
           CreateAdded(r, answer)
    PROVE  PromiseInv'
<1>1. /\ ops[r] \in Handlers /\ ops[r].phase = "new" /\ ops[r].job # None
      /\ ops[r].job.op = "add"
  BY AtWork DEF CreateAdded, At, Does, TypeInv
<1>2. PICK d \in ops[r].work : Creates(d, answer)
  BY DEF CreateAdded
<1>3. /\ d \in Deployments /\ d.site = ops[r].job.site
      /\ d.name = ops[r].job.model.name
  BY <1>1 DEF Handlers, PromiseInv, AddsItsModel
<1>. DEFINE op == [ops[r] EXCEPT !.phase = "models", !.work = {}]
<1>4. op.job = ops[r].job /\ op.work = {} /\ op.phase = "models"
  BY <1>1 DEF Handlers
<1>5. \/ Step(r, op) /\ answer = "ok" /\ promised' = promised \cup {<<d.site, d.name>>}
      \/ Answer(r, "failed") /\ promised' = promised
  BY <1>3 DEF CreateAdded
<1>. HIDE DEF op
<1>6. /\ Alone(r) /\ Hand(ops'[r]) \subseteq Known /\ AddsItsModel(ops'[r])
      /\ ops'[r].phase # "delete"
  BY <1>4, <1>5, Advances, KeepsHand, AnswersEmptyHanded
<1>7. CASE answer = "refused" /\ UNCHANGED litellm
  BY <1>5, <1>6, <1>7, QuietKeepsPromises
<1>8. ASSUME NEW new \in Deployments,
             new.id = nextId, new.site = d.site, new.name = d.name,
             deps' = deps \cup {new}, nextId' = nextId + 1
      PROVE  PromiseInv'
  <2>1. promised' \subseteq promised \cup {<<new.site, new.name>>}
    BY <1>5, <1>8
  <2>. QED BY <1>6, <1>8, <2>1, CreationKeepsPromises
<1>. QED BY <1>2, <1>3, <1>7, <1>8, CreatesOneMore

\* An alias is there when it is promised.
LEMMA CreateAliasKeeps ==
    ASSUME TypeInv, PromiseInv, NEW r \in Requests, NEW answer \in Answers,
           CreateAlias(r, answer)
    PROVE  PromiseInv'
<1>1. ops[r] \in Handlers /\ ops[r].phase = "new"
  BY AtWork DEF CreateAlias, At, TypeInv
<1>. DEFINE op(d) == [ops[r] EXCEPT
                        !.work = @ \ {d},
                        !.made = IF answer = "ok" THEN @ \cup {nextId} ELSE @]
<1>2. PICK d \in ops[r].work :
        /\ Creates(d, answer) /\ Step(r, op(d))
        /\ promised' = IF answer = "ok" THEN promised \cup {<<d.site, d.name>>}
                                        ELSE promised
  BY DEF CreateAlias
<1>3. d \in Deployments
  BY <1>1 DEF Handlers
<1>4. op(d).job = ops[r].job /\ op(d).work \subseteq ops[r].work /\ op(d).phase = "new"
  BY <1>1 DEF Handlers
<1>. HIDE DEF op
<1>5. /\ Alone(r) /\ Hand(ops'[r]) \subseteq Known /\ AddsItsModel(ops'[r])
      /\ ops'[r].phase # "delete"
  BY <1>2, <1>4, Advances, KeepsHand
<1>6. CASE answer = "refused" /\ UNCHANGED litellm
  BY <1>2, <1>5, <1>6, QuietKeepsPromises
<1>7. ASSUME NEW new \in Deployments,
             new.id = nextId, new.site = d.site, new.name = d.name,
             deps' = deps \cup {new}, nextId' = nextId + 1
      PROVE  PromiseInv'
  <2>1. promised' \subseteq promised \cup {<<new.site, new.name>>}
    BY <1>2, <1>7
  <2>. QED BY <1>5, <1>7, <2>1, CreationKeepsPromises
<1>. QED BY <1>2, <1>3, <1>6, <1>7, CreatesOneMore

\* The replaced one was doomed: no promise needs it.
LEMMA DeleteReplacedKeeps ==
    ASSUME TypeInv, PromiseInv, NEW r \in Requests, NEW answer \in Answers,
           DeleteReplaced(r, answer)
    PROVE  PromiseInv'
<1>. DEFINE op == [ops[r] EXCEPT !.phase = "new", !.old = None,
                                 !.work = @ \ {ops[r].old},
                                 !.errors = @ \/ answer # "ok"]
<1>1. op.job = ops[r].job /\ op.work \subseteq ops[r].work /\ op.phase = "new"
  BY DEF TypeInv, TypeOK, Handlers
<1>2. Step(r, op) BY DEF DeleteReplaced
<1>. HIDE DEF op
<1>3. /\ Alone(r) /\ Hand(ops'[r]) \subseteq Known /\ AddsItsModel(ops'[r])
      /\ ops'[r].phase # "delete"
  BY <1>1, <1>2, Advances, KeepsHand
<1>. QED BY <1>3, DeletionKeepsPromises DEF DeleteReplaced, Deletes

\* The refreshed or removed one was doomed: no promise needs it.
LEMMA DeleteListedKeeps ==
    ASSUME TypeInv, PromiseInv, NEW r \in Requests, NEW answer \in Answers,
           DeleteRefreshed(r, answer) \/ DeleteRemoved(r, answer)
    PROVE  PromiseInv'
<1>. DEFINE op == [ops[r] EXCEPT !.phase = "models"]
<1>1. op.job = ops[r].job /\ op.work \subseteq ops[r].work /\ op.phase = "models"
  BY DEF TypeInv, TypeOK, Handlers
<1>2. Step(r, op) \/ Answer(r, "failed")
  BY DEF DeleteRefreshed, DeleteRemoved
<1>. HIDE DEF op
<1>3. /\ Alone(r) /\ Hand(ops'[r]) \subseteq Known /\ AddsItsModel(ops'[r])
      /\ ops'[r].phase # "delete"
  BY <1>1, <1>2, Advances, KeepsHand, AnswersEmptyHanded
<1>. QED BY <1>3, DeletionKeepsPromises DEF DeleteRefreshed, DeleteRemoved, Deletes

\* A handler starts with empty hands.
LEMMA StartKeeps ==
    ASSUME TypeInv, PromiseInv, NEW r \in Requests, Start(r)
    PROVE  PromiseInv'
<1>1. UNCHANGED litellm /\ promised' = promised
  BY DEF Start
<1>2. PICK job \in Asked, rows \in Read(sites, NoRows) :
        IF Rejected(job, rows)
        THEN Answer(r, "refused")
        ELSE ops' = [ops EXCEPT ![r] = [Idle EXCEPT
                !.phase = IF job.op \in Groupwise THEN "deployments"
                                                  ELSE "list",
                !.job = job,
                !.rows = rows,
                !.site = IF job.op = "groups" THEN job.site ELSE None,
                !.tags = IF job.op = "groups" THEN job.groups ELSE {},
                !.found = IF "serial" \in Habits
                          THEN [sites |-> sites, deps |-> deps, keys |-> keys]
                          ELSE None]]
  BY DEF Start
<1>3. CASE Answer(r, "refused")
  BY <1>1, <1>3, AnswerKeepsPromises
<1>4. CASE ~Answer(r, "refused")
  <2>. DEFINE phase == IF job.op \in Groupwise THEN "deployments" ELSE "list"
              site  == IF job.op = "groups" THEN job.site ELSE None
              tags  == IF job.op = "groups" THEN job.groups ELSE {}
              found == IF "serial" \in Habits
                       THEN [sites |-> sites, deps |-> deps, keys |-> keys]
                       ELSE None
              op == [Idle EXCEPT !.phase = phase, !.job = job, !.rows = rows,
                                 !.site = site, !.tags = tags, !.found = found]
  <2>0. phase \in {"deployments", "list"}
    OBVIOUS
  <2>2. ops'[r] = op /\ Alone(r)
    BY <1>2, <1>4 DEF TypeInv, TypeOK, Alone
  <2>. HIDE DEF phase, site, tags, found
  <2>1. op.work = {} /\ op.phase = phase
    BY DEF Idle
  <2>. HIDE DEF op
  <2>3. Hand(op) = {} /\ AddsItsModel(op) /\ op.phase # "delete"
    BY <2>0, <2>1 DEF Hand, AddsItsModel
  <2>. QED BY <1>1, <2>2, <2>3, QuietKeepsPromises
<1>. QED BY <1>3, <1>4

\* Telling onboardd changes nothing in LiteLLM.
LEMMA SyncKeeps ==
    ASSUME TypeInv, PromiseInv, NEW r \in Requests, NEW reached \in BOOLEAN,
           SyncGroups(r, reached) \/ SyncModels(r, reached)
    PROVE  PromiseInv'
<1>1. UNCHANGED litellm /\ promised' = promised
  BY DEF SyncGroups, SyncModels
<1>. DEFINE op == [ops[r] EXCEPT !.phase = "sites", !.site = None, !.tags = {}]
<1>2. op.job = ops[r].job /\ op.work \subseteq ops[r].work /\ op.phase = "sites"
  BY DEF TypeInv, TypeOK, Handlers
<1>3. Step(r, op) \/ Answer(r, "ok") \/ Answer(r, "failed")
  BY DEF SyncGroups, SyncModels
<1>. HIDE DEF op
<1>. QED BY <1>1, <1>2, <1>3, AdvanceKeepsPromises, AnswerKeepsPromises

\* Going from the sites to the keys and from there to MCP changes nothing.
LEMMA PhasesKeep ==
    ASSUME TypeInv, PromiseInv, NEW r \in Requests,
           SitesDone(r) \/ KeysDone(r)
    PROVE  PromiseInv'
<1>1. UNCHANGED litellm /\ promised' = promised
  BY DEF SitesDone, KeysDone
<1>. DEFINE op(phase) == [ops[r] EXCEPT !.phase = phase]
<1>2. ASSUME NEW phase
      PROVE  /\ op(phase).job = ops[r].job /\ op(phase).work \subseteq ops[r].work
             /\ op(phase).phase = phase
  BY DEF TypeInv, TypeOK, Handlers
<1>3. \/ Step(r, op("rebind")) \/ Step(r, op("mcp"))
      \/ Answer(r, "ok") \/ Answer(r, "failed")
  BY DEF SitesDone, KeysDone
<1>. HIDE DEF op
<1>. QED BY <1>1, <1>2, <1>3, AdvanceKeepsPromises, AnswerKeepsPromises

\* Moving keys, there and back, changes no deployment.
LEMMA RebindsKeep ==
    ASSUME TypeInv, PromiseInv, NEW r \in Requests, NEW answer \in Answers,
           Rebind(r, answer) \/ Unbind(r, answer)
    PROVE  PromiseInv'
<1>1. UNCHANGED litellm /\ promised' = promised
  BY DEF Rebind, Unbind
<1>. DEFINE op1(k) == [ops[r] EXCEPT !.bound = @ \ {k}, !.moved = @ \cup {k}]
            op2 == [ops[r] EXCEPT !.phase = "unbind"]
            op3(k) == [ops[r] EXCEPT !.moved = @ \ {k}]
<1>2. PICK k : Step(r, op1(k)) \/ Step(r, op2) \/ Step(r, op3(k))
  BY DEF Rebind, Unbind
<1>3. ops[r].phase \in {"rebind", "unbind"} /\ ops[r] \in Handlers
  BY DEF Rebind, Unbind, At, TypeInv, TypeOK
<1>4. /\ op1(k).job = ops[r].job /\ op1(k).work = ops[r].work
      /\ op1(k).phase = ops[r].phase
  BY <1>3 DEF Handlers
<1>5. op2.job = ops[r].job /\ op2.work = ops[r].work /\ op2.phase = "unbind"
  BY <1>3 DEF Handlers
<1>6. /\ op3(k).job = ops[r].job /\ op3(k).work = ops[r].work
      /\ op3(k).phase = ops[r].phase
  BY <1>3 DEF Handlers
<1>. HIDE DEF op1, op2, op3
<1>. QED BY <1>1, <1>2, <1>3, <1>4, <1>5, <1>6, AdvanceKeepsPromises

\* The ends of a job change no deployment.
LEMMA AnswersKeep ==
    ASSUME TypeInv, PromiseInv, NEW r \in Requests,
           GroupsFail(r) \/ AliasDone(r) \/ Unbound(r) \/ Commit(r)
    PROVE  PromiseInv'
<1>1. UNCHANGED litellm /\ promised' = promised
  BY DEF GroupsFail, AliasDone, Unbound, Commit
<1>2. Answer(r, "ok") \/ Answer(r, "failed")
  BY DEF GroupsFail, AliasDone, Unbound, Commit
<1>. QED BY <1>1, <1>2, AnswerKeepsPromises

\* Nobody registers a Direct site.
LEMMA NoDirect ==
    ASSUME TypeInv, OnlyCopies, NEW r \in Requests
    PROVE  /\ ~ListForDirect(r) /\ ~FindMade(r) /\ ~CleanedUp(r)
           /\ \A answer : ~CreateDirect(r, answer) /\ ~CleanUp(r, answer)
           /\ \A reached : ~Register(r, reached)
<1>1. ops[r].job # None => ops[r].job.op # "direct"
  BY DEF TypeInv, TypeOK, Handlers, OnlyCopies
<1>2. ~Does(r, {"direct"})
  BY <1>1 DEF Does
<1>3. ~At(r, "find") /\ ~At(r, "cleanup")
  BY <1>1 DEF TypeInv, TypeOK, Fits, At
<1>. QED BY <1>2, <1>3 DEF ListForDirect, FindMade, CleanedUp, CreateDirect,
            CleanUp, Register

\* A step of a handler keeps the promises.
LEMMA ProceedKeeps ==
    ASSUME TypeInv, PromiseInv, OnlyCopies, NEW r \in Requests, Proceed(r)
    PROVE  PromiseInv'
<1>1. CASE \/ Start(r) \/ ReadDeployments(r) \/ ReadKeys(r) \/ NextSite(r)
           \/ ListForRetag(r) \/ GroupsFail(r) \/ SitesDone(r)
  BY <1>1, StartKeeps, ReadDeploymentsKeeps, ReadKeysKeeps, NextSiteKeeps,
     ListForRetagKeeps, AnswersKeep, PhasesKeep
<1>2. CASE \/ ListForAdd(r) \/ ListForRefresh(r) \/ ListForRemove(r)
           \/ ListForAlias(r) \/ AliasDone(r) \/ Unbound(r) \/ KeysDone(r)
           \/ Commit(r)
  BY <1>2, ListForAddKeeps, ListForRefreshKeeps, ListForRemoveKeeps,
     ListForAliasKeeps, AnswersKeep, PhasesKeep
<1>3. ASSUME NEW answer \in Answers,
             \/ Replace(r, answer) \/ DeleteReplaced(r, answer)
             \/ CreateAdded(r, answer) \/ DeleteRefreshed(r, answer)
             \/ DeleteRemoved(r, answer) \/ CreateAlias(r, answer)
             \/ Rebind(r, answer) \/ Unbind(r, answer)
      PROVE  PromiseInv'
  BY <1>3, ReplaceKeeps, DeleteReplacedKeeps, CreateAddedKeeps,
     DeleteListedKeeps, CreateAliasKeeps, RebindsKeep
<1>4. ASSUME NEW reached \in BOOLEAN,
             SyncGroups(r, reached) \/ SyncModels(r, reached)
      PROVE  PromiseInv'
  BY <1>4, SyncKeeps
<1>. QED BY <1>1, <1>2, <1>3, <1>4, NoDirect DEF Proceed

\* Revoking a site withdraws its promises with its deployments.
LEMMA RevokeKeeps ==
    ASSUME TypeInv, PromiseInv, NEW s \in Sites, api_sites_revoke(s)
    PROVE  PromiseInv'
<1>1. /\ deps' \subseteq deps /\ nextId' = nextId /\ ops' = ops
      /\ promised' = promised \ ({s} \X Names)
      /\ \A d \in deps : d.site # s => d \in deps'
  BY DEF api_sites_revoke, Of
<1>2. Known' \subseteq Known
  BY <1>1 DEF Known
<1>3. \A id : Doomed(id)' <=> Doomed(id)
  BY <1>1 DEF Doomed, At
<1>4. ASSUME NEW p \in promised'
      PROVE  \E d \in deps' : d.site = p[1] /\ d.name = p[2] /\ ~Doomed(d.id)'
  <2>1. p \in promised /\ p[1] # s
    BY <1>1 DEF TypeInv, TypeOK
  <2>2. PICK d \in deps : d.site = p[1] /\ d.name = p[2] /\ ~Doomed(d.id)
    BY <2>1 DEF PromiseInv
  <2>. QED BY <1>1, <1>3, <2>1, <2>2
<1>. QED BY <1>1, <1>2, <1>4 DEF PromiseInv

\* Every step keeps the inductive invariant of promises.
LEMMA NextKeeps ==
    ASSUME OnlyCopies, TypeInv, PromiseInv, [Next]_vars
    PROVE  PromiseInv'
<1>1. CASE \E r \in Requests : Proceed(r)
  BY <1>1, ProceedKeeps
<1>2. CASE \E s \in Sites : api_sites_revoke(s)
  BY <1>2, RevokeKeeps
<1>3. CASE UNCHANGED <<deps, nextId, ops, promised>>
  BY <1>3 DEF PromiseInv, Known, Doomed, At
<1>4. CASE \/ \E k \in Keys, g \in Groups \cup {"default"} :
                 api_keys_create(k, g) \/ api_keys_update(k, g)
           \/ \E k \in Keys : api_keys_delete(k)
  <2>1. UNCHANGED <<deps, nextId, ops, promised>>
    BY <1>4 DEF api_keys_create, api_keys_update, api_keys_delete, litellm
  <2>. QED BY <1>3, <2>1
<1>. QED BY <1>1, <1>2, <1>3, <1>4 DEF Next, vars, litellm

\* The deployments there at the start are the promised ones.
LEMMA InitKeeps == Init => PromiseInv
<1>. SUFFICES ASSUME Init PROVE PromiseInv
  OBVIOUS
<1>1. \A q \in Requests : ops[q].job = None /\ ops[q].phase = "idle"
  BY DEF Init, Idle
<1>2. Known = deps
  BY <1>1 DEF Known, Hand
<1>3. \A q \in Requests : AddsItsModel(ops[q])
  BY <1>1 DEF AddsItsModel
<1>4. /\ deps \subseteq Deployments
      /\ \A d \in deps : d.id < nextId
      /\ \A d, e \in deps : d.id = e.id => d = e
  BY FirstAssumption DEF Init
<1>5. \A p \in promised : \E d \in deps :
         d.site = p[1] /\ d.name = p[2] /\ ~Doomed(d.id)
  BY <1>1 DEF Init, Served, Doomed, At
<1>. QED BY <1>2, <1>3, <1>4, <1>5 DEF PromiseInv

\* Whatever requests run together, whatever fails and however the answers
\* are lost: a model once served is served until somebody asks for its end.
\* Direct registrations are left out: one that fails deletes what another
\* one, of the same site, may have adopted.
THEOREM PromisesAlwaysKept == ASSUME OnlyCopies PROVE Spec => []PromisesKept
<1>1. Init => TypeInv /\ PromiseInv
  BY InitTyped, InitKeeps
<1>2. TypeInv /\ PromiseInv /\ [Next]_vars => (TypeInv /\ PromiseInv)'
  BY NextTyped, NextKeeps
<1>3. PromiseInv => PromisesKept
  BY DEF PromiseInv, PromisesKept
<1>. QED BY <1>1, <1>2, <1>3, PTL DEF Spec

-------------------------------------------------------------------------------
(* Requests that come one at a time.  What the handler at work found at    *)
(* the start is in `found'; the invariant says how far it has got from     *)
(* there, whatever calls have failed.                                      *)

\* d and f stand for the same model at the same site.
Same(d, f) == d.name = f.name /\ d.upstream = f.upstream /\ d.site = f.site

\* The groups a site was in at the start.
GroupsThen(op, s) == TagsOf(Of(s, op.found.deps))

\* The sites a job has to do with: a rename or a deletion those of the group.
Retagged(op, s) ==
    op.job.op \in {"groups", "create"} \/ op.job.group \in GroupsThen(op, s)

\* d was made by the handler in the place of f, with the groups of the site
\* edited.
Image(op, d, f) ==
    /\ \A e \in op.found.deps : e.id # d.id
    /\ Same(d, f) /\ Retagged(op, f.site)
    /\ d.tags = NewGroups(op.job, GroupsThen(op, f.site))

\* What there is was there at the start, or was made in the place of such a one.
Copied(op, ds) ==
    \A d \in ds : d \in op.found.deps \/ \E f \in op.found.deps : Image(op, d, f)

\* Nothing has been done to the site.
Untouched(op, s, ds, ss) ==
    Of(s, ds) = Of(s, op.found.deps) /\ ss[s] = op.found.sites[s]

\* All has been done: every deployment is replaced and the row is written.
Settled(op, s, ds, ss) ==
    /\ \A f \in Of(s, op.found.deps) : \E d \in ds : Image(op, d, f)
    /\ \A d \in Of(s, ds) : \E f \in op.found.deps : Image(op, d, f)
    /\ ss[s] = IF op.found.sites[s] = None THEN None
               ELSE [op.found.sites[s] EXCEPT !.groups = NewGroups(op.job, @)]

\* The site at hand: its deployments are still to be replaced, or are.
InWork(op, ds) ==
    /\ \A f \in Of(op.site, op.found.deps) : f \in op.work \/ \E d \in ds : Image(op, d, f)
    /\ \A d \in Of(op.site, ds) : d \in op.work \/ \E f \in op.found.deps : Image(op, d, f)

\* The sites still to be listed.
Pending(op) == op.todo \cup (IF op.phase = "list" THEN {op.site} ELSE {})

\* The sites that are gone through.
Scope(op) == CASE op.job.op = "groups" -> {op.job.site}
               [] op.job.op = "create" -> op.job.members
               [] OTHER -> {s \in Sites : op.found.sites[s] # None}

\* As long as nothing failed each site is untouched, settled or at hand, and
\* what is left untouched has not come up yet or is none of the job's.
Sorted(op, ds, ss) ==
    /\ op.phase \in {"new", "delete"} => InWork(op, ds)
    /\ \A s \in Sites :
        \/ s = op.site /\ op.phase \in {"new", "delete"}
        \/ /\ Untouched(op, s, ds, ss)
           /\ s \in Scope(op) => s \in Pending(op) \/ ~Retagged(op, s)
        \/ Settled(op, s, ds, ss)

\* Before the job is judged nothing is changed.
Early == {"deployments", "keys"}

\* The ids there were at the start are used up, each for one deployment.
FoundIds(op, next) ==
    /\ \A f \in op.found.deps : f.id < next
    /\ \A f, g \in op.found.deps : f.id = g.id => f = g

\* What a handler that retags knows of the deployments ds and the rows ss.
RetagInv(op, ds, ss) ==
    /\ Copied(op, ds)
    /\ \A s \in Pending(op) : Untouched(op, s, ds, ss)
    /\ op.site \notin op.todo
    /\ op.phase \in {"list", "new", "delete"} =>
          /\ op.site \in Sites /\ Retagged(op, op.site)
          /\ op.tags = NewGroups(op.job, GroupsThen(op, op.site))
    /\ op.phase \in {"new", "delete"} =>
          op.work \subseteq Of(op.site, op.found.deps) /\ ss[op.site] = op.found.sites[op.site]
    /\ op.phase = "delete" => op.old \in op.work /\ \E d \in ds : Image(op, d, op.old)
    /\ ~op.errors => Sorted(op, ds, ss)

\* What one that renames knows of the keys: each is as it was, or was bound to
\* the old name and is to the new one, which nothing had at the start.
RenameInv(op, ks) ==
    LET g == op.job.group
        was == op.found.keys
    IN /\ \A k \in Keys : was[k] # op.job.to
       /\ g # op.job.to
       /\ Tidy(op.found) => \A f \in op.found.deps : op.job.to \notin f.tags
       /\ \A k \in Keys : ks[k] = was[k] \/ (was[k] = g /\ ks[k] = op.job.to)
       /\ \A k \in op.bound \cup op.moved : was[k] = g
       /\ op.phase \in {"rebind", "mcp"} => ~op.errors /\ op.todo = {}
       /\ op.phase \notin {"unbind"} =>
            \A k \in Keys : was[k] = g => k \in op.bound \/ ks[k] = op.job.to
       /\ op.phase = "mcp" => op.bound = {}

\* What one that deletes a group knows: nothing is bound to it.
DeleteInv(op, ks, entries) ==
    /\ \A k \in Keys : ks[k] # op.job.group
    /\ \A e \in Entries : op.job.group \notin entries[e]

\* The jobs that edit the models of one site.
Edits == {"add", "refresh", "remove"}

\* The deployment that a model that is added gets.
Added(op, d) == d.name = op.job.model.name /\ d.upstream = op.job.model.upstream
                /\ d.site = op.job.site
                /\ d.tags = TagsOf(Of(op.job.site, op.found.deps))
                              \cup op.found.sites[op.job.site].groups

\* The one that takes the place of op.old when a model is refreshed.
Refreshed(op, d) == d.name = op.job.model.name /\ d.upstream = op.job.model.upstream
                    /\ d.site = op.job.site /\ d.tags = op.old.tags
                    /\ \A e \in op.found.deps : e.id # d.id

\* The site as it is when its row can be written: the models are those the
\* handler will write, and the groups are as they were.
Edited(op, ds) ==
    LET s == op.job.site
    IN /\ \A t \in Sites \ {s} : Of(t, ds) = Of(t, op.found.deps)
       /\ ModelsOf(Of(s, ds)) = ModelsAfter(op)
       /\ \A d \in Of(s, ds) : \/ \E f \in Of(s, op.found.deps) : d.tags = f.tags
                               \/ op.job.op = "add" /\ Added(op, d)

\* What a handler that edits models knows of the deployments and the rows.
EditInv(op, ds, ss) ==
    LET mine == Of(op.job.site, op.found.deps)
    IN /\ ss = op.found.sites /\ Live(ss[op.job.site])
       /\ op.phase # "list" => op.seen = mine
       /\ op.phase \in {"list", "new"} => ds = op.found.deps
       /\ op.phase = "new" => \A d \in op.work :
             IF op.job.op = "add" THEN Added(op, d)
                                  ELSE d \in mine /\ d.name = op.job.model.name
       /\ op.phase = "delete" =>
             /\ op.old \in mine
             /\ op.job.op = "remove" => ds = op.found.deps
             /\ op.job.op # "remove" => /\ op.old.name = op.job.model.name
                                        /\ \E new \in ds : Refreshed(op, new)
                                                          /\ ds = op.found.deps \cup {new}
       /\ op.phase = "models" => Edited(op, ds)

\* A registration names no two models alike.
Named(job) == \A m, n \in job.models : m.name = n.name => m = n

\* The deployment d is the one whose creation gave no id.
Unnamed(op, d) == op.old # None /\ d = [op.old EXCEPT !.id = d.id]

\* What a handler that registers a Direct site knows: what was there is there,
\* and what is new it can take back, but for the one whose creation gave no id.
DirectInv(op, ds, ss) ==
    LET s == op.job.site
        new == ds \ op.found.deps
    IN /\ ~Live(op.found.sites[s])
       /\ \A t \in Sites \ {s} : ss[t] = op.found.sites[t]
       /\ op.found.deps \subseteq ds /\ \A d \in new : d.site = s
       /\ \A f \in op.found.deps : f.id \notin op.made
       /\ op.phase = "list" => new = {}
       /\ op.phase \in {"list", "new", "find"} => ~op.errors
       /\ op.phase # "list" => op.seen = op.found.deps
       /\ op.phase = "find" => "noId" \in Faults /\ op.old \in op.work
       /\ \A w \in op.work : w.site = s
       /\ op.phase \in {"list", "new"} => op.old = None
       /\ op.phase = "new" /\ Tells(op.job) => \A d \in new : d.id \in op.made
       /\ op.phase = "cleanup" /\ ~op.errors /\ Tells(op.job)
             => \A d, e \in new : d.id \in op.made \/ e.id \in op.made
                                  \/ (d = e /\ Unnamed(op, d))
       /\ Named(op.job) =>
             /\ \A v, w \in op.work : v.name = w.name => v = w
             /\ op.phase = "new" => \A d \in new, w \in op.work : d.name # w.name
             /\ op.phase = "find" =>
                   /\ \A d \in new, w \in op.work : d.name = w.name => w = op.old
                   /\ \A d \in new : d.id \in op.made
                                     \/ (d.name = op.old.name /\ Unnamed(op, d))
                   /\ \A d, e \in new : d.name = op.old.name /\ e.name = op.old.name
                                           => d = e

\* What a handler at work knows.
HandlerInv(r) ==
    LET op == ops[r]
        f == op.found
    IN /\ f \in Portals /\ op.rows = f.sites /\ FoundIds(op, nextId)
       /\ op.phase \in Early => /\ deps = f.deps /\ sites = f.sites /\ keys = f.keys
                                    /\ op.site = None /\ op.moved = {} /\ op.todo = {}
       /\ op.phase = "keys" => op.seen = f.deps
       /\ Does(r, Retags) /\ op.phase \notin Early => RetagInv(op, deps, sites)
       /\ Does(r, {"rename"}) /\ op.phase \notin Early => RenameInv(op, keys)
       /\ Does(r, {"delete"}) /\ op.phase \notin Early => DeleteInv(op, keys, mcp)
       /\ Does(r, Edits) => EditInv(op, deps, sites)
       /\ Does(r, {"direct"}) => DirectInv(op, deps, sites)

\* An id stands for one deployment, and LiteLLM has not used the next one.
Ids == /\ \A d \in deps : d.id < nextId
       /\ \A d, e \in deps : d.id = e.id => d = e

\* One request at a time.
OneAtWork == \A r, q \in Requests : ~At(r, "idle") /\ ~At(q, "idle") => r = q

\* The inductive invariant of requests that come one at a time.
SInv == Ids /\ OneAtWork /\ \A r \in Requests : ~At(r, "idle") => HandlerInv(r)

-------------------------------------------------------------------------------
(* One handler at work *)

\* A handler that is at rest can only start.
LEMMA AtRestStarts ==
    ASSUME NEW r \in Requests, Proceed(r), At(r, "idle")
    PROVE  Start(r)
<1>1. ~\/ ReadDeployments(r) \/ ReadKeys(r) \/ NextSite(r) \/ ListForRetag(r)
       \/ GroupsFail(r) \/ SitesDone(r) \/ ListForAdd(r) \/ ListForRefresh(r)
       \/ ListForRemove(r) \/ ListForAlias(r) \/ AliasDone(r)
  BY DEF ReadDeployments, ReadKeys, NextSite, ListForRetag, GroupsFail, SitesDone,
         ListForAdd, ListForRefresh, ListForRemove, ListForAlias, AliasDone, At
<1>2. ~\/ ListForDirect(r) \/ FindMade(r) \/ CleanedUp(r) \/ Unbound(r)
       \/ KeysDone(r) \/ Commit(r)
  BY DEF ListForDirect, FindMade, CleanedUp, Unbound, KeysDone, Commit, At
<1>3. ASSUME NEW answer
      PROVE  ~\/ Replace(r, answer) \/ DeleteReplaced(r, answer)
              \/ CreateAdded(r, answer) \/ DeleteRefreshed(r, answer)
              \/ DeleteRemoved(r, answer) \/ CreateAlias(r, answer)
              \/ CreateDirect(r, answer) \/ CleanUp(r, answer)
              \/ Rebind(r, answer) \/ Unbind(r, answer)
  BY DEF Replace, DeleteReplaced, CreateAdded, DeleteRefreshed, DeleteRemoved,
         CreateAlias, CreateDirect, CleanUp, Rebind, Unbind, At
<1>4. ASSUME NEW reached
      PROVE  ~\/ SyncGroups(r, reached) \/ SyncModels(r, reached) \/ Register(r, reached)
  BY DEF SyncGroups, SyncModels, Register, At
<1>. QED BY <1>1, <1>2, <1>3, <1>4 DEF Proceed

\* While one of the requests that come one at a time is at work nothing else happens.
LEMMA StepsOfOne ==
    ASSUME TypeInv, "serial" \in Habits, OneAtWork, [Next]_vars,
           NEW r \in Requests, ~At(r, "idle")
    PROVE  UNCHANGED vars \/ (Proceed(r) /\ ~Start(r) /\ Alone(r))
<1>1. ~Admitted
  BY DEF Admitted
<1>2. ASSUME NEW q \in Requests, Proceed(q)
      PROVE  Proceed(r) /\ ~Start(r) /\ Alone(r)
  <2>1. ~Start(q)
    BY <1>1 DEF Start
  <2>2. q = r
    BY <1>2, <2>1, AtRestStarts DEF OneAtWork
  <2>. QED BY <1>2, <2>1, <2>2, ProceedTyped
<1>3. ~\/ \E k \in Keys, g \in Groups \cup {"default"} :
             api_keys_create(k, g) \/ api_keys_update(k, g)
       \/ \E k \in Keys : api_keys_delete(k)
       \/ \E s \in Sites : api_sites_revoke(s)
  BY <1>1 DEF api_keys_create, api_keys_update, api_keys_delete, api_sites_revoke
<1>. QED BY <1>2, <1>3 DEF Next

\* So there is one at work at most.
LEMMA NextOne ==
    ASSUME TypeInv, "serial" \in Habits, OneAtWork, [Next]_vars
    PROVE  OneAtWork'
<1>1. CASE \E r \in Requests : ~At(r, "idle")
  <2>1. PICK r \in Requests : ~At(r, "idle")
    BY <1>1
  <2>2. UNCHANGED ops \/ Alone(r)
    BY <2>1, StepsOfOne DEF vars
  <2>. QED BY <2>1, <2>2 DEF OneAtWork, At, Alone
<1>2. CASE \A r \in Requests : At(r, "idle")
  <2>1. ASSUME NEW r \in Requests, Proceed(r)
        PROVE  Alone(r)
    BY <2>1, ProceedTyped
  <2>2. UNCHANGED ops \/ \E r \in Requests : Alone(r)
    <3>1. CASE \E r \in Requests : Proceed(r)
      BY <2>1, <3>1
    <3>2. CASE ~\E r \in Requests : Proceed(r)
      BY <3>2 DEF Next, api_keys_create, api_keys_update, api_keys_delete,
                  api_sites_revoke, vars
    <3>. QED BY <3>1, <3>2
  <2>. QED BY <1>2, <2>2 DEF OneAtWork, At, Alone
<1>. QED BY <1>1, <1>2

\* A step makes one deployment, of an id never used, or only takes some away.
LitellmSteps ==
    \/ deps' \subseteq deps /\ nextId' = nextId
    \/ \E new \in Deployments :
          new.id = nextId /\ deps' = deps \cup {new} /\ nextId' = nextId + 1

\* LiteLLM is only ever written in this way.
LEMMA NextLitellm == ASSUME TypeInv, [Next]_vars PROVE LitellmSteps
<1>1. ASSUME UNCHANGED litellm PROVE LitellmSteps
  BY <1>1 DEF litellm, LitellmSteps
<1>2. ASSUME NEW d \in Deployments, NEW answer, Creates(d, answer) PROVE LitellmSteps
  BY <1>1, <1>2, CreatesOneMore DEF LitellmSteps
<1>3. ASSUME NEW id, NEW answer, Deletes(id, answer) PROVE LitellmSteps
  BY <1>3 DEF Deletes, LitellmSteps
<1>4. ASSUME NEW r \in Requests PROVE ops[r].work \subseteq Deployments /\ ops[r] \in Handlers
  BY DEF TypeInv, TypeOK, Handlers
<1>5. ASSUME NEW r \in Requests, NEW answer, Replace(r, answer) PROVE LitellmSteps
  <2>1. PICK d \in ops[r].work : Creates(Replacement(ops[r], d), answer)
    BY <1>5 DEF Replace
  <2>2. d \in Deployments /\ ops[r] \in Handlers /\ ops[r].job \in Jobs /\ ops[r].job # None
    BY <1>4, <1>5, AtWork DEF Replace, At, Does, Handlers
  <2>3. Replacement(ops[r], d) \in Deployments
    <3>1. CASE ops[r].job.op = "refresh"
      <4>1. ops[r].job.model.upstream \in Upstreams
        BY <2>2, <3>1 DEF Jobs, Models
      <4>. QED BY <2>2, <3>1, <4>1 DEF Replacement, Deployments
    <3>2. CASE ops[r].job.op # "refresh"
      BY <2>2, <3>2 DEF Replacement, Deployments, Handlers
    <3>. QED BY <3>1, <3>2
  <2>. QED BY <1>2, <2>1, <2>3
<1>6. ASSUME NEW r \in Requests, Proceed(r) PROVE LitellmSteps
  <2>1. CASE \/ Start(r) \/ ReadDeployments(r) \/ ReadKeys(r)
             \/ NextSite(r) \/ ListForRetag(r) \/ GroupsFail(r) \/ SitesDone(r)
             \/ ListForAdd(r) \/ ListForRefresh(r) \/ ListForRemove(r)
             \/ ListForAlias(r) \/ AliasDone(r)
    BY <1>1, <2>1 DEF Start, ReadDeployments, ReadKeys, NextSite, ListForRetag, GroupsFail,
          SitesDone, ListForAdd, ListForRefresh, ListForRemove, ListForAlias, AliasDone
  <2>2. CASE \/ ListForDirect(r) \/ FindMade(r) \/ CleanedUp(r)
             \/ Unbound(r) \/ KeysDone(r) \/ Commit(r)
    BY <1>1, <2>2 DEF ListForDirect, FindMade, CleanedUp, Unbound, KeysDone, Commit
  <2>3. ASSUME NEW answer \in Answers,
               \/ CreateAdded(r, answer) \/ CreateAlias(r, answer) \/ CreateDirect(r, answer)
        PROVE  LitellmSteps
    BY <1>2, <1>4, <2>3 DEF CreateAdded, CreateAlias, CreateDirect
  <2>4. ASSUME NEW answer \in Answers,
               \/ DeleteReplaced(r, answer) \/ DeleteRefreshed(r, answer)
               \/ DeleteRemoved(r, answer) \/ CleanUp(r, answer)
        PROVE  LitellmSteps
    BY <1>3, <2>4 DEF DeleteReplaced, DeleteRefreshed, DeleteRemoved, CleanUp
  <2>5. ASSUME NEW answer \in Answers, Rebind(r, answer) \/ Unbind(r, answer)
        PROVE  LitellmSteps
    BY <1>1, <2>5 DEF Rebind, Unbind
  <2>6. ASSUME NEW reached \in BOOLEAN,
               SyncGroups(r, reached) \/ SyncModels(r, reached) \/ Register(r, reached)
        PROVE  LitellmSteps
    BY <1>1, <2>6 DEF SyncGroups, SyncModels, Register
  <2>. QED BY <1>5, <1>6, <2>1, <2>2, <2>3, <2>4, <2>5, <2>6 DEF Proceed
<1>7. ASSUME NEW s \in Sites, api_sites_revoke(s) PROVE LitellmSteps
  BY <1>7 DEF api_sites_revoke, LitellmSteps
<1>8. CASE \/ \E k \in Keys, g \in Groups \cup {"default"} :
                 api_keys_create(k, g) \/ api_keys_update(k, g)
           \/ \E k \in Keys : api_keys_delete(k)
           \/ UNCHANGED vars
  <2>1. UNCHANGED litellm
    BY <1>8 DEF api_keys_create, api_keys_update, api_keys_delete, vars, litellm
  <2>. QED BY <1>1, <2>1
<1>. QED BY <1>6, <1>7, <1>8 DEF Next

\* LiteLLM uses an id once.
LEMMA NextIds == ASSUME TypeInv, Ids, [Next]_vars PROVE Ids' /\ nextId <= nextId'
<1>1. LitellmSteps BY NextLitellm
<1>2. nextId \in Nat /\ \A d \in deps : d.id \in Nat
  BY DEF TypeInv, TypeOK, Deployments
<1>. QED BY <1>1, <1>2 DEF LitellmSteps, Ids

\* What a handler was asked to do and has read at the start it keeps.
LEMMA KeepsReading ==
    ASSUME TypeInv, NEW r \in Requests, Proceed(r), ~Start(r), ~At(r, "idle")'
    PROVE  /\ ops'[r].job = ops[r].job /\ ops'[r].found = ops[r].found
           /\ ops'[r].rows = ops[r].rows
           /\ ops'[r].phase \in Early => ReadDeployments(r)
<1>. DEFINE Keeps == /\ ops'[r].job = ops[r].job /\ ops'[r].found = ops[r].found
                     /\ ops'[r].rows = ops[r].rows
                     /\ ops'[r].phase \in Early => ReadDeployments(r)
<1>1. ops[r] \in Handlers
  BY DEF TypeInv, TypeOK
<1>2. \A answer : ~Answer(r, answer)
  BY AnswersTyped, <1>1 DEF Answer, Idle, At, TypeInv, TypeOK
<1>3. ASSUME NEW op, Step(r, op), op.job = ops[r].job, op.found = ops[r].found,
             op.rows = ops[r].rows, op.phase \in Early => ReadDeployments(r)
      PROVE  Keeps
  BY <1>3, Advances
<1>4. CASE ReadDeployments(r) \/ ReadKeys(r)
  BY <1>1, <1>2, <1>3, <1>4 DEF ReadDeployments, ReadKeys, Handlers, At, Early
<1>5. CASE NextSite(r) \/ ListForRetag(r)
  BY <1>1, <1>2, <1>3, <1>5 DEF NextSite, ListForRetag, Handlers, At, Early
<1>6. CASE SitesDone(r) \/ ListForAdd(r)
  BY <1>1, <1>2, <1>3, <1>6 DEF SitesDone, ListForAdd, Handlers, At, Early
<1>7. CASE ListForRefresh(r) \/ ListForRemove(r)
  BY <1>1, <1>2, <1>3, <1>7 DEF ListForRefresh, ListForRemove, Handlers, At, Early
<1>8. CASE ListForAlias(r) \/ ListForDirect(r)
  BY <1>1, <1>2, <1>3, <1>8 DEF ListForAlias, ListForDirect, Handlers, At, Early
<1>9. CASE FindMade(r) \/ KeysDone(r)
  BY <1>1, <1>2, <1>3, <1>9 DEF FindMade, KeysDone, Handlers, At, Early
<1>10. CASE GroupsFail(r) \/ AliasDone(r) \/ CleanedUp(r) \/ Unbound(r) \/ Commit(r)
  BY <1>2, <1>10 DEF GroupsFail, AliasDone, CleanedUp, Unbound, Commit
<1>11. ASSUME NEW answer \in Answers, Replace(r, answer) \/ DeleteReplaced(r, answer)
       PROVE  Keeps
  BY <1>1, <1>2, <1>3, <1>11 DEF Replace, DeleteReplaced, Handlers, At, Early
<1>12. ASSUME NEW answer \in Answers,
              \/ CreateAdded(r, answer) \/ DeleteRefreshed(r, answer)
              \/ DeleteRemoved(r, answer)
       PROVE  Keeps
  BY <1>1, <1>2, <1>3, <1>12 DEF CreateAdded, DeleteRefreshed, DeleteRemoved, Handlers, At, Early
<1>13. ASSUME NEW answer \in Answers, CreateAlias(r, answer) \/ CreateDirect(r, answer)
       PROVE  Keeps
  BY <1>1, <1>2, <1>3, <1>13 DEF CreateAlias, CreateDirect, Handlers, At, Early
<1>14. ASSUME NEW answer \in Answers,
              CleanUp(r, answer) \/ Rebind(r, answer) \/ Unbind(r, answer)
       PROVE  Keeps
  BY <1>1, <1>2, <1>3, <1>14 DEF CleanUp, Rebind, Unbind, Handlers, At, Early
<1>15. ASSUME NEW reached \in BOOLEAN,
              SyncGroups(r, reached) \/ SyncModels(r, reached) \/ Register(r, reached)
       PROVE  Keeps
  BY <1>1, <1>2, <1>3, <1>15 DEF SyncGroups, SyncModels, Register, Handlers, At, Early
<1>. QED BY <1>4, <1>5, <1>6, <1>7, <1>8, <1>9, <1>10, <1>11, <1>12, <1>13, <1>14, <1>15
         DEF Proceed

-------------------------------------------------------------------------------
(* Groups of sites: what a retagging handler does to deployments and rows *)

\* What was made for what depends on the job and on what was found at the start.
LEMMA SameJob ==
    ASSUME NEW op, NEW n, n.job = op.job, n.found = op.found
    PROVE  /\ \A s : GroupsThen(n, s) = GroupsThen(op, s)
           /\ \A s : Retagged(n, s) <=> Retagged(op, s)
           /\ \A d, f : Image(n, d, f) <=> Image(op, d, f)
           /\ \A ds : Copied(n, ds) <=> Copied(op, ds)
           /\ \A s, ds, ss : Untouched(n, s, ds, ss) <=> Untouched(op, s, ds, ss)
           /\ \A s, ds, ss : Settled(n, s, ds, ss) <=> Settled(op, s, ds, ss)
           /\ Scope(n) = Scope(op)
<1>1. \A s : GroupsThen(n, s) = GroupsThen(op, s)
  BY DEF GroupsThen
<1>2. \A s : Retagged(n, s) <=> Retagged(op, s)
  BY <1>1 DEF Retagged
<1>3. \A d, f : Image(n, d, f) <=> Image(op, d, f)
  BY <1>1, <1>2 DEF Image
<1>. QED BY <1>1, <1>2, <1>3 DEF Copied, Untouched, Settled, Scope

\* A handler begins with nothing retagged.
LEMMA RetagBegins ==
    ASSUME NEW n, NEW ds, NEW ss, ds = n.found.deps, ss = n.found.sites,
           n.todo \cup {n.site} \subseteq Sites \cup {None}, n.site \notin n.todo,
           \/ n.phase = "sites" /\ n.todo = Scope(n)
           \/ /\ n.phase = "list" /\ n.job.op = "groups" /\ n.todo = {}
              /\ n.site = n.job.site /\ n.site \in Sites /\ n.tags = n.job.groups
    PROVE  RetagInv(n, ds, ss)
<1>1. Copied(n, ds) BY DEF Copied
<1>2. \A s : Untouched(n, s, ds, ss) BY DEF Untouched
<1>3. n.phase \notin {"new", "delete"} /\ \A s : s \in Scope(n) => s \in Pending(n)
  BY DEF Scope, Pending
<1>4. n.phase = "list" => Retagged(n, n.site) /\ n.tags = NewGroups(n.job, GroupsThen(n, n.site))
  BY DEF Retagged, NewGroups
<1>. QED BY <1>1, <1>2, <1>3, <1>4 DEF RetagInv, Sorted

\* Between the sites, and after them, only the phase changes.
LEMMA RetagRests ==
    ASSUME NEW op, NEW n, NEW ds, NEW ss, RetagInv(op, ds, ss),
           n.job = op.job, n.found = op.found, n.todo = op.todo, n.site = op.site,
           n.errors = op.errors,
           op.phase \notin {"list", "new", "delete"}, n.phase \notin {"list", "new", "delete"}
    PROVE  RetagInv(n, ds, ss)
<1>1. Pending(n) = Pending(op)
  BY DEF Pending
<1>. QED BY <1>1, SameJob DEF RetagInv, Sorted

\* The next site is one nothing has been done to.
LEMMA RetagNextSite ==
    ASSUME NEW op, NEW n, NEW ds, NEW ss, RetagInv(op, ds, ss), NEW s \in op.todo,
           op.todo \subseteq Sites,
           n.job = op.job, n.found = op.found, n.todo = op.todo \ {s}, n.errors = op.errors,
           op.phase = "sites", op.job.op \in {"create", "rename", "delete"},
           LET current == TagsOf(Of(s, ds))
           IN IF op.job.op = "create" \/ op.job.group \in current
              THEN n.phase = "list" /\ n.site = s /\ n.tags = NewGroups(op.job, current)
              ELSE n.phase = "sites" /\ n.site = op.site
    PROVE  RetagInv(n, ds, ss)
<1>1. Untouched(op, s, ds, ss)
  BY DEF RetagInv, Pending
<1>2. TagsOf(Of(s, ds)) = GroupsThen(op, s)
  BY <1>1 DEF Untouched, GroupsThen
<1>3. CASE op.job.op = "create" \/ op.job.group \in GroupsThen(op, s)
  <2>1. n.phase = "list" /\ n.site = s /\ n.tags = NewGroups(op.job, GroupsThen(op, s))
    BY <1>2, <1>3
  <2>2. Retagged(op, s) BY <1>3 DEF Retagged
  <2>3. Pending(n) = Pending(op) BY <2>1 DEF Pending
  <2>. QED BY <2>1, <2>2, <2>3, SameJob DEF RetagInv, Sorted
<1>4. CASE ~(op.job.op = "create" \/ op.job.group \in GroupsThen(op, s))
  <2>1. n.phase = "sites" /\ n.site = op.site
    BY <1>2, <1>4
  <2>2. ~Retagged(op, s) BY <1>4 DEF Retagged
  <2>3. Pending(n) = Pending(op) \ {s} BY <2>1 DEF Pending
  <2>. QED BY <1>1, <2>1, <2>2, <2>3, SameJob DEF RetagInv, Sorted
<1>. QED BY <1>3, <1>4

\* All its deployments are to be created anew.
LEMMA RetagList ==
    ASSUME NEW op, NEW n, NEW ds, NEW ss, RetagInv(op, ds, ss),
           n.job = op.job, n.found = op.found, n.todo = op.todo, n.errors = op.errors,
           n.site = op.site, n.tags = op.tags, n.work = Of(op.site, ds),
           op.phase = "list", n.phase = "new"
    PROVE  RetagInv(n, ds, ss)
<1>1. Untouched(op, op.site, ds, ss)
  BY DEF RetagInv, Pending
<1>2. n.work = Of(op.site, op.found.deps) /\ ss[op.site] = op.found.sites[op.site]
  BY <1>1 DEF Untouched
<1>3. InWork(n, ds)
  BY <1>2 DEF InWork
<1>4. Pending(op) = Pending(n) \cup {op.site}
  BY DEF Pending
<1>. QED BY <1>2, <1>3, <1>4, SameJob DEF RetagInv, Sorted

\* A deployment of the site at hand that is made leaves the other sites as they are.
LEMMA OtherSites ==
    ASSUME NEW op, NEW ds, NEW new, NEW s, new.site # s
    PROVE  Of(s, ds \cup {new}) = Of(s, ds)
BY DEF Of

\* One more copy.
LEMMA RetagCopies ==
    ASSUME NEW op, NEW n, NEW ds, NEW ss, RetagInv(op, ds, ss), NEW d \in op.work, NEW new,
           Image(op, new, d), new.site = d.site,
           n.job = op.job, n.found = op.found, n.todo = op.todo, n.site = op.site,
           n.tags = op.tags, op.phase = "new",
           \/ /\ n.phase = "delete" /\ n.old = d /\ n.work = op.work /\ n.errors = op.errors
           \/ n.phase = "new" /\ n.work = op.work \ {d} /\ n.errors
    PROVE  RetagInv(n, ds \cup {new}, ss)
<1>1. d \in op.found.deps /\ d.site = op.site
  BY DEF RetagInv, Of
<1>2. Copied(n, ds \cup {new})
  BY <1>1, SameJob DEF RetagInv, Copied
<1>3. ASSUME NEW s, s # op.site
      PROVE  /\ Of(s, ds \cup {new}) = Of(s, ds)
             /\ Untouched(op, s, ds, ss) => Untouched(n, s, ds \cup {new}, ss)
             /\ Settled(op, s, ds, ss) => Settled(n, s, ds \cup {new}, ss)
  <2>1. Of(s, ds \cup {new}) = Of(s, ds)
    BY <1>1, <1>3, OtherSites
  <2>2. Untouched(op, s, ds, ss) => Untouched(op, s, ds \cup {new}, ss)
    BY <2>1 DEF Untouched
  <2>3. Settled(op, s, ds, ss) => Settled(op, s, ds \cup {new}, ss)
    BY <2>1 DEF Settled
  <2>. QED BY <2>1, <2>2, <2>3, SameJob
<1>4. Pending(n) = op.todo /\ Pending(op) = op.todo
  BY DEF Pending
<1>5. \A s \in Pending(n) : Untouched(n, s, ds \cup {new}, ss)
  BY <1>3, <1>4 DEF RetagInv
<1>6. InWork(op, ds) /\ n.phase = "delete" => InWork(n, ds \cup {new})
  BY <1>1, SameJob DEF InWork, Of
<1>7. ~n.errors => Sorted(n, ds \cup {new}, ss)
  BY <1>3, <1>4, <1>6, SameJob DEF RetagInv, Sorted
<1>8. n.phase = "delete" => n.old \in n.work /\ \E e \in ds \cup {new} : Image(n, e, n.old)
  BY SameJob
<1>. QED BY <1>2, <1>4, <1>5, <1>7, <1>8, SameJob DEF RetagInv

\* A copy that could not be made is given up.
LEMMA RetagGivesUp ==
    ASSUME NEW op, NEW n, NEW ds, NEW ss, RetagInv(op, ds, ss), NEW d,
           n.job = op.job, n.found = op.found, n.todo = op.todo, n.site = op.site,
           n.tags = op.tags, op.phase = "new", n.phase = "new",
           n.work = op.work \ {d}, n.errors
    PROVE  RetagInv(n, ds, ss)
<1>1. Pending(n) = Pending(op)
  BY DEF Pending
<1>. QED BY <1>1, SameJob DEF RetagInv

\* The one that was copied is deleted, and no other.
LEMMA RetagDeletes ==
    ASSUME NEW op, NEW n, NEW ds, NEW ss, RetagInv(op, ds, ss), NEW left \in SUBSET ds,
           \A d, e \in op.found.deps : d.id = e.id => d = e,
           \A d \in ds : d.id # op.old.id => d \in left,
           n.job = op.job, n.found = op.found, n.todo = op.todo, n.site = op.site,
           n.tags = op.tags, n.work = op.work \ {op.old},
           op.phase = "delete", n.phase = "new",
           ~n.errors => ~op.errors /\ \A d \in left : d.id # op.old.id
    PROVE  RetagInv(n, left, ss)
<1>1. op.old \in op.work /\ op.old \in op.found.deps /\ op.old.site = op.site
  BY DEF RetagInv, Of
<1>2. PICK new \in ds : Image(op, new, op.old)
  BY DEF RetagInv
<1>3. \A d, f : Image(op, d, f) => d.id # op.old.id
  BY <1>1 DEF Image
<1>4. \A d \in ds : d.id = op.old.id => d = op.old
  BY <1>1, <1>3 DEF RetagInv, Copied
<1>5. \A d \in ds : d \in left \/ d = op.old
  BY <1>4
<1>6. Copied(n, left)
  BY SameJob DEF RetagInv, Copied
<1>7. ASSUME NEW s, s # op.site
      PROVE  /\ Untouched(op, s, ds, ss) => Untouched(n, s, left, ss)
             /\ Settled(op, s, ds, ss) => Settled(n, s, left, ss)
  <2>1. Of(s, left) = Of(s, ds)
    BY <1>1, <1>5, <1>7 DEF Of
  <2>2. \A f : \A d \in ds : Image(op, d, f) => d \in left
    BY <1>3
  <2>. QED BY <2>1, <2>2, SameJob DEF Untouched, Settled
<1>8. Pending(n) = op.todo /\ Pending(op) = op.todo
  BY DEF Pending
<1>9. \A s \in Pending(n) : Untouched(n, s, left, ss)
  BY <1>7, <1>8 DEF RetagInv
<1>10. ASSUME ~n.errors PROVE InWork(n, left)
  <2>1. InWork(op, ds)
    BY <1>10 DEF RetagInv, Sorted
  <2>2. ASSUME NEW f \in Of(op.site, op.found.deps)
        PROVE  f \in n.work \/ \E d \in left : Image(op, d, f)
    BY <1>2, <1>3, <2>1, <2>2 DEF InWork
  <2>3. ASSUME NEW d \in Of(op.site, left)
        PROVE  d \in n.work \/ \E f \in op.found.deps : Image(op, d, f)
    BY <1>10, <2>1, <2>3 DEF InWork, Of
  <2>. QED BY <2>2, <2>3, SameJob DEF InWork
<1>11. ~n.errors => Sorted(n, left, ss)
  BY <1>7, <1>8, <1>10, SameJob DEF RetagInv, Sorted
<1>. QED BY <1>6, <1>8, <1>9, <1>11, SameJob DEF RetagInv

\* The row of the site comes last.
LEMMA RetagSyncs ==
    ASSUME NEW op, NEW n, NEW ds, NEW ss, NEW rows, RetagInv(op, ds, ss),
           ss \in [Sites -> Row \cup {None}], op.found.sites \in [Sites -> Row \cup {None}],
           op.todo \subseteq Sites,
           n.job = op.job, n.found = op.found, n.todo = op.todo, n.errors = op.errors,
           n.phase = "sites", n.site = None, op.phase = "new", op.work = {},
           rows = [ss EXCEPT ![op.site] = IF ss[op.site] = None THEN None
                     ELSE [ss[op.site] EXCEPT
                             !.groups = NewGroups(op.job, op.found.sites[op.site].groups)]]
    PROVE  /\ RetagInv(n, ds, rows)
           /\ ~op.errors => Settled(op, op.site, ds, rows)
           /\ ~op.errors /\ op.job.op = "groups" => Sorted(n, ds, rows)
<1>1. op.site \in Sites /\ op.site \notin op.todo /\ ss[op.site] = op.found.sites[op.site]
  BY DEF RetagInv
<1>2. /\ \A s \in Sites : s # op.site => rows[s] = ss[s]
      /\ rows[op.site] = IF op.found.sites[op.site] = None THEN None
                         ELSE [op.found.sites[op.site] EXCEPT !.groups = NewGroups(op.job, @)]
  BY <1>1
<1>3. ASSUME NEW s \in Sites, s # op.site
      PROVE  /\ Untouched(op, s, ds, ss) => Untouched(n, s, ds, rows)
             /\ Settled(op, s, ds, ss) => Settled(n, s, ds, rows)
  <2>1. rows[s] = ss[s]
    BY <1>2, <1>3
  <2>2. Untouched(op, s, ds, ss) => Untouched(op, s, ds, rows)
    BY <2>1 DEF Untouched
  <2>3. Settled(op, s, ds, ss) => Settled(op, s, ds, rows)
    BY <2>1 DEF Settled
  <2>. QED BY <2>2, <2>3, SameJob
<1>4. Pending(n) = op.todo /\ Pending(op) = op.todo
  BY DEF Pending
<1>5. \A s \in Pending(n) : Untouched(n, s, ds, rows)
  BY <1>1, <1>3, <1>4 DEF RetagInv
<1>6. ASSUME ~op.errors PROVE Settled(op, op.site, ds, rows)
  <2>1. InWork(op, ds)
    BY <1>6 DEF RetagInv, Sorted
  <2>. QED BY <1>2, <2>1 DEF InWork, Settled
<1>7. ~n.errors => Sorted(n, ds, rows)
  <2>. SUFFICES ASSUME ~n.errors PROVE Sorted(n, ds, rows)
    OBVIOUS
  <2>1. ASSUME NEW s \in Sites, s # op.site
        PROVE  \/ /\ Untouched(n, s, ds, rows)
                  /\ s \in Scope(n) => s \in Pending(n) \/ ~Retagged(n, s)
               \/ Settled(n, s, ds, rows)
    BY <1>3, <1>4, <2>1, SameJob DEF RetagInv, Sorted
  <2>2. Settled(n, op.site, ds, rows)
    BY <1>6, SameJob
  <2>. QED BY <2>1, <2>2 DEF Sorted
<1>8. n.site \notin n.todo
  BY NoneAssumption
<1>. QED BY <1>4, <1>5, <1>6, <1>7, <1>8, SameJob DEF RetagInv

\* Listings that do not fail show what is there.
LEMMA ReadsAll == "lists" \notin Faults => \A store, nothing : Read(store, nothing) = {store}
BY DEF Read

\* What a retagging handler knows when it is at work.
Retagging(r) ==
    /\ TypeInv /\ "lists" \notin Faults /\ r \in Requests
    /\ HandlerInv(r) /\ ~At(r, "idle") /\ Does(r, Retags)

\* What is to be shown of its step.
RetagsOn(r) == ops'[r].phase \notin Early => RetagInv(ops'[r], deps', sites')

\* The parts of what it knows that the proofs below use.
LEMMA RetagFields ==
    ASSUME NEW r, Retagging(r)
    PROVE  /\ ops[r] \in Handlers /\ Fits(ops[r]) /\ ops[r].job \in Jobs
           /\ ops[r].job # None /\ ops[r].job.op \in Retags
           /\ ops[r].todo \subseteq Sites /\ ops[r].site \in Sites \cup {None}
           /\ ops[r].found.sites \in [Sites -> Row \cup {None}]
           /\ ops[r].rows = ops[r].found.sites
           /\ ops[r].phase \notin Early => RetagInv(ops[r], deps, sites)
           /\ \A d, e \in ops[r].found.deps : d.id = e.id => d = e
           /\ \A d \in ops[r].found.deps : d.id < nextId
BY AtWork DEF Retagging, HandlerInv, Does, Handlers, Portals, FoundIds

\* The sites are gone through when the keys have been listed.
LEMMA ReadKeysRetags ==
    ASSUME NEW r, Retagging(r), ReadKeys(r), ~At(r, "idle")'
    PROVE  RetagsOn(r)
<1>. DEFINE op == ops[r]
            n(ks) == [op EXCEPT
                !.phase = IF Does(r, {"bind"}) THEN "mcp" ELSE "sites",
                !.seen = {},
                !.todo = CASE Does(r, {"create"}) -> op.job.members
                           [] Does(r, {"bind"})   -> {}
                           [] OTHER -> {s \in Sites : op.rows[s] # None},
                !.bound = IF Does(r, {"rename"})
                          THEN {k \in Keys : ks[k] = op.job.group} ELSE {}]
<1>1. /\ op \in Handlers /\ Fits(op) /\ op.job \in Jobs /\ op.job # None
      /\ op.job.op \in Retags /\ op.rows = op.found.sites /\ TypeInv /\ r \in Requests
  BY RetagFields DEF Retagging
<1>2. PICK ks : Step(r, n(ks))
  <2>1. ~Answer(r, "refused")
    BY <1>1, AnswersTyped DEF At, TypeInv
  <2>. QED BY <2>1 DEF ReadKeys
<1>3. op.phase = "keys" /\ op.job.op \in Groupwise
  BY <1>1 DEF ReadKeys, At, Fits
<1>4. op.job.op \in {"create", "rename", "delete"}
  BY <1>1, <1>3 DEF Retags, Groupwise
<1>5. /\ n(ks).phase = "sites" /\ n(ks).job = op.job /\ n(ks).found = op.found
      /\ n(ks).site = op.site /\ n(ks).todo = Scope(op)
  BY <1>1, <1>4 DEF Handlers, Does, Scope
<1>6. ops'[r] = n(ks)
  BY <1>1, <1>2, Advances
<1>. HIDE DEF n
<1>7. deps = op.found.deps /\ sites = op.found.sites /\ op.site = None
  BY <1>3 DEF Retagging, HandlerInv, Early
<1>8. n(ks).todo \subseteq Sites
  <2>1. op.job.op = "create" => op.job.members \subseteq Sites
    BY <1>1 DEF Jobs
  <2>. QED BY <1>4, <1>5, <2>1 DEF Scope
<1>9. Scope(n(ks)) = Scope(op)
  BY <1>5, SameJob
<1>10. UNCHANGED <<deps, sites>>
  BY DEF ReadKeys, litellm
<1>11. n(ks).site \notin n(ks).todo /\ n(ks).todo \cup {n(ks).site} \subseteq Sites \cup {None}
  BY <1>5, <1>7, <1>8, NoneAssumption
<1>12. RetagInv(n(ks), deps, sites)
  BY <1>5, <1>7, <1>9, <1>11, RetagBegins
<1>. QED BY <1>6, <1>10, <1>12 DEF RetagsOn

\* So with the next site,
LEMMA NextSiteRetags ==
    ASSUME NEW r, Retagging(r), NextSite(r)
    PROVE  RetagsOn(r)
<1>. DEFINE op == ops[r]
            n1(s) == [op EXCEPT !.todo = op.todo \ {s}]
            n2(s) == [n1(s) EXCEPT !.phase = "list", !.site = s,
                        !.tags = NewGroups(op.job, TagsOf(Of(s, deps)))]
            n(s) == IF Does(r, {"create"}) \/ op.job.group \in TagsOf(Of(s, deps))
                    THEN n2(s) ELSE n1(s)
<1>1. /\ op \in Handlers /\ Fits(op) /\ TypeInv /\ r \in Requests /\ op.job # None
      /\ op.todo \subseteq Sites /\ op.phase = "sites" /\ RetagInv(op, deps, sites)
  BY RetagFields DEF Retagging, NextSite, At, Early
<1>2. op.job.op \in {"create", "rename", "delete"}
  BY <1>1 DEF Fits
<1>3. PICK s \in op.todo : Step(r, n(s))
  <2>1. Read(deps, {}) = {deps}
    BY ReadsAll DEF Retagging
  <2>2. \E s \in op.todo, listed \in {deps} :
          LET current == TagsOf(Of(s, listed))
              op1 == [op EXCEPT !.todo = @ \ {s}]
          IN Step(r, IF Does(r, {"create"}) \/ op.job.group \in current
                     THEN [op1 EXCEPT !.phase = "list", !.site = s,
                                      !.tags = NewGroups(op.job, current)]
                     ELSE op1)
    BY <2>1, Zenon DEF NextSite
  <2>. QED BY <2>2
<1>4. ops'[r] = n(s) /\ UNCHANGED <<deps, sites>>
  BY <1>1, <1>3, Advances DEF NextSite, litellm
<1>5. /\ n1(s).job = op.job /\ n1(s).found = op.found /\ n1(s).todo = op.todo \ {s}
      /\ n1(s).errors = op.errors /\ n1(s).phase = "sites" /\ n1(s).site = op.site
  BY <1>1 DEF Handlers
<1>6. /\ n2(s).job = op.job /\ n2(s).found = op.found /\ n2(s).todo = op.todo \ {s}
      /\ n2(s).errors = op.errors /\ n2(s).phase = "list" /\ n2(s).site = s
      /\ n2(s).tags = NewGroups(op.job, TagsOf(Of(s, deps)))
  BY <1>1 DEF Handlers
<1>7. Does(r, {"create"}) <=> op.job.op = "create"
  BY <1>1 DEF Does
<1>8. /\ n(s).job = op.job /\ n(s).found = op.found /\ n(s).todo = op.todo \ {s}
      /\ n(s).errors = op.errors
      /\ IF op.job.op = "create" \/ op.job.group \in TagsOf(Of(s, deps))
         THEN /\ n(s).phase = "list" /\ n(s).site = s
              /\ n(s).tags = NewGroups(op.job, TagsOf(Of(s, deps)))
         ELSE n(s).phase = "sites" /\ n(s).site = op.site
  BY <1>5, <1>6, <1>7
<1>. HIDE DEF n
<1>9. RetagInv(n(s), deps, sites)
  BY <1>1, <1>2, <1>8, RetagNextSite
<1>. QED BY <1>4, <1>9 DEF RetagsOn

\* with the list of its deployments,
LEMMA ListRetags ==
    ASSUME NEW r, Retagging(r), ListForRetag(r)
    PROVE  RetagsOn(r)
<1>. DEFINE op == ops[r]
            n == [op EXCEPT !.phase = "new", !.work = Of(op.site, deps)]
<1>1. /\ op \in Handlers /\ TypeInv /\ r \in Requests
      /\ op.phase = "list" /\ RetagInv(op, deps, sites)
  BY RetagFields DEF Retagging, ListForRetag, At, Early
<1>2. Step(r, n) /\ UNCHANGED <<deps, sites>>
  <2>1. Read(deps, {}) = {deps}
    BY ReadsAll DEF Retagging
  <2>2. \E listed \in {deps} :
          Step(r, [op EXCEPT !.phase = "new", !.work = Of(op.site, listed)])
    BY <2>1 DEF ListForRetag
  <2>. QED BY <2>2 DEF ListForRetag, litellm
<1>3. ops'[r] = n
  BY <1>1, <1>2, Advances
<1>4. /\ n.job = op.job /\ n.found = op.found /\ n.todo = op.todo /\ n.errors = op.errors
      /\ n.site = op.site /\ n.tags = op.tags /\ n.work = Of(op.site, deps) /\ n.phase = "new"
  BY <1>1 DEF Handlers
<1>. HIDE DEF n
<1>5. RetagInv(n, deps, sites)
  BY <1>1, <1>4, RetagList
<1>. QED BY <1>2, <1>3, <1>5 DEF RetagsOn

\* with a copy that is made, or is not,
LEMMA ReplaceRetags ==
    ASSUME NEW r, Retagging(r), NEW answer, Replace(r, answer)
    PROVE  RetagsOn(r)
<1>. DEFINE op == ops[r]
<1>1. /\ op \in Handlers /\ TypeInv /\ r \in Requests /\ op.phase = "new"
      /\ RetagInv(op, deps, sites) /\ op.job # None /\ op.job.op \in Retags
      /\ \A d \in op.found.deps : d.id < nextId
  BY RetagFields DEF Retagging, Replace, At, Early
<1>. DEFINE n1(d) == [op EXCEPT !.phase = "delete", !.old = d]
            n2(d) == [op EXCEPT !.work = op.work \ {d}, !.errors = TRUE]
            new(d) == [[d EXCEPT !.tags = op.tags] EXCEPT !.id = nextId]
<1>2. PICK d \in op.work :
        /\ Creates(Replacement(op, d), answer)
        /\ \/ answer = "ok" /\ Step(r, n1(d))
           \/ answer # "ok" /\ Step(r, n2(d))
  BY <1>1 DEF Replace, Retagging
<1>3. Replacement(op, d) = [d EXCEPT !.tags = op.tags]
  BY <1>1 DEF Replacement, Retags
<1>4. \/ answer = "refused" /\ deps' = deps
      \/ answer # "refused" /\ deps' = deps \cup {new(d)}
  BY <1>2, <1>3 DEF Creates, litellm
<1>5. d \in Deployments /\ op.tags \subseteq Groups /\ nextId \in Nat
  BY <1>1 DEF Handlers, TypeInv, TypeOK
<1>6. /\ new(d).id = nextId /\ new(d).site = d.site /\ new(d).name = d.name
      /\ new(d).upstream = d.upstream /\ new(d).tags = op.tags
  BY <1>5 DEF Deployments
<1>7. /\ n1(d).job = op.job /\ n1(d).found = op.found /\ n1(d).todo = op.todo
      /\ n1(d).site = op.site /\ n1(d).tags = op.tags /\ n1(d).phase = "delete"
      /\ n1(d).old = d /\ n1(d).work = op.work /\ n1(d).errors = op.errors
  BY <1>1 DEF Handlers
<1>8. /\ n2(d).job = op.job /\ n2(d).found = op.found /\ n2(d).todo = op.todo
      /\ n2(d).site = op.site /\ n2(d).tags = op.tags /\ n2(d).phase = "new"
      /\ n2(d).work = op.work \ {d} /\ n2(d).errors
  BY <1>1 DEF Handlers
<1>. HIDE DEF n1, n2, new
<1>9. Image(op, new(d), d)
  <2>1. d.site = op.site
    BY <1>1 DEF RetagInv, Of
  <2>2. \A e \in op.found.deps : e.id # nextId
    <3>1. \A e \in op.found.deps : e.id \in Nat
      BY DEF Retagging, HandlerInv, Portals, Deployments
    <3>. QED BY <1>1, <1>5, <3>1
  <2>. QED BY <1>1, <1>6, <2>1, <2>2 DEF Image, Same, RetagInv
<1>10. UNCHANGED sites
  BY DEF Replace
<1>11. CASE answer = "ok"
  <2>1. ops'[r] = n1(d) /\ deps' = deps \cup {new(d)}
    BY <1>1, <1>2, <1>4, <1>11, Advances
  <2>2. RetagInv(n1(d), deps \cup {new(d)}, sites)
    BY <1>1, <1>6, <1>7, <1>9, RetagCopies
  <2>. QED BY <1>10, <2>1, <2>2 DEF RetagsOn
<1>12. CASE answer # "ok"
  <2>1. ops'[r] = n2(d)
    BY <1>1, <1>2, <1>12, Advances
  <2>2. RetagInv(n2(d), deps \cup {new(d)}, sites)
    BY <1>1, <1>6, <1>8, <1>9, RetagCopies
  <2>3. RetagInv(n2(d), deps, sites)
    BY <1>1, <1>8, RetagGivesUp
  <2>. QED BY <1>4, <1>10, <2>1, <2>2, <2>3 DEF RetagsOn
<1>. QED BY <1>11, <1>12

\* with the deletion of what was copied,
LEMMA DeleteRetags ==
    ASSUME NEW r, Retagging(r), NEW answer, DeleteReplaced(r, answer)
    PROVE  RetagsOn(r)
<1>. DEFINE op == ops[r]
            n == [op EXCEPT !.phase = "new", !.old = None,
                            !.work = op.work \ {op.old},
                            !.errors = op.errors \/ answer # "ok"]
<1>1. /\ op \in Handlers /\ TypeInv /\ r \in Requests /\ op.phase = "delete"
      /\ RetagInv(op, deps, sites)
      /\ \A d, e \in op.found.deps : d.id = e.id => d = e
  BY RetagFields DEF Retagging, DeleteReplaced, At, Early
<1>2. Step(r, n) /\ UNCHANGED sites /\ Deletes(op.old.id, answer)
  BY DEF DeleteReplaced
<1>3. ops'[r] = n
  BY <1>1, <1>2, Advances
<1>4. /\ n.job = op.job /\ n.found = op.found /\ n.todo = op.todo /\ n.site = op.site
      /\ n.tags = op.tags /\ n.phase = "new" /\ n.work = op.work \ {op.old}
      /\ n.errors = (op.errors \/ answer # "ok")
  BY <1>1 DEF Handlers
<1>. HIDE DEF n
<1>5. /\ deps' \in SUBSET deps /\ \A d \in deps : d.id # op.old.id => d \in deps'
      /\ answer = "ok" => \A d \in deps' : d.id # op.old.id
  BY <1>2 DEF Deletes
<1>6. PICK left \in SUBSET deps : left = deps'
  BY <1>5
<1>7. /\ \A d \in deps : d.id # op.old.id => d \in left
      /\ ~n.errors => ~op.errors /\ \A d \in left : d.id # op.old.id
  BY <1>4, <1>5, <1>6
<1>8. RetagInv(n, left, sites)
  BY <1>1, <1>4, <1>7, RetagDeletes
<1>. QED BY <1>2, <1>3, <1>6, <1>8 DEF RetagsOn

\* The row of the site at hand is written, and the rows of the others stay.
LEMMA SyncSteps ==
    ASSUME NEW r, Retagging(r), SyncGroups(r, TRUE)
    PROVE  LET op == ops[r]
           IN  /\ op.phase = "new" /\ op.work = {} /\ UNCHANGED deps
               /\ sites' = [sites EXCEPT ![op.site] = IF sites[op.site] = None THEN None
                     ELSE [sites[op.site] EXCEPT
                             !.groups = NewGroups(op.job, op.found.sites[op.site].groups)]]
<1>1. ops[r].rows = ops[r].found.sites
  BY RetagFields
<1>. QED BY <1>1 DEF SyncGroups, Updates, At, litellm

\* with the row of the site,
LEMMA SyncRetags ==
    ASSUME NEW r, Retagging(r), NEW reached \in BOOLEAN, SyncGroups(r, reached),
           ~At(r, "idle")'
    PROVE  RetagsOn(r)
<1>. DEFINE op == ops[r]
            n == [op EXCEPT !.phase = "sites", !.site = None, !.tags = {}]
<1>1. /\ op \in Handlers /\ TypeInv /\ r \in Requests /\ op.phase = "new"
      /\ RetagInv(op, deps, sites) /\ op.todo \subseteq Sites
      /\ op.found.sites \in [Sites -> Row \cup {None}] /\ sites \in [Sites -> Row \cup {None}]
  BY RetagFields DEF Retagging, SyncGroups, At, Early, TypeInv, TypeOK
<1>2. reached /\ Step(r, n)
  <2>1. \A answer \in {"ok", "failed"} : ~Answer(r, answer)
    BY <1>1, AnswersTyped DEF TypeInv
  <2>. QED BY <2>1 DEF SyncGroups
<1>3. ops'[r] = n
  BY <1>1, <1>2, Advances
<1>4. /\ n.job = op.job /\ n.found = op.found /\ n.todo = op.todo /\ n.errors = op.errors
      /\ n.phase = "sites" /\ n.site = None
  BY <1>1 DEF Handlers
<1>. HIDE DEF n
<1>5. PICK rows :
        /\ rows = sites'
        /\ rows = [sites EXCEPT ![op.site] = IF sites[op.site] = None THEN None
                     ELSE [sites[op.site] EXCEPT
                             !.groups = NewGroups(op.job, op.found.sites[op.site].groups)]]
  BY <1>2, SyncSteps
<1>6. op.work = {} /\ UNCHANGED deps
  BY <1>2, SyncSteps
<1>7. RetagInv(n, deps, rows)
  BY <1>1, <1>4, <1>5, <1>6, RetagSyncs
<1>. QED BY <1>3, <1>5, <1>6, <1>7 DEF RetagsOn

\* and with all that comes between and after the sites.
LEMMA RestRetags ==
    ASSUME NEW r, Retagging(r), ~At(r, "idle")',
           \/ SitesDone(r) \/ KeysDone(r)
           \/ \E answer \in Answers : Rebind(r, answer) \/ Unbind(r, answer)
    PROVE  RetagsOn(r)
<1>. DEFINE op == ops[r]
<1>1. /\ op \in Handlers /\ TypeInv /\ r \in Requests
      /\ op.phase \in {"sites", "rebind", "unbind"} /\ RetagInv(op, deps, sites)
      /\ UNCHANGED <<deps, sites>>
  BY RetagFields DEF Retagging, SitesDone, KeysDone, Rebind, Unbind, At, Early, litellm
<1>2. \A answer \in {"ok", "failed"} : ~Answer(r, answer)
  BY <1>1, AnswersTyped DEF TypeInv
<1>. DEFINE n1(phase) == [op EXCEPT !.phase = phase]
            n2(k) == [op EXCEPT !.bound = op.bound \ {k}, !.moved = op.moved \cup {k}]
            n3(k) == [op EXCEPT !.moved = op.moved \ {k}]
            Rest(n) == /\ n.job = op.job /\ n.found = op.found /\ n.todo = op.todo
                       /\ n.site = op.site /\ n.errors = op.errors
                       /\ n.phase \in {"sites", "rebind", "unbind", "mcp"}
<1>3. \/ Step(r, n1("rebind")) \/ Step(r, n1("mcp")) \/ Step(r, n1("unbind"))
      \/ \E k : Step(r, n2(k)) \/ Step(r, n3(k))
  BY <1>2 DEF SitesDone, KeysDone, Rebind, Unbind
<1>4. Rest(n1("rebind")) /\ Rest(n1("mcp")) /\ Rest(n1("unbind"))
  BY <1>1 DEF Handlers
<1>5. \A k : Rest(n2(k))
  BY <1>1 DEF Handlers
<1>6. \A k : Rest(n3(k))
  BY <1>1 DEF Handlers
<1>. HIDE DEF n1, n2, n3
<1>7. PICK n : Step(r, n) /\ Rest(n)
  BY <1>3, <1>4, <1>5, <1>6
<1>8. ops'[r] = n
  BY <1>1, <1>7, Advances
<1>9. RetagInv(n, deps, sites)
  BY <1>1, <1>7, RetagRests
<1>. QED BY <1>1, <1>8, <1>9 DEF RetagsOn

\* The steps a handler that retags can take and still be at work.
RetagStep(r) ==
    \/ ReadDeployments(r) \/ ReadKeys(r) \/ NextSite(r) \/ ListForRetag(r)
    \/ SitesDone(r) \/ KeysDone(r)
    \/ \E answer \in Answers : \/ Replace(r, answer) \/ DeleteReplaced(r, answer)
                               \/ Rebind(r, answer) \/ Unbind(r, answer)
    \/ \E reached \in BOOLEAN : SyncGroups(r, reached)

\* It can take no other.
LEMMA RetagSteps ==
    ASSUME NEW r, Retagging(r), Proceed(r), ~Start(r), ~At(r, "idle")'
    PROVE  RetagStep(r)
<1>1. /\ ops[r].job # None /\ ops[r].job.op \in Retags /\ Fits(ops[r])
      /\ r \in Requests /\ TypeInv
  BY RetagFields DEF Retagging
<1>2. ~\/ GroupsFail(r) \/ AliasDone(r) \/ CleanedUp(r) \/ Unbound(r) \/ Commit(r)
  BY <1>1, AnswersTyped DEF GroupsFail, AliasDone, CleanedUp, Unbound, Commit, TypeInv
<1>3. ~Does(r, {"add"}) /\ ~Does(r, {"refresh"}) /\ ~Does(r, {"remove"})
      /\ ~Does(r, {"alias"}) /\ ~Does(r, {"direct"})
  BY <1>1 DEF Does, Retags
<1>4. ~At(r, "find") /\ ~At(r, "cleanup") /\ ~At(r, "models")
  BY <1>1 DEF At, Fits, Retags
<1>5. ~\/ ListForAdd(r) \/ ListForRefresh(r) \/ ListForRemove(r) \/ ListForAlias(r)
       \/ ListForDirect(r) \/ FindMade(r)
  BY <1>3, <1>4 DEF ListForAdd, ListForRefresh, ListForRemove, ListForAlias, ListForDirect,
                    FindMade
<1>6. \A answer :
        ~\/ CreateAdded(r, answer) \/ DeleteRefreshed(r, answer) \/ DeleteRemoved(r, answer)
         \/ CreateAlias(r, answer) \/ CreateDirect(r, answer) \/ CleanUp(r, answer)
  BY <1>3, <1>4 DEF CreateAdded, DeleteRefreshed, DeleteRemoved, CreateAlias, CreateDirect,
                    CleanUp
<1>7. \A reached : ~SyncModels(r, reached) /\ ~Register(r, reached)
  BY <1>3, <1>4 DEF SyncModels, Register
<1>. QED BY <1>2, <1>5, <1>6, <1>7 DEF Proceed, RetagStep

\* The deployments as read are those there are.
LEMMA ReadsDeployments ==
    ASSUME TypeInv, "lists" \notin Faults, NEW r \in Requests, ReadDeployments(r)
    PROVE  /\ ops[r].phase = "deployments" /\ ops'[r].phase = "keys" /\ ops'[r].seen = deps
           /\ ops'[r].site = ops[r].site /\ ops'[r].moved = ops[r].moved
           /\ ops'[r].todo = ops[r].todo
           /\ UNCHANGED <<sites, deps, keys, mcp>>
<1>. DEFINE n == [ops[r] EXCEPT !.phase = "keys", !.seen = deps]
<1>1. ops[r] \in Handlers
  BY DEF TypeInv, TypeOK
<1>2. Step(r, n)
  <2>1. Read(deps, {}) = {deps}
    BY ReadsAll
  <2>. QED BY <2>1 DEF ReadDeployments
<1>3. /\ n.phase = "keys" /\ n.seen = deps /\ n.site = ops[r].site
      /\ n.moved = ops[r].moved /\ n.todo = ops[r].todo
  BY <1>1 DEF Handlers
<1>. HIDE DEF n
<1>4. ops'[r] = n
  BY <1>2, Advances
<1>. QED BY <1>3, <1>4 DEF ReadDeployments, At, litellm

\* A step of a retagging handler keeps what is known of the deployments.
LEMMA ProceedRetags ==
    ASSUME NEW r, Retagging(r), Proceed(r), ~Start(r), ~At(r, "idle")'
    PROVE  RetagsOn(r)
<1>1. ReadDeployments(r) => RetagsOn(r)
  BY ReadsDeployments DEF RetagsOn, Early, Retagging
<1>. QED BY <1>1, RetagSteps, ReadKeysRetags, NextSiteRetags, ListRetags, ReplaceRetags,
            DeleteRetags, SyncRetags, RestRetags DEF RetagStep

-------------------------------------------------------------------------------
(* The keys of a renamed group, and the group that is deleted *)

\* Until the keys come, nothing happens to them.
LEMMA RenameGoesOn ==
    ASSUME NEW op, NEW n, NEW ks, RenameInv(op, ks),
           n.job = op.job, n.found = op.found, n.bound = op.bound, n.moved = op.moved,
           op.phase # "unbind", n.phase \in {"sites", "list", "new", "delete"}
    PROVE  RenameInv(n, ks)
BY DEF RenameInv, Tidy

\* What a handler that renames a group knows when it is at work.
Renaming(r) == Retagging(r) /\ Does(r, {"rename"})
\* What is to be shown of its step.
RenamesOn(r) == ops'[r].phase \notin Early => RenameInv(ops'[r], keys')

\* A group exists when a key is bound to it or a site in use is in it.
LEMMA GroupsKnown ==
    ASSUME NEW rows, NEW ds, NEW ks, NEW entries
    PROVE  /\ \A k \in Keys : ks[k] \notin {None, "default"}
                => ks[k] \in GroupsOf(rows, ds, ks, entries)
           /\ \A s \in Sites : Live(rows[s])
                => \A g \in TagsOf(Of(s, ds)) : g \in GroupsOf(rows, ds, ks, entries)
<1>. DEFINE ofSites == UNION {rows[s].groups \cup TagsOf(Of(s, ds)) :
                                s \in {x \in Sites : Live(rows[x])}}
            ofKeys == {ks[k] : k \in Keys} \ {None, "default"}
            ofEntries == UNION {entries[e] : e \in Entries}
<1>1. GroupsOf(rows, ds, ks, entries) = ofSites \cup ofKeys \cup ofEntries
  BY DEF GroupsOf
<1>2. \A k \in Keys : ks[k] \notin {None, "default"} => ks[k] \in ofKeys
  OBVIOUS
<1>3. \A s \in Sites : Live(rows[s]) => \A g \in TagsOf(Of(s, ds)) : g \in ofSites
  OBVIOUS
<1>. HIDE DEF ofSites, ofKeys, ofEntries
<1>. QED BY <1>1, <1>2, <1>3

\* A group that is renamed exists, and the new name is free.
LEMMA AcceptedRename ==
    ASSUME TypeInv, NEW r \in Requests, NEW op, op = ops[r], Fits(op), op.job \in Jobs,
           op.job.op = "rename", op.found \in Portals, op.rows = op.found.sites,
           op.seen = op.found.deps, keys = op.found.keys, Accepted(op, keys)
    PROVE  /\ op.job.group # op.job.to /\ op.job.to \in Groups
           /\ \A k \in Keys : op.found.keys[k] # op.job.to
           /\ Tidy(op.found) => \A f \in op.found.deps : op.job.to \notin f.tags
<1>1. op.job.to \in Groups
  BY DEF Jobs
<1>. DEFINE known == GroupsOf(op.rows, op.seen, keys, mcp)
<1>2. op.job.group \in known /\ op.job.to \notin known
  BY DEF Accepted
<1>3. ASSUME NEW k \in Keys PROVE op.found.keys[k] # op.job.to
  <2>1. op.job.to # None /\ op.job.to # "default"
    BY <1>1, NoneAssumption, DefaultAssumption
  <2>. QED BY <1>2, <2>1, GroupsKnown
<1>4. ASSUME Tidy(op.found), NEW f \in op.found.deps PROVE op.job.to \notin f.tags
  <2>1. f.site \in Sites /\ Live(op.rows[f.site])
    BY <1>4 DEF Tidy, Portals, Deployments
  <2>2. f.tags \subseteq TagsOf(Of(f.site, op.seen))
    BY DEF TagsOf, Of
  <2>. QED BY <1>2, <2>1, <2>2, GroupsKnown
<1>. HIDE DEF known
<1>. QED BY <1>1, <1>2, <1>3, <1>4

\* When the keys have been listed the job is judged by the stores as they are.
LEMMA ReadKeysAccepts ==
    ASSUME NEW r, Retagging(r), ReadKeys(r), ~At(r, "idle")'
    PROVE  LET op == ops[r]
           IN  /\ op.phase = "keys" /\ Accepted(op, keys) /\ UNCHANGED <<keys, mcp>>
               /\ deps = op.found.deps /\ keys = op.found.keys /\ op.found \in Portals
               /\ op.rows = op.found.sites /\ op.seen = op.found.deps
               /\ op.moved = {} /\ op.job # None /\ op.job \in Jobs /\ Fits(op)
               /\ ops'[r].job = op.job /\ ops'[r].found = op.found
               /\ ops'[r].phase = "sites" /\ ops'[r].moved = {}
               /\ Does(r, {"rename"}) => ops'[r].bound = {k \in Keys : keys[k] = op.job.group}
<1>. DEFINE op == ops[r]
            n(ks) == [op EXCEPT
                !.phase = IF Does(r, {"bind"}) THEN "mcp" ELSE "sites",
                !.seen = {},
                !.todo = CASE Does(r, {"create"}) -> op.job.members
                           [] Does(r, {"bind"})   -> {}
                           [] OTHER -> {s \in Sites : op.rows[s] # None},
                !.bound = IF Does(r, {"rename"})
                          THEN {k \in Keys : ks[k] = op.job.group} ELSE {}]
<1>1. /\ op \in Handlers /\ Fits(op) /\ op.job \in Jobs /\ op.job # None
      /\ op.job.op \in Retags /\ TypeInv /\ r \in Requests
  BY RetagFields DEF Retagging
<1>2. op.phase = "keys" /\ UNCHANGED <<keys, mcp>>
  BY DEF ReadKeys, At
<1>3. Read(keys, NoKeys) = {keys}
  BY ReadsAll DEF Retagging
<1>4. Accepted(op, keys) /\ Step(r, n(keys))
  <2>1. ~Answer(r, "refused")
    BY <1>1, AnswersTyped DEF At, TypeInv
  <2>. QED BY <1>3, <2>1 DEF ReadKeys
<1>5. ops'[r] = n(keys)
  BY <1>1, <1>4, Advances
<1>6. ~Does(r, {"bind"})
  BY <1>1 DEF Does, Retags
<1>7. /\ n(keys).job = op.job /\ n(keys).found = op.found /\ n(keys).phase = "sites"
      /\ n(keys).moved = op.moved
      /\ Does(r, {"rename"}) => n(keys).bound = {k \in Keys : keys[k] = op.job.group}
  BY <1>1, <1>6 DEF Handlers
<1>. HIDE DEF n
<1>8. /\ deps = op.found.deps /\ keys = op.found.keys /\ op.moved = {}
      /\ op.rows = op.found.sites /\ op.seen = op.found.deps /\ op.found \in Portals
  BY <1>2 DEF Retagging, HandlerInv, Early
<1>. QED BY <1>1, <1>2, <1>4, <1>5, <1>7, <1>8

\* The keys to move are those bound to the old name.
LEMMA ReadKeysRenames ==
    ASSUME NEW r, Renaming(r), ReadKeys(r), ~At(r, "idle")'
    PROVE  RenamesOn(r)
<1>. DEFINE op == ops[r]
<1>1. /\ Retagging(r) /\ r \in Requests /\ TypeInv /\ Does(r, {"rename"}) /\ op.job.op = "rename"
  BY DEF Renaming, Retagging, Does
<1>2. /\ op.phase = "keys" /\ Accepted(op, keys) /\ UNCHANGED <<keys, mcp>>
      /\ deps = op.found.deps /\ keys = op.found.keys /\ op.found \in Portals
      /\ op.rows = op.found.sites /\ op.seen = op.found.deps
      /\ op.job \in Jobs /\ Fits(op)
      /\ ops'[r].job = op.job /\ ops'[r].found = op.found
      /\ ops'[r].phase = "sites" /\ ops'[r].moved = {}
      /\ ops'[r].bound = {k \in Keys : keys[k] = op.job.group}
  BY <1>1, ReadKeysAccepts
<1>3. /\ op.job.group # op.job.to
      /\ \A k \in Keys : op.found.keys[k] # op.job.to
      /\ Tidy(op.found) => \A f \in op.found.deps : op.job.to \notin f.tags
  BY <1>1, <1>2, AcceptedRename
<1>. QED BY <1>2, <1>3 DEF RenamesOn, RenameInv

\* From the first site to the last row, and with the keys rolled back.
LEMMA SitesRename ==
    ASSUME NEW r, Renaming(r), ~At(r, "idle")',
           \/ NextSite(r) \/ ListForRetag(r)
           \/ \E answer \in Answers : Replace(r, answer) \/ DeleteReplaced(r, answer)
           \/ \E reached \in BOOLEAN : SyncGroups(r, reached)
    PROVE  RenamesOn(r)
<1>. DEFINE op == ops[r]
            Goes(n) == /\ n.job = op.job /\ n.found = op.found /\ n.bound = op.bound
                       /\ n.moved = op.moved /\ n.phase \in {"sites", "list", "new", "delete"}
<1>1. /\ op \in Handlers /\ TypeInv /\ r \in Requests /\ op.phase # "unbind"
      /\ RenameInv(op, keys) /\ UNCHANGED keys
  BY RetagFields DEF Renaming, Retagging, HandlerInv, NextSite, ListForRetag, Replace,
         DeleteReplaced, SyncGroups, At, Early
<1>2. \A answer \in {"ok", "failed"} : ~Answer(r, answer)
  BY <1>1, AnswersTyped DEF TypeInv
<1>3. ASSUME NEW n, Step(r, n), Goes(n) PROVE RenamesOn(r)
  <2>1. ops'[r] = n
    BY <1>1, <1>3, Advances
  <2>2. RenameInv(n, keys)
    BY <1>1, <1>3, RenameGoesOn
  <2>. QED BY <1>1, <2>1, <2>2 DEF RenamesOn
<1>. HIDE DEF Goes
<1>4. CASE NextSite(r)
  <2>1. op.phase = "sites"
    BY <1>4 DEF NextSite, At
  <2>. DEFINE n1(s) == [op EXCEPT !.todo = @ \ {s}]
              n2(s, current) == [n1(s) EXCEPT !.phase = "list", !.site = s,
                                              !.tags = NewGroups(op.job, current)]
  <2>2. \E s, current : Step(r, n1(s)) \/ Step(r, n2(s, current))
    BY <1>4 DEF NextSite
  <2>3. \A s, current : Goes(n1(s)) /\ Goes(n2(s, current))
    BY <1>1, <2>1 DEF Handlers, Goes
  <2>. HIDE DEF n1, n2
  <2>. QED BY <1>3, <2>2, <2>3
<1>5. CASE ListForRetag(r)
  <2>. DEFINE n(listed) == [op EXCEPT !.phase = "new", !.work = Of(op.site, listed)]
  <2>1. \E listed : Step(r, n(listed))
    BY <1>5 DEF ListForRetag
  <2>2. \A listed : Goes(n(listed))
    BY <1>1 DEF Handlers, Goes
  <2>. HIDE DEF n
  <2>. QED BY <1>3, <2>1, <2>2
<1>6. ASSUME NEW answer \in Answers, Replace(r, answer) PROVE RenamesOn(r)
  <2>. DEFINE n1(d) == [op EXCEPT !.phase = "delete", !.old = d]
              n2(d) == [op EXCEPT !.work = @ \ {d}, !.errors = TRUE]
  <2>1. op.phase = "new" /\ Does(r, Retags)
    BY <1>6 DEF Replace, At, Renaming, Retagging
  <2>2. \E d : Step(r, n1(d)) \/ Step(r, n2(d))
    BY <1>6, <2>1 DEF Replace
  <2>3. \A d : Goes(n1(d)) /\ Goes(n2(d))
    BY <1>1, <2>1 DEF Handlers, Goes
  <2>. HIDE DEF n1, n2
  <2>. QED BY <1>3, <2>2, <2>3
<1>7. ASSUME NEW answer \in Answers, DeleteReplaced(r, answer) PROVE RenamesOn(r)
  <2>. DEFINE n == [op EXCEPT !.phase = "new", !.old = None,
                              !.work = @ \ {op.old}, !.errors = @ \/ answer # "ok"]
  <2>1. Step(r, n)
    BY <1>7 DEF DeleteReplaced
  <2>2. Goes(n)
    BY <1>1 DEF Handlers, Goes
  <2>. HIDE DEF n
  <2>. QED BY <1>3, <2>1, <2>2
<1>8. ASSUME NEW reached \in BOOLEAN, SyncGroups(r, reached) PROVE RenamesOn(r)
  <2>. DEFINE n == [op EXCEPT !.phase = "sites", !.site = None, !.tags = {}]
  <2>1. Step(r, n)
    BY <1>2, <1>8 DEF SyncGroups
  <2>2. Goes(n)
    BY <1>1 DEF Handlers, Goes
  <2>. HIDE DEF n
  <2>. QED BY <1>3, <2>1, <2>2
<1>. QED BY <1>4, <1>5, <1>6, <1>7, <1>8

\* The keys come when every site is done.
LEMMA SitesDoneRenames ==
    ASSUME NEW r, Renaming(r), ~At(r, "idle")', SitesDone(r)
    PROVE  RenamesOn(r)
<1>. DEFINE op == ops[r]
            n == [op EXCEPT !.phase = "rebind"]
<1>1. /\ op \in Handlers /\ TypeInv /\ r \in Requests /\ op.phase = "sites" /\ op.todo = {}
      /\ RenameInv(op, keys) /\ UNCHANGED keys
  BY RetagFields DEF Renaming, Retagging, HandlerInv, SitesDone, At, Early
<1>2. Step(r, n) /\ ~op.errors
  <2>1. \A answer \in {"ok", "failed"} : ~Answer(r, answer)
    BY <1>1, AnswersTyped DEF TypeInv
  <2>. QED BY <2>1 DEF SitesDone
<1>3. /\ n.job = op.job /\ n.found = op.found /\ n.bound = op.bound /\ n.moved = op.moved
      /\ n.phase = "rebind" /\ n.errors = op.errors /\ n.todo = op.todo
  BY <1>1 DEF Handlers
<1>. HIDE DEF n
<1>4. ops'[r] = n
  BY <1>1, <1>2, Advances
<1>5. RenameInv(n, keys)
  BY <1>1, <1>2, <1>3 DEF RenameInv, Tidy
<1>. QED BY <1>1, <1>4, <1>5 DEF RenamesOn

\* A key is moved, or that fails and the way back begins.
LEMMA RebindRenames ==
    ASSUME NEW r, Renaming(r), NEW answer, Rebind(r, answer)
    PROVE  RenamesOn(r)
<1>. DEFINE op == ops[r]
            n1(k) == [op EXCEPT !.bound = op.bound \ {k}, !.moved = op.moved \cup {k}]
            n2 == [op EXCEPT !.phase = "unbind"]
<1>1. /\ op \in Handlers /\ TypeInv /\ r \in Requests /\ op.phase = "rebind"
      /\ RenameInv(op, keys) /\ op.bound \subseteq Keys
  BY RetagFields DEF Renaming, Retagging, HandlerInv, Rebind, At, Early, Handlers
<1>2. PICK k \in op.bound :
        /\ Rebinds(k, op.job.to, answer)
        /\ \/ answer = "ok" /\ Step(r, n1(k))
           \/ answer # "ok" /\ Step(r, n2)
  BY DEF Rebind
<1>3. /\ n1(k).job = op.job /\ n1(k).found = op.found /\ n1(k).phase = "rebind"
      /\ n1(k).bound = op.bound \ {k} /\ n1(k).moved = op.moved \cup {k}
      /\ n1(k).errors = op.errors /\ n1(k).todo = op.todo
  BY <1>1 DEF Handlers
<1>4. /\ n2.job = op.job /\ n2.found = op.found /\ n2.phase = "unbind"
      /\ n2.bound = op.bound /\ n2.moved = op.moved
  BY <1>1 DEF Handlers
<1>5. /\ \A j \in Keys : j # k => keys'[j] = keys[j]
      /\ keys'[k] \in {keys[k], op.job.to}
      /\ answer = "ok" => keys'[k] = op.job.to
  BY <1>1, <1>2 DEF Rebinds, TypeInv, TypeOK
<1>6. op.found.keys[k] = op.job.group
  BY <1>1 DEF RenameInv
<1>. HIDE DEF n1, n2
<1>7. PICK ks : ks = keys'
  OBVIOUS
<1>8. CASE answer = "ok"
  <2>1. ops'[r] = n1(k)
    BY <1>1, <1>2, <1>8, Advances
  <2>2. RenameInv(n1(k), ks)
    BY <1>1, <1>3, <1>5, <1>6, <1>7, <1>8 DEF RenameInv, Tidy
  <2>. QED BY <1>7, <2>1, <2>2 DEF RenamesOn
<1>9. CASE answer # "ok"
  <2>1. ops'[r] = n2
    BY <1>1, <1>2, <1>9, Advances
  <2>2. RenameInv(n2, ks)
    BY <1>1, <1>4, <1>5, <1>6, <1>7 DEF RenameInv, Tidy
  <2>. QED BY <1>7, <2>1, <2>2 DEF RenamesOn
<1>. QED BY <1>8, <1>9

\* A key is moved back.
LEMMA UnbindRenames ==
    ASSUME NEW r, Renaming(r), NEW answer, Unbind(r, answer)
    PROVE  RenamesOn(r)
<1>. DEFINE op == ops[r]
            n(k) == [op EXCEPT !.moved = op.moved \ {k}]
<1>1. /\ op \in Handlers /\ TypeInv /\ r \in Requests /\ op.phase = "unbind"
      /\ RenameInv(op, keys) /\ op.moved \subseteq Keys
  BY RetagFields DEF Renaming, Retagging, HandlerInv, Unbind, At, Early, Handlers
<1>2. PICK k \in op.moved : Rebinds(k, op.job.group, answer) /\ Step(r, n(k))
  BY DEF Unbind
<1>3. /\ n(k).job = op.job /\ n(k).found = op.found /\ n(k).phase = "unbind"
      /\ n(k).bound = op.bound /\ n(k).moved = op.moved \ {k}
  BY <1>1 DEF Handlers
<1>4. /\ \A j \in Keys : j # k => keys'[j] = keys[j]
      /\ keys'[k] \in {keys[k], op.job.group}
  BY <1>1, <1>2 DEF Rebinds, TypeInv, TypeOK
<1>5. op.found.keys[k] = op.job.group
  BY <1>1 DEF RenameInv
<1>. HIDE DEF n
<1>6. ops'[r] = n(k)
  BY <1>1, <1>2, Advances
<1>7. PICK ks : ks = keys'
  OBVIOUS
<1>8. RenameInv(n(k), ks)
  BY <1>1, <1>3, <1>4, <1>5, <1>7 DEF RenameInv, Tidy
<1>. QED BY <1>6, <1>7, <1>8 DEF RenamesOn

\* The MCP entries come when every key has been moved.
LEMMA KeysDoneRenames ==
    ASSUME NEW r, Renaming(r), KeysDone(r)
    PROVE  RenamesOn(r)
<1>. DEFINE op == ops[r]
            n == [op EXCEPT !.phase = "mcp"]
<1>1. /\ op \in Handlers /\ TypeInv /\ r \in Requests /\ op.phase = "rebind" /\ op.bound = {}
      /\ RenameInv(op, keys) /\ UNCHANGED keys /\ Step(r, n)
  BY RetagFields DEF Renaming, Retagging, HandlerInv, KeysDone, At, Early
<1>2. /\ n.job = op.job /\ n.found = op.found /\ n.bound = op.bound /\ n.moved = op.moved
      /\ n.phase = "mcp" /\ n.errors = op.errors /\ n.todo = op.todo
  BY <1>1 DEF Handlers
<1>. HIDE DEF n
<1>3. ops'[r] = n
  BY <1>1, Advances
<1>4. RenameInv(n, keys)
  BY <1>1, <1>2 DEF RenameInv, Tidy
<1>. QED BY <1>1, <1>3, <1>4 DEF RenamesOn

\* A step of a handler that renames keeps what is known of the keys.
LEMMA ProceedRenames ==
    ASSUME NEW r, Renaming(r), Proceed(r), ~Start(r), ~At(r, "idle")'
    PROVE  RenamesOn(r)
<1>1. Retagging(r)
  BY DEF Renaming
<1>2. ReadDeployments(r) => RenamesOn(r)
  BY <1>1, ReadsDeployments DEF RenamesOn, Early, Retagging
<1>. QED BY <1>1, <1>2, RetagSteps, ReadKeysRenames, SitesRename, SitesDoneRenames,
            RebindRenames, UnbindRenames, KeysDoneRenames DEF RetagStep

\* A group is deleted when nothing is bound to it, and nothing is until then.
LEMMA ReadKeysDeletes ==
    ASSUME NEW r, Retagging(r), Does(r, {"delete"}), ReadKeys(r), ~At(r, "idle")'
    PROVE  DeleteInv(ops'[r], keys', mcp')
BY ReadKeysAccepts DEF Accepted, DeleteInv, Does

\* A step of a handler that deletes a group keeps that nothing is bound to it.
LEMMA ProceedDeletes ==
    ASSUME NEW r, Retagging(r), Does(r, {"delete"}), Proceed(r), ~Start(r), ~At(r, "idle")',
           ops'[r].phase \notin Early
    PROVE  DeleteInv(ops'[r], keys', mcp')
<1>1. /\ TypeInv /\ r \in Requests /\ "lists" \notin Faults /\ Fits(ops[r])
      /\ ops[r].job # None /\ ops[r].job.op = "delete"
  BY RetagFields DEF Retagging, Does
<1>2. ~ReadDeployments(r)
  BY <1>1, ReadsDeployments DEF Early
<1>3. CASE ReadKeys(r)
  BY <1>3, ReadKeysDeletes
<1>4. CASE ~ReadKeys(r)
  <2>1. ops[r].phase \notin {"deployments", "keys", "rebind", "unbind"}
    BY <1>1, <1>2, <1>4, RetagSteps DEF RetagStep, NextSite, ListForRetag, SitesDone,
       KeysDone, Replace, DeleteReplaced, Rebind, Unbind, SyncGroups, At, Fits
  <2>2. UNCHANGED <<keys, mcp>>
    BY <1>2, <1>4, <2>1, RetagSteps DEF RetagStep, NextSite, ListForRetag, SitesDone,
       KeysDone, Replace, DeleteReplaced, Rebind, Unbind, SyncGroups, At
  <2>3. ops'[r].job = ops[r].job
    BY <1>1, KeepsReading
  <2>4. DeleteInv(ops[r], keys, mcp)
    BY <2>1 DEF Retagging, HandlerInv, Early
  <2>. QED BY <2>2, <2>3, <2>4 DEF DeleteInv
<1>. QED BY <1>3, <1>4

-------------------------------------------------------------------------------
(* Models of one site: what the list of the site becomes is what LiteLLM   *)
(* holds for it. *)

\* One more deployment is one more model.
LEMMA OneMoreModel ==
    ASSUME NEW ds, NEW new, NEW model \in Models, new.name = model.name,
           new.upstream = model.upstream
    PROVE  ModelsOf(ds \cup {new}) = ModelsOf(ds) \cup {model}
<1>1. model = [name |-> new.name, upstream |-> new.upstream]
  BY DEF Models
<1>. QED BY <1>1 DEF ModelsOf

\* The deployment of a model that is added has been made.
LEMMA EditAdds ==
    ASSUME NEW op, NEW n, NEW ds, NEW ss, NEW new, EditInv(op, ds, ss), Added(op, new),
           op.job.op = "add", op.job.model \in Models,
           n.job = op.job, n.found = op.found, n.seen = op.seen,
           op.phase = "new", n.phase = "models"
    PROVE  EditInv(n, ds \cup {new}, ss)
<1>. DEFINE s == op.job.site
            mine == Of(s, op.found.deps)
<1>1. ds = op.found.deps /\ op.seen = mine /\ new.site = s
  BY DEF EditInv, Added
<1>2. \A t \in Sites \ {s} : Of(t, ds \cup {new}) = Of(t, op.found.deps)
  BY <1>1 DEF Of
<1>3. Of(s, ds \cup {new}) = mine \cup {new}
  BY <1>1 DEF Of
<1>4. ModelsOf(Of(s, ds \cup {new})) = ModelsAfter(n)
  <2>1. ModelsOf(mine \cup {new}) = ModelsOf(mine) \cup {op.job.model}
    BY OneMoreModel DEF Added
  <2>2. ModelsAfter(n) = ModelsOf(mine) \cup {op.job.model}
    BY <1>1 DEF ModelsAfter
  <2>. QED BY <1>3, <2>1, <2>2
<1>5. Added(n, new)
  BY DEF Added
<1>6. Edited(n, ds \cup {new})
  BY <1>2, <1>3, <1>4, <1>5 DEF Edited
<1>. QED BY <1>6 DEF EditInv

\* The deployment of a refreshed model has been made.
LEMMA EditReplaces ==
    ASSUME NEW op, NEW n, NEW ds, NEW ss, NEW d \in op.work, NEW new, EditInv(op, ds, ss),
           op.job.op = "refresh", Refreshed(n, new),
           n.job = op.job, n.found = op.found, n.seen = op.seen, n.old = d,
           op.phase = "new", n.phase = "delete"
    PROVE  EditInv(n, ds \cup {new}, ss)
BY DEF EditInv

\* The one it replaces has been deleted.
LEMMA EditRefreshes ==
    ASSUME NEW op, NEW n, NEW ds, NEW ss, EditInv(op, ds, ss),
           op.job.op = "refresh", op.job.model \in Models,
           \A d, e \in op.found.deps : d.id = e.id => d = e,
           n.job = op.job, n.found = op.found, n.seen = op.seen, n.old = op.old,
           op.phase = "delete", n.phase = "models"
    PROVE  EditInv(n, {d \in ds : d.id # op.old.id}, ss)
<1>. DEFINE s == op.job.site
            mine == Of(s, op.found.deps)
            left == {d \in ds : d.id # op.old.id}
<1>1. op.old \in mine /\ op.old \in op.found.deps /\ op.old.site = s /\ op.seen = mine
  BY DEF EditInv, Of
<1>2. PICK new \in ds : Refreshed(op, new) /\ ds = op.found.deps \cup {new}
  BY DEF EditInv
<1>3. left = (op.found.deps \ {op.old}) \cup {new}
  BY <1>1, <1>2 DEF Refreshed
<1>4. new.site = s /\ new.tags = op.old.tags
  BY <1>2 DEF Refreshed
<1>5. \A t \in Sites \ {s} : Of(t, left) = Of(t, op.found.deps)
  BY <1>1, <1>3, <1>4 DEF Of
<1>6. Of(s, left) = (mine \ {op.old}) \cup {new}
  BY <1>3, <1>4 DEF Of
<1>7. ModelsOf(Of(s, left)) = ModelsAfter(n)
  <2>1. ModelsOf((mine \ {op.old}) \cup {new}) = ModelsOf(mine \ {op.old}) \cup {op.job.model}
    BY <1>2, OneMoreModel DEF Refreshed
  <2>2. ModelsAfter(n) = ModelsOf(mine \ {op.old}) \cup {op.job.model}
    BY <1>1 DEF ModelsAfter
  <2>. QED BY <1>6, <2>1, <2>2
<1>. HIDE DEF left
<1>8. Edited(n, left)
  BY <1>1, <1>4, <1>5, <1>6, <1>7 DEF Edited
<1>. QED BY <1>1, <1>8 DEF EditInv, left

\* The deployment of a model that is removed has been deleted.
LEMMA EditRemoves ==
    ASSUME NEW op, NEW n, NEW ds, NEW ss, EditInv(op, ds, ss), op.job.op = "remove",
           \A d, e \in op.found.deps : d.id = e.id => d = e,
           n.job = op.job, n.found = op.found, n.seen = op.seen, n.old = op.old,
           op.phase = "delete", n.phase = "models"
    PROVE  EditInv(n, {d \in ds : d.id # op.old.id}, ss)
<1>. DEFINE s == op.job.site
            mine == Of(s, op.found.deps)
            left == {d \in ds : d.id # op.old.id}
<1>1. /\ op.old \in mine /\ op.old \in op.found.deps /\ op.old.site = s /\ op.seen = mine
      /\ ds = op.found.deps
  BY DEF EditInv, Of
<1>2. left = op.found.deps \ {op.old}
  BY <1>1
<1>3. \A t \in Sites \ {s} : Of(t, left) = Of(t, op.found.deps)
  BY <1>1, <1>2 DEF Of
<1>4. Of(s, left) = mine \ {op.old}
  BY <1>2 DEF Of
<1>5. ModelsOf(Of(s, left)) = ModelsAfter(n)
  BY <1>1, <1>4 DEF ModelsAfter
<1>. HIDE DEF left
<1>6. Edited(n, left)
  BY <1>1, <1>3, <1>4, <1>5 DEF Edited
<1>. QED BY <1>1, <1>6 DEF EditInv, left

\* What a handler that edits the models of a site knows when it is at work.
Editing(r) ==
    /\ TypeInv /\ "lists" \notin Faults /\ r \in Requests
    /\ HandlerInv(r) /\ ~At(r, "idle") /\ Does(r, Edits)

\* What is to be shown of its step.
EditsOn(r) == EditInv(ops'[r], deps', sites')

\* The parts of what it knows that the proofs below use.
LEMMA EditFields ==
    ASSUME NEW r, Editing(r)
    PROVE  LET op == ops[r]
           IN  /\ op \in Handlers /\ op.job \in Jobs /\ op.job # None /\ op.job.op \in Edits
               /\ op.phase \in {"list", "new", "delete", "models"}
               /\ op.job.site \in Sites /\ op.rows = op.found.sites /\ op.found \in Portals
               /\ op.job.op # "remove" => op.job.model \in Models
               /\ EditInv(op, deps, sites) /\ FoundIds(op, nextId)
               /\ Read(deps, {}) = {deps} /\ r \in Requests /\ TypeInv
               /\ nextId \in Nat /\ sites \in [Sites -> Row \cup {None}]
<1>. DEFINE op == ops[r]
<1>1. op \in Handlers /\ Fits(op) /\ op.job \in Jobs /\ op.job # None /\ op.job.op \in Edits
  BY AtWork DEF Editing, Does
<1>2. op.phase \in {"list", "new", "delete", "models"}
  BY <1>1 DEF Editing, At, Handlers, Phases, Fits, Edits, Groupwise, Locked
<1>3. op.job.site \in Sites /\ (op.job.op # "remove" => op.job.model \in Models)
  BY <1>1 DEF Jobs, Edits
<1>4. Read(deps, {}) = {deps}
  BY ReadsAll DEF Editing
<1>5. nextId \in Nat /\ sites \in [Sites -> Row \cup {None}]
  BY DEF Editing, TypeInv, TypeOK
<1>. QED BY <1>1, <1>2, <1>3, <1>4, <1>5 DEF Editing, HandlerInv

\* A model that is added gets the groups of the site.
LEMMA ListForAddEdits ==
    ASSUME NEW r, Editing(r), ListForAdd(r), ~At(r, "idle")'
    PROVE  EditsOn(r)
<1>. DEFINE op == ops[r]
            mine == Of(op.job.site, deps)
            new == [id |-> 0, name |-> op.job.model.name, upstream |-> op.job.model.upstream,
                    site |-> op.job.site, tags |-> TagsOf(mine) \cup op.rows[op.job.site].groups]
            n == [op EXCEPT !.phase = "new", !.seen = mine, !.work = {new}]
<1>1. /\ op \in Handlers /\ r \in Requests /\ TypeInv /\ EditInv(op, deps, sites)
      /\ Read(deps, {}) = {deps} /\ op.rows = op.found.sites
  BY EditFields
<1>2. op.phase = "list" /\ op.job.op = "add" /\ UNCHANGED <<deps, sites>>
  BY DEF ListForAdd, At, Does, litellm
<1>3. Step(r, n)
  <2>1. ~Answer(r, "refused")
    BY <1>1, AnswersTyped DEF TypeInv
  <2>. QED BY <1>1, <2>1 DEF ListForAdd
<1>4. ops'[r] = n
  BY <1>1, <1>3, Advances
<1>5. n.phase = "new" /\ n.seen = mine /\ n.work = {new} /\ n.job = op.job /\ n.found = op.found
  BY <1>1 DEF Handlers
<1>6. deps = op.found.deps
  BY <1>1, <1>2 DEF EditInv
<1>7. Added(n, new)
  BY <1>1, <1>5, <1>6 DEF Added
<1>. HIDE DEF n, new
<1>8. EditInv(n, deps, sites)
  BY <1>1, <1>2, <1>5, <1>6, <1>7 DEF EditInv
<1>. QED BY <1>2, <1>4, <1>8 DEF EditsOn

\* Its deployment is created.
LEMMA CreateAddedEdits ==
    ASSUME NEW r, Editing(r), NEW answer, CreateAdded(r, answer), ~At(r, "idle")'
    PROVE  EditsOn(r)
<1>. DEFINE op == ops[r]
            n == [op EXCEPT !.phase = "models", !.work = {}]
            new(d) == [d EXCEPT !.id = nextId]
<1>1. /\ op \in Handlers /\ r \in Requests /\ TypeInv /\ EditInv(op, deps, sites)
      /\ op.job.model \in Models /\ op.phase = "new" /\ op.job.op = "add"
  BY EditFields DEF CreateAdded, At, Does
<1>2. Step(r, n) /\ answer = "ok" /\ UNCHANGED sites
  <2>1. ~Answer(r, "failed")
    BY <1>1, AnswersTyped DEF TypeInv
  <2>. QED BY <2>1 DEF CreateAdded
<1>3. PICK d \in op.work : deps' = deps \cup {new(d)}
  BY <1>2 DEF CreateAdded, Creates
<1>4. Added(op, new(d))
  <2>1. Added(op, d)
    BY <1>1 DEF EditInv
  <2>2. d \in Deployments
    BY <1>1 DEF Handlers
  <2>. QED BY <2>1, <2>2 DEF Added, Deployments
<1>5. n.phase = "models" /\ n.seen = op.seen /\ n.job = op.job /\ n.found = op.found
  BY <1>1 DEF Handlers
<1>. HIDE DEF n, new
<1>6. EditInv(n, deps \cup {new(d)}, sites)
  BY <1>1, <1>4, <1>5, EditAdds
<1>. QED BY <1>1, <1>2, <1>3, <1>6, Advances DEF EditsOn

\* A model that is refreshed has a deployment.
LEMMA ListForRefreshEdits ==
    ASSUME NEW r, Editing(r), ListForRefresh(r), ~At(r, "idle")'
    PROVE  EditsOn(r)
<1>. DEFINE op == ops[r]
            mine == Of(op.job.site, deps)
            n(d) == [op EXCEPT !.phase = "new", !.seen = mine, !.work = {d}]
<1>1. /\ op \in Handlers /\ r \in Requests /\ TypeInv /\ EditInv(op, deps, sites)
      /\ Read(deps, {}) = {deps}
  BY EditFields
<1>2. op.phase = "list" /\ op.job.op = "refresh" /\ UNCHANGED <<deps, sites>>
  BY DEF ListForRefresh, At, Does, litellm
<1>3. PICK d \in Listed(op.job.model.name, mine) : Step(r, n(d))
  <2>1. ~Answer(r, "refused") /\ ~Answer(r, "ok")
    BY <1>1, AnswersTyped DEF TypeInv
  <2>. QED BY <1>1, <2>1 DEF ListForRefresh
<1>4. ops'[r] = n(d)
  BY <1>1, <1>3, Advances
<1>5. /\ n(d).phase = "new" /\ n(d).seen = mine /\ n(d).work = {d}
      /\ n(d).job = op.job /\ n(d).found = op.found
  BY <1>1 DEF Handlers
<1>6. deps = op.found.deps
  BY <1>1, <1>2 DEF EditInv
<1>7. d \in mine /\ d.name = op.job.model.name
  BY DEF Listed
<1>. HIDE DEF n
<1>8. EditInv(n(d), deps, sites)
  BY <1>1, <1>2, <1>5, <1>6, <1>7 DEF EditInv
<1>. QED BY <1>2, <1>4, <1>8 DEF EditsOn

\* The deployment of the refreshed model is created,
LEMMA ReplaceEdits ==
    ASSUME NEW r, Editing(r), NEW answer, Replace(r, answer), ~At(r, "idle")'
    PROVE  EditsOn(r)
<1>. DEFINE op == ops[r]
            n(d) == [op EXCEPT !.phase = "delete", !.old = d]
            new(d) == [[d EXCEPT !.upstream = op.job.model.upstream] EXCEPT !.id = nextId]
<1>1. /\ op \in Handlers /\ r \in Requests /\ TypeInv /\ EditInv(op, deps, sites)
      /\ op.job.op \in Edits /\ op.job # None /\ op.phase = "new"
      /\ FoundIds(op, nextId) /\ nextId \in Nat /\ op.found \in Portals
  BY EditFields DEF Replace, At
<1>2. op.job.op = "refresh" /\ ~Does(r, Retags)
  BY <1>1 DEF Replace, Does, Retags, Edits
<1>3. ~Answer(r, "failed")
  BY <1>1, AnswersTyped DEF TypeInv
<1>4. PICK d \in op.work : Creates(Replacement(op, d), answer) /\ answer = "ok" /\ Step(r, n(d))
  BY <1>2, <1>3 DEF Replace
<1>5. deps' = deps \cup {new(d)} /\ UNCHANGED sites
  BY <1>2, <1>4 DEF Creates, Replacement, Replace
<1>6. /\ n(d).phase = "delete" /\ n(d).seen = op.seen /\ n(d).old = d
      /\ n(d).job = op.job /\ n(d).found = op.found
  BY <1>1 DEF Handlers
<1>7. d \in Deployments /\ d.name = op.job.model.name /\ d.site = op.job.site
  BY <1>1, <1>2 DEF Handlers, EditInv, Of
<1>8. /\ new(d).id = nextId /\ new(d).site = d.site /\ new(d).name = d.name
      /\ new(d).upstream = op.job.model.upstream /\ new(d).tags = d.tags
  BY <1>7 DEF Deployments
<1>. HIDE DEF n, new
<1>9. Refreshed(n(d), new(d))
  <2>1. \A e \in op.found.deps : e.id # nextId
    <3>1. \A e \in op.found.deps : e.id \in Nat /\ e.id < nextId
      BY <1>1 DEF FoundIds, Portals, Deployments
    <3>. QED BY <1>1, <3>1
  <2>. QED BY <1>6, <1>7, <1>8, <2>1 DEF Refreshed
<1>10. EditInv(n(d), deps \cup {new(d)}, sites)
  BY <1>1, <1>2, <1>6, <1>9, EditReplaces
<1>. QED BY <1>1, <1>4, <1>5, <1>10, Advances DEF EditsOn

\* and then the old one deleted.
LEMMA DeleteRefreshedEdits ==
    ASSUME NEW r, Editing(r), NEW answer, DeleteRefreshed(r, answer), ~At(r, "idle")'
    PROVE  EditsOn(r)
<1>. DEFINE op == ops[r]
            n == [op EXCEPT !.phase = "models"]
            left == {d \in deps : d.id # op.old.id}
<1>1. /\ op \in Handlers /\ r \in Requests /\ TypeInv /\ EditInv(op, deps, sites)
      /\ op.phase = "delete" /\ op.job.op = "refresh" /\ op.job.model \in Models
      /\ \A d, e \in op.found.deps : d.id = e.id => d = e
  BY EditFields DEF DeleteRefreshed, At, Does, FoundIds
<1>2. Step(r, n) /\ answer = "ok" /\ UNCHANGED sites /\ Deletes(op.old.id, answer)
  <2>1. ~Answer(r, "failed")
    BY <1>1, AnswersTyped DEF TypeInv
  <2>. QED BY <2>1 DEF DeleteRefreshed
<1>3. deps' = left
  BY <1>2 DEF Deletes
<1>4. /\ n.phase = "models" /\ n.seen = op.seen /\ n.old = op.old
      /\ n.job = op.job /\ n.found = op.found
  BY <1>1 DEF Handlers
<1>. HIDE DEF n
<1>5. EditInv(n, left, sites)
  BY <1>1, <1>4, EditRefreshes
<1>. HIDE DEF left
<1>. QED BY <1>1, <1>2, <1>3, <1>5, Advances DEF EditsOn

\* A model that is removed has a deployment.
LEMMA ListForRemoveEdits ==
    ASSUME NEW r, Editing(r), ListForRemove(r), ~At(r, "idle")'
    PROVE  EditsOn(r)
<1>. DEFINE op == ops[r]
            mine == Of(op.job.site, deps)
            n(d) == [op EXCEPT !.phase = "delete", !.seen = mine, !.old = d]
<1>1. /\ op \in Handlers /\ r \in Requests /\ TypeInv /\ EditInv(op, deps, sites)
      /\ Read(deps, {}) = {deps}
  BY EditFields
<1>2. op.phase = "list" /\ op.job.op = "remove" /\ UNCHANGED <<deps, sites>>
  BY DEF ListForRemove, At, Does, litellm
<1>3. PICK d \in Listed(op.job.name, mine) : Step(r, n(d))
  <2>1. ~Answer(r, "refused")
    BY <1>1, AnswersTyped DEF TypeInv
  <2>. QED BY <1>1, <2>1 DEF ListForRemove
<1>4. ops'[r] = n(d)
  BY <1>1, <1>3, Advances
<1>5. /\ n(d).phase = "delete" /\ n(d).seen = mine /\ n(d).old = d
      /\ n(d).job = op.job /\ n(d).found = op.found
  BY <1>1 DEF Handlers
<1>6. deps = op.found.deps
  BY <1>1, <1>2 DEF EditInv
<1>7. d \in mine
  BY DEF Listed
<1>. HIDE DEF n
<1>8. EditInv(n(d), deps, sites)
  BY <1>1, <1>2, <1>5, <1>6, <1>7 DEF EditInv
<1>. QED BY <1>2, <1>4, <1>8 DEF EditsOn

\* It is deleted.
LEMMA DeleteRemovedEdits ==
    ASSUME NEW r, Editing(r), NEW answer, DeleteRemoved(r, answer), ~At(r, "idle")'
    PROVE  EditsOn(r)
<1>. DEFINE op == ops[r]
            n == [op EXCEPT !.phase = "models"]
            left == {d \in deps : d.id # op.old.id}
<1>1. /\ op \in Handlers /\ r \in Requests /\ TypeInv /\ EditInv(op, deps, sites)
      /\ op.phase = "delete" /\ op.job.op = "remove"
      /\ \A d, e \in op.found.deps : d.id = e.id => d = e
  BY EditFields DEF DeleteRemoved, At, Does, FoundIds
<1>2. Step(r, n) /\ answer = "ok" /\ UNCHANGED sites /\ Deletes(op.old.id, answer)
  <2>1. ~Answer(r, "failed")
    BY <1>1, AnswersTyped DEF TypeInv
  <2>. QED BY <2>1 DEF DeleteRemoved
<1>3. deps' = left
  BY <1>2 DEF Deletes
<1>4. /\ n.phase = "models" /\ n.seen = op.seen /\ n.old = op.old
      /\ n.job = op.job /\ n.found = op.found
  BY <1>1 DEF Handlers
<1>. HIDE DEF n
<1>5. EditInv(n, left, sites)
  BY <1>1, <1>4, EditRemoves
<1>. HIDE DEF left
<1>. QED BY <1>1, <1>2, <1>3, <1>5, Advances DEF EditsOn

\* A step of a handler that edits models keeps what is known of them.
LEMMA ProceedEdits ==
    ASSUME NEW r, Editing(r), Proceed(r), ~Start(r), ~At(r, "idle")'
    PROVE  EditsOn(r)
<1>1. /\ ops[r].job # None /\ ops[r].job.op \in Edits /\ r \in Requests /\ TypeInv
      /\ ops[r].phase \in {"list", "new", "delete", "models"}
  BY EditFields
<1>2. /\ ~Does(r, {"groups"}) /\ ~Does(r, Retags) /\ ~Does(r, {"alias"})
      /\ ~Does(r, {"direct"})
  BY <1>1 DEF Does, Edits, Retags
<1>3. ~\/ ReadDeployments(r) \/ ReadKeys(r) \/ NextSite(r) \/ ListForRetag(r)
       \/ GroupsFail(r) \/ SitesDone(r) \/ ListForAlias(r) \/ AliasDone(r)
       \/ ListForDirect(r) \/ FindMade(r) \/ CleanedUp(r) \/ Unbound(r) \/ KeysDone(r)
       \/ Commit(r)
  BY <1>1, <1>2 DEF ReadDeployments, ReadKeys, NextSite, ListForRetag, GroupsFail, SitesDone,
     ListForAlias, AliasDone, ListForDirect, FindMade, CleanedUp, Unbound, KeysDone, Commit, At
<1>4. \A answer :
        ~\/ DeleteReplaced(r, answer) \/ CreateAlias(r, answer) \/ CreateDirect(r, answer)
         \/ CleanUp(r, answer) \/ Rebind(r, answer) \/ Unbind(r, answer)
  BY <1>1, <1>2 DEF DeleteReplaced, CreateAlias, CreateDirect, CleanUp, Rebind, Unbind, At
<1>5. \A reached \in BOOLEAN :
        ~SyncGroups(r, reached) /\ ~SyncModels(r, reached) /\ ~Register(r, reached)
  <2>1. ~Answer(r, "failed") /\ ~Answer(r, "ok")
    BY <1>1, AnswersTyped DEF TypeInv
  <2>. QED BY <1>2, <2>1 DEF SyncGroups, SyncModels, Register
<1>. QED BY <1>3, <1>4, <1>5, ListForAddEdits, CreateAddedEdits, ListForRefreshEdits,
            ReplaceEdits, DeleteRefreshedEdits, ListForRemoveEdits, DeleteRemovedEdits
         DEF Proceed

-------------------------------------------------------------------------------
(* Direct registration: what it made, and what was there before *)

\* The models that are not there yet are to be created.
LEMMA DirectLists ==
    ASSUME NEW op, NEW n, NEW ds, NEW ss, DirectInv(op, ds, ss), NEW there,
           n.job = op.job, n.found = op.found, n.made = op.made, n.errors = op.errors,
           op.phase = "list", n.phase = "new", n.seen = ds, n.old = op.old,
           n.work = {[id |-> 0, name |-> m.name, upstream |-> m.upstream,
                      site |-> op.job.site, tags |-> op.job.groups] :
                       m \in op.job.models \ there}
    PROVE  DirectInv(n, ds, ss)
<1>1. ds = op.found.deps
  BY DEF DirectInv
<1>2. \A w \in n.work : w.site = op.job.site
  OBVIOUS
<1>3. Named(op.job) => \A v, w \in n.work : v.name = w.name => v = w
  BY DEF Named
<1>. QED BY <1>1, <1>2, <1>3 DEF DirectInv

\* A deployment that has been created, and is not known otherwise, is new.
LEMMA DirectNew ==
    ASSUME NEW op, NEW ds, NEW ss, DirectInv(op, ds, ss), NEW e,
           \A f \in op.found.deps : f.id # e.id
    PROVE  (ds \cup {e}) \ op.found.deps = (ds \ op.found.deps) \cup {e}
OBVIOUS

\* One more is created.
LEMMA DirectCreates ==
    ASSUME NEW op, NEW n, NEW ds, NEW ss, DirectInv(op, ds, ss), NEW d \in op.work, NEW e,
           e.name = d.name, e.site = d.site, e = [d EXCEPT !.id = e.id], d # None,
           \A f \in op.found.deps : f.id # e.id,
           n.job = op.job, n.found = op.found, n.seen = op.seen, n.errors = op.errors,
           op.phase = "new",
           \/ /\ n.phase = "new" /\ n.work = op.work \ {d} /\ n.made = op.made \cup {e.id}
              /\ n.old = op.old
           \/ /\ n.phase = "find" /\ n.work = op.work /\ n.made = op.made /\ n.old = d
              /\ "noId" \in Faults
    PROVE  DirectInv(n, ds \cup {e}, ss)
<1>. DEFINE new == ds \ op.found.deps
<1>1. (ds \cup {e}) \ op.found.deps = new \cup {e}
  BY DirectNew
<1>2. e.site = op.job.site
  BY DEF DirectInv
<1>3. Tells(n.job) => \A a \in new : a.id \in op.made
  BY DEF DirectInv
<1>4. Named(op.job) => /\ \A v, w \in op.work : v.name = w.name => v = w
                       /\ \A a \in new, w \in op.work : a.name # w.name
  BY DEF DirectInv
<1>5. Named(op.job) => Tells(op.job)
  BY DEF Named, Tells
<1>6. /\ ~Live(op.found.sites[op.job.site])
      /\ \A t \in Sites \ {op.job.site} : ss[t] = op.found.sites[t]
      /\ op.found.deps \subseteq ds /\ \A a \in new : a.site = op.job.site
      /\ \A f \in op.found.deps : f.id \notin op.made
      /\ ~op.errors /\ op.seen = op.found.deps /\ \A w \in op.work : w.site = op.job.site
  BY DEF DirectInv
<1>. HIDE DEF new
<1>7. CASE /\ n.phase = "new" /\ n.work = op.work \ {d} /\ n.made = op.made \cup {e.id}
           /\ n.old = op.old
  BY <1>1, <1>2, <1>3, <1>4, <1>6, <1>7 DEF DirectInv
<1>8. CASE /\ n.phase = "find" /\ n.work = op.work /\ n.made = op.made /\ n.old = d
           /\ "noId" \in Faults
  <2>1. Unnamed(n, e)
    BY <1>8 DEF Unnamed
  <2>. QED BY <1>1, <1>2, <1>3, <1>4, <1>5, <1>6, <1>8, <2>1 DEF DirectInv
<1>. QED BY <1>7, <1>8

\* One could not be created, or was and the answer was lost.
LEMMA DirectFails ==
    ASSUME NEW op, NEW n, NEW ds, NEW ss, DirectInv(op, ds, ss), NEW d \in op.work, NEW e,
           e.site = d.site, e = [d EXCEPT !.id = e.id], d # None,
           \A f \in op.found.deps : f.id # e.id,
           n.job = op.job, n.found = op.found, n.seen = op.seen, n.made = op.made,
           n.work = op.work, op.phase = "new", n.phase = "cleanup"
    PROVE  /\ DirectInv(n, ds, ss)
           /\ n.old = d => DirectInv(n, ds \cup {e}, ss)
<1>1. (ds \cup {e}) \ op.found.deps = (ds \ op.found.deps) \cup {e}
  BY DirectNew
<1>2. e.site = op.job.site
  BY DEF DirectInv
<1>3. n.old = d => Unnamed(n, e)
  BY DEF Unnamed
<1>4. Tells(n.job) => \A a \in ds \ op.found.deps : a.id \in n.made
  BY DEF DirectInv
<1>5. DirectInv(n, ds, ss)
  BY <1>4 DEF DirectInv
<1>6. ASSUME n.old = d PROVE DirectInv(n, ds \cup {e}, ss)
  <2>1. Tells(n.job) => \A a, b \in (ds \ op.found.deps) \cup {e} :
                           a.id \in n.made \/ b.id \in n.made \/ (a = b /\ Unnamed(n, a))
    BY <1>3, <1>4, <1>6
  <2>. QED BY <1>1, <1>2, <2>1 DEF DirectInv
<1>. QED BY <1>5, <1>6

\* The one without an id is found by its name.
LEMMA DirectFinds ==
    ASSUME NEW op, NEW n, NEW ds, NEW ss, DirectInv(op, ds, ss), NEW e \in ds,
           e.name = op.old.name, \A f \in op.seen : f.id # e.id,
           n.job = op.job, n.found = op.found, n.seen = op.seen, n.errors = op.errors,
           op.phase = "find", n.phase = "new", n.old = None, n.work = op.work \ {op.old},
           n.made = op.made \cup {e.id}
    PROVE  DirectInv(n, ds, ss)
<1>. DEFINE new == ds \ op.found.deps
<1>1. op.seen = op.found.deps /\ e \in new
  BY DEF DirectInv
<1>2. Tells(op.job) => Named(op.job)
  BY DEF Tells, Named, DirectInv
<1>3. Named(op.job) => /\ \A a \in new : a.id \in n.made
                       /\ \A a \in new, w \in n.work : a.name # w.name
                       /\ \A v, w \in op.work : v.name = w.name => v = w
  BY <1>1 DEF DirectInv
<1>. QED BY <1>1, <1>2, <1>3 DEF DirectInv

\* The registration is given up.
LEMMA DirectGivesUp ==
    ASSUME NEW op, NEW n, NEW ds, NEW ss, NEW rows, DirectInv(op, ds, ss),
           n.job = op.job, n.found = op.found, n.seen = op.seen, n.made = op.made,
           n.work = op.work, n.phase = "cleanup", n.old = op.old,
           \A t \in Sites \ {op.job.site} : rows[t] = ss[t],
           op.phase \in {"find", "new"}
    PROVE  DirectInv(n, ds, rows)
<1>. DEFINE new == ds \ op.found.deps
<1>1. op.phase = "find" /\ Tells(op.job) => Named(op.job)
  BY DEF Tells, Named, DirectInv
<1>2. \A d : Unnamed(n, d) <=> Unnamed(op, d)
  BY DEF Unnamed
<1>3. Tells(n.job) => \A d, e \in new : d.id \in n.made \/ e.id \in n.made
                                         \/ (d = e /\ Unnamed(n, d))
  BY <1>1, <1>2 DEF DirectInv
<1>. QED BY <1>3 DEF DirectInv

\* One that was created is deleted.
LEMMA DirectCleans ==
    ASSUME NEW op, NEW n, NEW ds, NEW ss, NEW left \in SUBSET ds, DirectInv(op, ds, ss),
           NEW id \in op.made, \A d \in ds : d.id # id => d \in left,
           n.job = op.job, n.found = op.found, n.seen = op.seen, n.made = op.made \ {id},
           n.work = op.work, op.phase = "cleanup", n.phase = "cleanup", n.old = op.old,
           ~n.errors => ~op.errors /\ \A d \in left : d.id # id
    PROVE  DirectInv(n, left, ss)
<1>1. op.found.deps \subseteq left
  BY DEF DirectInv
<1>2. left \ op.found.deps \subseteq ds \ op.found.deps
  OBVIOUS
<1>3. \A d : Unnamed(n, d) <=> Unnamed(op, d)
  BY DEF Unnamed
<1>4. ~n.errors => \A d \in left : d.id \in op.made => d.id \in n.made
  OBVIOUS
<1>5. ~n.errors /\ Tells(n.job) =>
         \A d, e \in left \ op.found.deps :
            d.id \in n.made \/ e.id \in n.made \/ (d = e /\ Unnamed(n, d))
  BY <1>2, <1>3, <1>4 DEF DirectInv
<1>. QED BY <1>1, <1>2, <1>5 DEF DirectInv

\* What a handler that registers a Direct site knows when it is at work.
Directing(r) ==
    /\ TypeInv /\ "lists" \notin Faults /\ r \in Requests
    /\ HandlerInv(r) /\ ~At(r, "idle") /\ Does(r, {"direct"})

\* What is to be shown of its step.
DirectOn(r) == DirectInv(ops'[r], deps', sites')

\* The parts of what it knows that the proofs below use.
LEMMA DirectFields ==
    ASSUME NEW r, Directing(r)
    PROVE  LET op == ops[r]
           IN  /\ op \in Handlers /\ op.job \in Jobs /\ op.job # None /\ op.job.op = "direct"
               /\ op.phase \notin {"deployments", "keys", "sites", "models", "rebind",
                                   "unbind", "mcp"}
               /\ op.work \subseteq Deployments
               /\ DirectInv(op, deps, sites) /\ Read(deps, {}) = {deps} /\ r \in Requests /\ TypeInv
               /\ \A f \in op.found.deps : f.id # nextId
<1>. DEFINE op == ops[r]
<1>1. op \in Handlers /\ Fits(op) /\ op.job \in Jobs /\ op.job # None /\ op.job.op = "direct"
  BY AtWork DEF Directing, Does
<1>2. op.phase \notin {"deployments", "keys", "sites", "models", "rebind", "unbind", "mcp"}
  BY <1>1 DEF Fits, Groupwise, Locked
<1>3. op.work \subseteq Deployments
  BY <1>1 DEF Handlers
<1>4. Read(deps, {}) = {deps}
  BY ReadsAll DEF Directing
<1>5. \A f \in op.found.deps : f.id \in Nat /\ f.id < nextId
  BY DEF Directing, HandlerInv, FoundIds, Portals, Deployments
<1>6. \A f \in op.found.deps : f.id # nextId
  BY <1>5 DEF Directing, TypeInv, TypeOK
<1>. QED BY <1>1, <1>2, <1>3, <1>4, <1>6 DEF Directing, HandlerInv

\* What is listed is what was there at the start.
LEMMA ListForDirectDirects ==
    ASSUME NEW r, Directing(r), ListForDirect(r)
    PROVE  DirectOn(r)
<1>. DEFINE op == ops[r]
            work == {[id |-> 0, name |-> m.name, upstream |-> m.upstream,
                      site |-> op.job.site, tags |-> op.job.groups] :
                       m \in op.job.models \ ModelsOf(Of(op.job.site, deps))}
            n == [op EXCEPT !.phase = "new", !.seen = deps, !.work = work]
<1>1. /\ op \in Handlers /\ r \in Requests /\ TypeInv /\ DirectInv(op, deps, sites)
      /\ Read(deps, {}) = {deps}
  BY DirectFields
<1>2. op.phase = "list" /\ UNCHANGED <<deps, sites>>
  BY DEF ListForDirect, At, litellm
<1>3. Step(r, n)
  BY <1>1 DEF ListForDirect
<1>4. /\ n.phase = "new" /\ n.seen = deps /\ n.work = work /\ n.made = op.made
      /\ n.old = op.old /\ n.job = op.job /\ n.found = op.found /\ n.errors = op.errors
  BY <1>1 DEF Handlers
<1>. HIDE DEF n
<1>5. DirectInv(n, deps, sites)
  BY <1>1, <1>2, <1>4, DirectLists
<1>. HIDE DEF work
<1>. QED BY <1>1, <1>2, <1>3, <1>5, Advances DEF DirectOn

\* A deployment is created, with or without its id, or is not.
LEMMA CreateDirectDirects ==
    ASSUME NEW r, Directing(r), NEW answer \in Answers, CreateDirect(r, answer)
    PROVE  DirectOn(r)
<1>. DEFINE op == ops[r]
            e(d) == [d EXCEPT !.id = nextId]
            n1(d) == [op EXCEPT !.work = op.work \ {d}, !.made = op.made \cup {nextId}]
            n2(d) == [op EXCEPT !.phase = "find", !.old = d]
            n3(d) == [op EXCEPT !.phase = "cleanup",
                                !.old = IF answer = "lost" THEN d ELSE op.old]
<1>1. /\ op \in Handlers /\ r \in Requests /\ TypeInv /\ DirectInv(op, deps, sites)
      /\ op.work \subseteq Deployments /\ \A f \in op.found.deps : f.id # nextId
  BY DirectFields
<1>2. op.phase = "new" /\ UNCHANGED sites
  BY DEF CreateDirect, At
<1>3. PICK d \in op.work :
        /\ Creates(d, answer)
        /\ \/ answer = "ok" /\ Step(r, n1(d))
           \/ answer = "ok" /\ "noId" \in Faults /\ Step(r, n2(d))
           \/ answer # "ok" /\ Step(r, n3(d))
  BY DEF CreateDirect
<1>4. \/ answer = "refused" /\ deps' = deps
      \/ answer # "refused" /\ deps' = deps \cup {e(d)}
  BY <1>3 DEF Creates, litellm
<1>5. answer \in {"ok", "refused", "lost"}
  BY DEF Answers
<1>6. /\ e(d).id = nextId /\ e(d).name = d.name /\ e(d).site = d.site
      /\ e(d) = [d EXCEPT !.id = e(d).id] /\ d # None
  BY <1>1, NoneAssumption DEF Deployments
<1>7. /\ n1(d).job = op.job /\ n1(d).found = op.found /\ n1(d).seen = op.seen
      /\ n1(d).errors = op.errors /\ n1(d).phase = "new"
      /\ n1(d).work = op.work \ {d} /\ n1(d).made = op.made \cup {e(d).id}
      /\ n1(d).old = op.old
  BY <1>1, <1>2, <1>6 DEF Handlers
<1>8. /\ n2(d).job = op.job /\ n2(d).found = op.found /\ n2(d).seen = op.seen
      /\ n2(d).errors = op.errors /\ n2(d).phase = "find"
      /\ n2(d).work = op.work /\ n2(d).made = op.made /\ n2(d).old = d
  BY <1>1 DEF Handlers
<1>9. /\ n3(d).job = op.job /\ n3(d).found = op.found /\ n3(d).seen = op.seen
      /\ answer = "lost" => n3(d).old = d
      /\ n3(d).phase = "cleanup" /\ n3(d).work = op.work /\ n3(d).made = op.made
  BY <1>1 DEF Handlers
<1>. HIDE DEF e, n1, n2, n3
<1>10. CASE answer = "ok"
  <2>1. deps' = deps \cup {e(d)}
    BY <1>4, <1>10
  <2>2. DirectInv(n1(d), deps \cup {e(d)}, sites)
    BY <1>1, <1>2, <1>6, <1>7, DirectCreates
  <2>3. "noId" \in Faults => DirectInv(n2(d), deps \cup {e(d)}, sites)
    BY <1>1, <1>2, <1>6, <1>8, DirectCreates
  <2>4. \/ ops'[r] = n1(d)
        \/ "noId" \in Faults /\ ops'[r] = n2(d)
    BY <1>1, <1>3, <1>10, Advances
  <2>. QED BY <1>2, <2>1, <2>2, <2>3, <2>4 DEF DirectOn
<1>11. CASE answer # "ok"
  <2>1. ops'[r] = n3(d)
    BY <1>1, <1>3, <1>11, Advances
  <2>2. /\ DirectInv(n3(d), deps, sites)
        /\ n3(d).old = d => DirectInv(n3(d), deps \cup {e(d)}, sites)
    BY <1>1, <1>2, <1>6, <1>9, DirectFails
  <2>. QED BY <1>2, <1>4, <1>5, <1>9, <1>11, <2>1, <2>2 DEF DirectOn
<1>. QED BY <1>10, <1>11

\* What is found is not one that was there.
LEMMA FindMadeDirects ==
    ASSUME NEW r, Directing(r), FindMade(r)
    PROVE  DirectOn(r)
<1>. DEFINE op == ops[r]
            new == {e \in Of(op.old.site, Listed(op.old.name, deps)) :
                        \A f \in op.seen : f.id # e.id}
            n1(e) == [op EXCEPT !.phase = "new", !.old = None, !.work = op.work \ {op.old},
                                !.made = op.made \cup {e.id}]
            n2 == [op EXCEPT !.phase = "cleanup"]
<1>1. /\ op \in Handlers /\ r \in Requests /\ TypeInv /\ DirectInv(op, deps, sites)
      /\ Read(deps, {}) = {deps}
  BY DirectFields
<1>2. op.phase = "find" /\ UNCHANGED <<deps, sites>>
  BY DEF FindMade, At, litellm
<1>3. \/ \E e \in new : Step(r, n1(e))
      \/ Step(r, n2)
  BY <1>1 DEF FindMade
<1>4. ASSUME NEW e \in new, Step(r, n1(e)) PROVE DirectOn(r)
  <2>1. /\ n1(e).job = op.job /\ n1(e).found = op.found /\ n1(e).seen = op.seen
        /\ n1(e).errors = op.errors /\ n1(e).phase = "new"
        /\ n1(e).work = op.work \ {op.old} /\ n1(e).made = op.made \cup {e.id}
        /\ n1(e).old = None
    BY <1>1 DEF Handlers
  <2>2. e \in deps /\ e.name = op.old.name /\ \A f \in op.seen : f.id # e.id
    BY DEF Of, Listed
  <2>. HIDE DEF n1
  <2>3. DirectInv(n1(e), deps, sites)
    BY <1>1, <1>2, <2>1, <2>2, DirectFinds
  <2>. QED BY <1>1, <1>2, <1>4, <2>3, Advances DEF DirectOn
<1>5. ASSUME Step(r, n2) PROVE DirectOn(r)
  <2>1. /\ n2.job = op.job /\ n2.found = op.found /\ n2.seen = op.seen
        /\ n2.old = op.old /\ n2.phase = "cleanup" /\ n2.work = op.work /\ n2.made = op.made
    BY <1>1 DEF Handlers
  <2>. HIDE DEF n2
  <2>2. DirectInv(n2, deps, sites)
    BY <1>1, <1>2, <2>1, DirectGivesUp
  <2>. QED BY <1>1, <1>2, <1>5, <2>2, Advances DEF DirectOn
<1>. HIDE DEF n1, n2, new
<1>. QED BY <1>3, <1>4, <1>5

\* The registration fails.
LEMMA RegisterDirects ==
    ASSUME NEW r, Directing(r), NEW reached, Register(r, reached), ~At(r, "idle")'
    PROVE  DirectOn(r)
<1>. DEFINE op == ops[r]
            n == [op EXCEPT !.phase = "cleanup"]
<1>1. /\ op \in Handlers /\ r \in Requests /\ TypeInv /\ DirectInv(op, deps, sites)
      /\ sites \in [Sites -> Row \cup {None}]
  BY DirectFields DEF TypeInv, TypeOK
<1>2. op.phase = "new" /\ UNCHANGED deps
  BY DEF Register, At, litellm
<1>3. ~Answer(r, "ok")
  BY <1>1, AnswersTyped DEF TypeInv
<1>4. Step(r, n) /\ \A t \in Sites \ {op.job.site} : sites'[t] = sites[t]
  BY <1>1, <1>3 DEF Register
<1>5. /\ n.job = op.job /\ n.found = op.found /\ n.seen = op.seen /\ n.old = op.old
      /\ n.phase = "cleanup" /\ n.work = op.work /\ n.made = op.made
  BY <1>1 DEF Handlers
<1>. HIDE DEF n
<1>6. PICK rows : rows = sites' /\ \A t \in Sites \ {op.job.site} : rows[t] = sites[t]
  BY <1>4
<1>7. DirectInv(n, deps, rows)
  BY <1>1, <1>2, <1>5, <1>6, DirectGivesUp
<1>8. ops'[r] = n
  BY <1>1, <1>4, Advances
<1>. QED BY <1>2, <1>6, <1>7, <1>8 DEF DirectOn

\* A deployment is taken back.
LEMMA CleanUpDirects ==
    ASSUME NEW r, Directing(r), NEW answer, CleanUp(r, answer)
    PROVE  DirectOn(r)
<1>. DEFINE op == ops[r]
            n(id) == [op EXCEPT !.made = op.made \ {id}, !.errors = op.errors \/ answer # "ok"]
<1>1. /\ op \in Handlers /\ r \in Requests /\ TypeInv /\ DirectInv(op, deps, sites)
  BY DirectFields
<1>2. op.phase = "cleanup" /\ UNCHANGED sites
  BY DEF CleanUp, At
<1>3. PICK id \in op.made : Deletes(id, answer) /\ Step(r, n(id))
  BY DEF CleanUp
<1>4. /\ n(id).job = op.job /\ n(id).found = op.found /\ n(id).seen = op.seen
      /\ n(id).errors = (op.errors \/ answer # "ok") /\ n(id).phase = "cleanup"
      /\ n(id).old = op.old
      /\ n(id).work = op.work /\ n(id).made = op.made \ {id}
  BY <1>1, <1>2 DEF Handlers
<1>. HIDE DEF n
<1>5. PICK left \in SUBSET deps :
        /\ left = deps' /\ \A d \in deps : d.id # id => d \in left
        /\ answer = "ok" => \A d \in left : d.id # id
  BY <1>3 DEF Deletes
<1>6. DirectInv(n(id), left, sites)
  <2>1. ~n(id).errors => ~op.errors /\ \A d \in left : d.id # id
    BY <1>4, <1>5
  <2>. QED BY <1>1, <1>2, <1>4, <1>5, <2>1, DirectCleans
<1>. QED BY <1>1, <1>2, <1>3, <1>5, <1>6, Advances DEF DirectOn

\* The steps of a handler that registers a Direct site.
DirectStep(r) ==
    \/ ListForDirect(r) \/ FindMade(r) \/ CleanedUp(r)
    \/ \E answer \in Answers : CreateDirect(r, answer) \/ CleanUp(r, answer)
    \/ \E reached \in BOOLEAN : Register(r, reached)

\* It can take no other.
LEMMA DirectSteps ==
    ASSUME NEW r, Directing(r), Proceed(r), ~Start(r)
    PROVE  DirectStep(r)
<1>1. /\ ops[r].job # None /\ ops[r].job.op = "direct"
      /\ ops[r].phase \notin {"deployments", "keys", "sites", "models", "rebind", "unbind", "mcp"}
  BY DirectFields
<1>2. /\ ~Does(r, {"groups"}) /\ ~Does(r, Retags) /\ ~Does(r, {"alias"}) /\ ~Does(r, {"add"})
      /\ ~Does(r, {"refresh"}) /\ ~Does(r, {"remove"}) /\ ~Does(r, Retags \cup {"refresh"})
  BY <1>1 DEF Does, Retags
<1>3. ~\/ ReadDeployments(r) \/ ReadKeys(r) \/ NextSite(r) \/ ListForRetag(r)
       \/ GroupsFail(r) \/ SitesDone(r) \/ ListForAlias(r) \/ AliasDone(r)
       \/ ListForAdd(r) \/ ListForRefresh(r) \/ ListForRemove(r)
       \/ Unbound(r) \/ KeysDone(r) \/ Commit(r)
  BY <1>1, <1>2 DEF ReadDeployments, ReadKeys, NextSite, ListForRetag, GroupsFail, SitesDone,
     ListForAlias, AliasDone, ListForAdd, ListForRefresh, ListForRemove, Unbound, KeysDone,
     Commit, At
<1>4. \A answer :
        ~\/ Replace(r, answer) \/ DeleteReplaced(r, answer) \/ CreateAdded(r, answer)
         \/ DeleteRefreshed(r, answer) \/ DeleteRemoved(r, answer) \/ CreateAlias(r, answer)
         \/ Rebind(r, answer) \/ Unbind(r, answer)
  BY <1>1, <1>2 DEF Replace, DeleteReplaced, CreateAdded, DeleteRefreshed, DeleteRemoved,
     CreateAlias, Rebind, Unbind, At
<1>5. \A reached : ~SyncGroups(r, reached) /\ ~SyncModels(r, reached)
  BY <1>1, <1>2 DEF SyncGroups, SyncModels, At
<1>. QED BY <1>3, <1>4, <1>5 DEF Proceed, DirectStep

\* A step of a handler that registers a Direct site keeps what is known of it.
LEMMA ProceedDirects ==
    ASSUME NEW r, Directing(r), Proceed(r), ~Start(r), ~At(r, "idle")'
    PROVE  DirectOn(r)
<1>1. ~CleanedUp(r)
  BY AnswersTyped DEF CleanedUp, Directing, TypeInv
<1>. QED BY <1>1, DirectSteps, ListForDirectDirects, CreateDirectDirects, FindMadeDirects,
            RegisterDirects, CleanUpDirects DEF DirectStep

-------------------------------------------------------------------------------
(* Serial requests: the invariant and its theorems *)

\* A handler that goes on keeps what is known of it.
LEMMA HandlerGoesOn ==
    ASSUME TypeInv, "lists" \notin Faults, NEW r \in Requests, ~At(r, "idle"), HandlerInv(r),
           Ids, [Next]_vars, Proceed(r), ~Start(r), ~At(r, "idle")'
    PROVE  HandlerInv(r)'
<1>. DEFINE op == ops[r]
            n == ops'[r]
<1>1. /\ n.job = op.job /\ n.found = op.found /\ n.rows = op.rows
      /\ n.phase \in Early => ReadDeployments(r)
  BY KeepsReading
<1>2. op.found \in Portals /\ op.rows = op.found.sites /\ FoundIds(op, nextId)
  BY DEF HandlerInv
<1>3. FoundIds(n, nextId')
  <2>1. nextId <= nextId'
    BY NextIds
  <2>2. nextId \in Nat /\ nextId' \in Nat
    BY NextTyped DEF TypeInv, TypeOK
  <2>3. \A f \in op.found.deps : f.id \in Nat
    BY <1>2 DEF Portals, Deployments
  <2>. QED BY <1>1, <1>2, <2>1, <2>2, <2>3 DEF FoundIds
<1>4. ASSUME n.phase \in Early
      PROVE  /\ deps' = n.found.deps /\ sites' = n.found.sites /\ keys' = n.found.keys
             /\ n.site = None /\ n.moved = {} /\ n.todo = {}
             /\ n.phase = "keys" => n.seen = n.found.deps
  <2>1. ReadDeployments(r)
    BY <1>1, <1>4
  <2>2. op.phase \in Early
    BY <2>1, ReadsDeployments DEF Early
  <2>3. /\ deps = op.found.deps /\ sites = op.found.sites /\ keys = op.found.keys
        /\ op.site = None /\ op.moved = {} /\ op.todo = {}
    BY <2>2 DEF HandlerInv
  <2>. QED BY <1>1, <2>1, <2>3, ReadsDeployments
<1>5. ASSUME n.job # None, n.job.op \in Retags, n.phase \notin Early
      PROVE  /\ RetagInv(n, deps', sites')
             /\ n.job.op = "rename" => RenameInv(n, keys')
             /\ n.job.op = "delete" => DeleteInv(n, keys', mcp')
  <2>1. Retagging(r)
    BY <1>1, <1>5 DEF Retagging, Does
  <2>2. RetagInv(n, deps', sites')
    BY <1>5, <2>1, ProceedRetags DEF RetagsOn
  <2>3. n.job.op = "rename" => RenameInv(n, keys')
    BY <1>1, <1>5, <2>1, ProceedRenames DEF Renaming, RenamesOn, Does
  <2>4. n.job.op = "delete" => DeleteInv(n, keys', mcp')
    BY <1>1, <1>5, <2>1, ProceedDeletes DEF Does
  <2>. QED BY <2>2, <2>3, <2>4
<1>6. "rename" \in Retags /\ "delete" \in Retags
  BY DEF Retags
<1>7. n.job # None /\ n.job.op \in Edits => EditInv(n, deps', sites')
  BY <1>1, ProceedEdits DEF Editing, EditsOn, Does
<1>8. n.job # None /\ n.job.op = "direct" => DirectInv(n, deps', sites')
  BY <1>1, ProceedDirects DEF Directing, DirectOn, Does
<1>9. n.found \in Portals /\ n.rows = n.found.sites
  BY <1>1, <1>2
<1>10. n.phase = "keys" => n.phase \in Early
  BY DEF Early
<1>. HIDE DEF op
<1>. QED BY <1>3, <1>4, <1>5, <1>6, <1>7, <1>8, <1>9, <1>10 DEF HandlerInv, Does

\* A handler that starts knows the stores.
LEMMA HandlerStarts ==
    ASSUME TypeInv, "lists" \notin Faults, "serial" \in Habits, Ids,
           NEW r \in Requests, Start(r), ~At(r, "idle")'
    PROVE  HandlerInv(r)'
<1>. DEFINE n(job) == [Idle EXCEPT
                    !.phase = IF job.op \in Groupwise THEN "deployments" ELSE "list",
                    !.job = job,
                    !.rows = sites,
                    !.site = IF job.op = "groups" THEN job.site ELSE None,
                    !.tags = IF job.op = "groups" THEN job.groups ELSE {},
                    !.found = [sites |-> sites, deps |-> deps, keys |-> keys]]
<1>1. Read(sites, NoRows) = {sites}
  BY ReadsAll
<1>2. ~Answer(r, "refused")
  BY AnswersTyped DEF TypeInv
<1>3. PICK job \in Asked : ~Rejected(job, sites) /\ ops' = [ops EXCEPT ![r] = n(job)]
  BY <1>1, <1>2 DEF Start
<1>4. ops'[r] = n(job)
  BY <1>3 DEF TypeInv, TypeOK
<1>5. PICK op : op = n(job)
  OBVIOUS
<1>6. /\ op.phase = IF job.op \in Groupwise THEN "deployments" ELSE "list"
      /\ op.job = job /\ op.rows = sites /\ op.todo = {} /\ op.moved = {}
      /\ op.made = {} /\ op.work = {} /\ op.old = None /\ ~op.errors
      /\ op.site = IF job.op = "groups" THEN job.site ELSE None
      /\ op.tags = IF job.op = "groups" THEN job.groups ELSE {}
      /\ op.found = [sites |-> sites, deps |-> deps, keys |-> keys]
  BY <1>5 DEF Idle
<1>7. job \in Jobs /\ job # None
  BY JobsAssumption, NoneAssumption
<1>8. UNCHANGED <<sites, deps, nextId, keys, mcp>>
  BY DEF Start, litellm
<1>9. op.found \in Portals /\ op.rows = op.found.sites /\ FoundIds(op, nextId)
  <2>1. op.found \in Portals
    BY <1>6 DEF TypeInv, TypeOK, Portals
  <2>. QED BY <1>6, <2>1 DEF FoundIds, Ids
<1>10. op.phase \in Early =>
          /\ deps = op.found.deps /\ sites = op.found.sites /\ keys = op.found.keys
          /\ op.site = None /\ op.moved = {} /\ op.todo = {}
  BY <1>6 DEF Early, Groupwise
<1>11. op.phase # "keys"
  BY <1>6
<1>12. ASSUME job.op \in Retags, op.phase \notin Early
       PROVE  job.op = "groups" /\ RetagInv(op, deps, sites)
  <2>1. job.op = "groups" /\ job.site \in Sites
    BY <1>6, <1>7, <1>12 DEF Retags, Groupwise, Early, Jobs
  <2>2. /\ op.todo \cup {op.site} \subseteq Sites \cup {None} /\ op.site \notin op.todo
        /\ deps = op.found.deps /\ sites = op.found.sites
        /\ op.phase = "list" /\ op.job.op = "groups" /\ op.site = op.job.site
        /\ op.site \in Sites /\ op.tags = op.job.groups
    BY <1>6, <1>12, <2>1 DEF Early
  <2>3. RetagInv(op, deps, sites)
    BY <1>6, <2>2, RetagBegins
  <2>. QED BY <2>1, <2>3
<1>13. ASSUME job.op \in Edits PROVE EditInv(op, deps, sites)
  <2>1. Live(sites[job.site]) /\ op.phase = "list"
    BY <1>3, <1>6, <1>13 DEF Edits, OneSite, Groupwise, Rejected
  <2>. QED BY <1>6, <2>1 DEF EditInv
<1>14. ASSUME job.op = "direct" PROVE DirectInv(op, deps, sites)
  <2>1. ~Live(sites[job.site]) /\ op.phase = "list"
    BY <1>3, <1>6, <1>14 DEF Groupwise, Rejected
  <2>. QED BY <1>6, <2>1 DEF DirectInv
<1>15. /\ op.job # None /\ op.job.op \in Edits => EditInv(op, deps, sites)
       /\ op.job # None /\ op.job.op = "direct" => DirectInv(op, deps, sites)
  BY <1>6, <1>13, <1>14
<1>. HIDE DEF n
<1>16. /\ op.job # None /\ op.job.op \in Retags /\ op.phase \notin Early
             => op.job.op = "groups" /\ RetagInv(op, deps, sites)
       /\ "rename" \in Retags /\ "delete" \in Retags
  BY <1>6, <1>12 DEF Retags
<1>. QED BY <1>4, <1>5, <1>8, <1>9, <1>10, <1>11, <1>15, <1>16
         DEF HandlerInv, Does

\* Every step keeps the invariant of requests that come one at a time.
LEMMA NextSerial ==
    ASSUME TypeInv, "lists" \notin Faults, "serial" \in Habits, SInv, [Next]_vars
    PROVE  SInv'
<1>1. Ids' /\ OneAtWork'
  BY NextIds, NextOne DEF SInv
<1>2. ASSUME NEW r \in Requests, ~At(r, "idle")'
      PROVE  HandlerInv(r)'
  <2>1. CASE ~At(r, "idle")
    <3>1. CASE UNCHANGED vars
      BY <2>1, <3>1 DEF vars, SInv, HandlerInv, Does, At
    <3>2. CASE Proceed(r) /\ ~Start(r)
      BY <1>2, <2>1, <3>2, HandlerGoesOn DEF SInv
    <3>. QED BY <2>1, <3>1, <3>2, StepsOfOne DEF SInv
  <2>2. CASE At(r, "idle")
    <3>1. UNCHANGED ops \/ \E q \in Requests : Proceed(q)
      BY DEF Next, api_keys_create, api_keys_update, api_keys_delete, api_sites_revoke, vars
    <3>2. PICK q \in Requests : Proceed(q)
      BY <1>2, <2>2, <3>1 DEF At
    <3>3. q = r
      BY <1>2, <2>2, <3>2, ProceedTyped DEF Alone, At
    <3>. QED BY <1>2, <2>2, <3>2, <3>3, AtRestStarts, HandlerStarts DEF SInv
  <2>. QED BY <2>1, <2>2
<1>. QED BY <1>1, <1>2 DEF SInv

\* The invariant holds of a portal where nobody has asked anything yet.
LEMMA InitSerial == Init => SInv
<1>. SUFFICES ASSUME Init PROVE SInv
  OBVIOUS
<1>1. Ids
  BY FirstAssumption DEF Init, Ids
<1>2. \A r \in Requests : At(r, "idle")
  BY DEF Init, At, Idle
<1>. QED BY <1>1, <1>2 DEF SInv, OneAtWork

\* Requests come one at a time, and no listing fails and reads as empty.
Serial == "serial" \in Habits /\ "lists" \notin Faults

\* Of such a portal it is an invariant.
LEMMA SpecSerial == ASSUME Serial PROVE Spec => [](TypeInv /\ SInv)
<1>1. TypeInv /\ SInv /\ [Next]_vars => (TypeInv /\ SInv)'
  BY NextTyped, NextSerial DEF Serial
<1>. QED BY <1>1, InitTyped, InitSerial, PTL DEF Spec

\* With the groups of a site the same on all its deployments, a copy has the
\* groups of what it was copied from, edited.
LEMMA CopiesRenamed ==
    ASSUME NEW op, NEW d, NEW f \in op.found.deps, Image(op, d, f), op.job.op = "rename",
           Uniform(op.found.deps)
    PROVE  /\ Same(d, f) /\ op.job.group \in f.tags
           /\ d.tags = (f.tags \ {op.job.group}) \cup {op.job.to}
<1>1. GroupsThen(op, f.site) = f.tags
  <2>1. \A e \in Of(f.site, op.found.deps) : e.tags = f.tags
    BY DEF Uniform, Of
  <2>2. f \in Of(f.site, op.found.deps)
    BY DEF Of
  <2>. QED BY <2>1, <2>2 DEF GroupsThen, TagsOf
<1>. QED BY <1>1 DEF Image, Retagged, NewGroups

\* No key reaches more than before.
LEMMA NothingWidened ==
    ASSUME NEW op, NEW ks, NEW ds, Copied(op, ds), RenameInv(op, ks),
           op.job.op = "rename", op.job.group \in Groups, op.job.to \in Groups,
           Uniform(op.found.deps), Tidy(op.found), NEW k \in Keys
    PROVE  KeyReach(ks, ds, k) \subseteq KeyReach(op.found.keys, op.found.deps, k)
<1>. DEFINE g == op.job.group
            to == op.job.to
            was == op.found.keys
<1>1. /\ was[k] # to /\ g # to /\ \A f \in op.found.deps : to \notin f.tags
      /\ ks[k] = was[k] \/ (was[k] = g /\ ks[k] = to)
  BY DEF RenameInv
<1>2. g # "default" /\ to # "default" /\ g # None /\ to # None
  BY DefaultAssumption, NoneAssumption
<1>3. ASSUME NEW d \in ds, ks[k] # None, d \in Eligible(ks[k], ds)
      PROVE  was[k] # None /\ \E f \in Eligible(was[k], op.found.deps) : Same(d, f)
  <2>1. ks[k] = "default" \/ ks[k] \in d.tags
    BY <1>3 DEF Eligible
  <2>2. CASE d \in op.found.deps
    BY <1>1, <1>2, <1>3, <2>1, <2>2 DEF Eligible, Same
  <2>3. ASSUME NEW f \in op.found.deps, Image(op, d, f)
        PROVE  was[k] # None /\ f \in Eligible(was[k], op.found.deps) /\ Same(d, f)
    BY <1>1, <1>2, <1>3, <2>1, <2>3, CopiesRenamed DEF Eligible
  <2>. QED BY <2>2, <2>3 DEF Copied
<1>. QED BY <1>3 DEF KeyReach, Reach, Eligible, Same

\* When the rename is done no key reaches less.
LEMMA NothingLost ==
    ASSUME NEW op, NEW ks, NEW ds, NEW ss, RenameInv(op, ks), Sorted(op, ds, ss),
           op.phase = "mcp", op.found \in Portals,
           op.job.op = "rename", op.job.group \in Groups, op.job.to \in Groups,
           Uniform(op.found.deps), Tidy(op.found), NEW k \in Keys
    PROVE  KeyReach(op.found.keys, op.found.deps, k) \subseteq KeyReach(ks, ds, k)
<1>. DEFINE g == op.job.group
            to == op.job.to
            was == op.found.keys
<1>1. /\ op.todo = {}
      /\ was[k] = g => ks[k] = to
      /\ was[k] # g => ks[k] = was[k]
  BY DEF RenameInv
<1>2. g # "default" /\ to # "default" /\ g # None /\ to # None
  BY DefaultAssumption, NoneAssumption
<1>3. ASSUME NEW f \in op.found.deps, was[k] # None, f \in Eligible(was[k], op.found.deps)
      PROVE  ks[k] # None /\ \E d \in Eligible(ks[k], ds) : Same(d, f)
  <2>1. was[k] = "default" \/ was[k] \in f.tags
    BY <1>3 DEF Eligible
  <2>2. f.site \in Sites /\ f.site \in Scope(op)
    BY DEF Portals, Deployments, Tidy, Live, Scope
  <2>3. Pending(op) = {}
    BY <1>1 DEF Pending
  <2>4. CASE Untouched(op, f.site, ds, ss) /\ ~Retagged(op, f.site)
    <3>1. f \in ds
      BY <2>4 DEF Untouched, Of
    <3>2. g \notin f.tags
      BY <2>4 DEF Retagged, GroupsThen, TagsOf, Of
    <3>3. f \in Eligible(ks[k], ds) /\ ks[k] # None
      BY <1>1, <1>2, <1>3, <2>1, <3>1, <3>2 DEF Eligible
    <3>. QED BY <3>3 DEF Same
  <2>5. CASE Settled(op, f.site, ds, ss)
    <3>1. PICK d \in ds : Image(op, d, f)
      BY <2>5 DEF Settled, Of
    <3>2. Same(d, f) /\ g \in f.tags /\ d.tags = (f.tags \ {g}) \cup {to}
      BY <3>1, CopiesRenamed
    <3>. QED BY <1>1, <1>2, <1>3, <2>1, <3>2 DEF Eligible
  <2>. QED BY <2>2, <2>3, <2>4, <2>5 DEF Sorted
<1>. QED BY <1>3 DEF KeyReach, Reach, Eligible, Same

\* No deployment carries the group any more.
LEMMA NothingStranded ==
    ASSUME NEW op, NEW ds, NEW ss, Copied(op, ds), Sorted(op, ds, ss),
           op.phase = "sites", op.todo = {}, op.found \in Portals,
           op.job.op = "delete", Managed(op.found)
    PROVE  op.job.group \notin TagsOf(ds)
<1>1. \A d, f : Image(op, d, f) => op.job.group \notin d.tags
  BY DEF Image, NewGroups
<1>2. ASSUME NEW d \in ds, d \in op.found.deps PROVE op.job.group \notin d.tags
  <2>1. d.site \in Sites /\ d.site \in Scope(op)
    BY <1>2 DEF Portals, Deployments, Managed, Scope
  <2>2. Pending(op) = {}
    BY DEF Pending
  <2>3. CASE ~Retagged(op, d.site)
    BY <1>2, <2>3 DEF Retagged, GroupsThen, TagsOf, Of
  <2>4. CASE Settled(op, d.site, ds, ss)
    BY <1>1, <2>4 DEF Settled, Of
  <2>. QED BY <2>1, <2>2, <2>3, <2>4 DEF Sorted
<1>. QED BY <1>1, <1>2 DEF Copied, TagsOf

\* At no moment of a rename, finished or given up, does a key reach a
\* deployment its group did not reach before, whatever call fails
\* (api_groups_rename); of requests that come one at a time, with no
\* listing that fails and reads as empty.
THEOREM RenamesWidenNothing == ASSUME Serial PROVE Spec => []RenameWidensNothing
<1>1. ASSUME TypeInv, SInv PROVE RenameWidensNothing
  <2>. SUFFICES ASSUME NEW r \in Requests, NEW k \in Keys, Does(r, {"rename"}),
                       Uniform(ops[r].found.deps), Tidy(ops[r].found)
                PROVE  KeyReach(keys, deps, k) \subseteq
                          KeyReach(ops[r].found.keys, ops[r].found.deps, k)
    BY DEF RenameWidensNothing
  <2>1. ~At(r, "idle") /\ HandlerInv(r)
    BY <1>1 DEF TypeInv, TypeOK, Does, SInv
  <2>2. CASE ops[r].phase \in Early
    BY <2>1, <2>2 DEF HandlerInv
  <2>3. CASE ops[r].phase \notin Early
    <3>1. Does(r, Retags)
      BY DEF Does, Retags
    <3>2. Copied(ops[r], deps) /\ RenameInv(ops[r], keys)
      BY <2>1, <2>3, <3>1 DEF HandlerInv, RetagInv
    <3>3. ops[r].job.op = "rename" /\ ops[r].job.group \in Groups /\ ops[r].job.to \in Groups
      BY <1>1, <2>1, AtWork DEF Does, Jobs
    <3>. QED BY <3>2, <3>3, NothingWidened
  <2>. QED BY <2>2, <2>3
<1>. QED BY <1>1, SpecSerial, PTL

\* The last step of a request is one of its handler.
LEMMA LastStep ==
    ASSUME TypeInv, SInv, Serial, [Next]_vars, NEW r \in Requests, NEW op,
           Finishes(r, op, "ok")
    PROVE  /\ Proceed(r) /\ ~Start(r) /\ HandlerInv(r) /\ Fits(ops[r])
           /\ ops[r].job # None /\ ops[r].job.op = op /\ ops[r].job \in Jobs
<1>1. ops[r].job # None /\ ops[r].job.op = op /\ ~At(r, "idle") /\ At(r, "idle")'
  BY DEF Finishes, Does, TypeInv, TypeOK
<1>2. ~UNCHANGED vars
  BY <1>1 DEF vars, At
<1>. QED BY <1>1, <1>2, StepsOfOne, AtWork DEF SInv, Serial

\* Where a handler answers with ok.
LEMMA EndsWell ==
    ASSUME TypeInv, NEW r \in Requests, Proceed(r), ~Start(r), ~At(r, "idle"),
           At(r, "idle")', ops'[r].answer = "ok"
    PROVE  \/ SyncGroups(r, TRUE) /\ Does(r, {"groups"})
           \/ SitesDone(r) /\ ~ops[r].errors /\ ~Does(r, {"rename"})
           \/ Commit(r) \/ SyncModels(r, TRUE) \/ ListForRefresh(r) \/ AliasDone(r)
           \/ Register(r, TRUE)
<1>1. ~Answer(r, "failed") /\ ~Answer(r, "refused")
  <2>1. \A answer : [Idle EXCEPT !.answer = answer].answer = answer
    BY DEF Idle
  <2>2. \A answer : Answer(r, answer) => ops'[r].answer = answer
    BY <2>1 DEF Answer, TypeInv, TypeOK
  <2>. QED BY <2>2
<1>2. ASSUME NEW n, n.phase # "idle" PROVE ~Step(r, n)
  BY <1>2, Advances DEF At
<1>3. ops[r] \in Handlers
  BY DEF TypeInv, TypeOK
<1>4. ~ReadDeployments(r) /\ ~ReadKeys(r) /\ ~GroupsFail(r) /\ ~CleanedUp(r) /\ ~Unbound(r)
  BY <1>1, <1>2, <1>3 DEF ReadDeployments, ReadKeys, GroupsFail, CleanedUp, Unbound, Handlers
<1>5. ~NextSite(r) /\ ~ListForRetag(r) /\ ~KeysDone(r)
  BY <1>1, <1>2, <1>3 DEF NextSite, ListForRetag, KeysDone, Handlers, At
<1>6. ~ListForAdd(r) /\ ~ListForRemove(r) /\ ~ListForAlias(r)
  BY <1>1, <1>2, <1>3 DEF ListForAdd, ListForRemove, ListForAlias, Handlers
<1>7. ~ListForDirect(r) /\ ~FindMade(r)
  BY <1>2, <1>3 DEF ListForDirect, FindMade, Handlers
<1>8. \A answer : ~Replace(r, answer) /\ ~DeleteReplaced(r, answer)
  BY <1>1, <1>2, <1>3 DEF Replace, DeleteReplaced, Handlers, At
<1>9. \A answer : ~CreateAdded(r, answer) /\ ~DeleteRefreshed(r, answer)
                  /\ ~DeleteRemoved(r, answer)
  BY <1>1, <1>2, <1>3 DEF CreateAdded, DeleteRefreshed, DeleteRemoved, Handlers
<1>10. \A answer : ~CreateAlias(r, answer) /\ ~CreateDirect(r, answer) /\ ~CleanUp(r, answer)
  BY <1>2, <1>3 DEF CreateAlias, CreateDirect, CleanUp, Handlers, At
<1>11. \A answer : ~Rebind(r, answer) /\ ~Unbind(r, answer)
  BY <1>2, <1>3 DEF Rebind, Unbind, Handlers, At
<1>12. \A reached \in BOOLEAN : SyncGroups(r, reached) => reached /\ Does(r, {"groups"})
  BY <1>1, <1>2, <1>3 DEF SyncGroups, Handlers
<1>13. \A reached \in BOOLEAN : SyncModels(r, reached) => reached
  BY <1>1 DEF SyncModels
<1>14. \A reached \in BOOLEAN : Register(r, reached) => reached
  BY <1>2, <1>3 DEF Register, Handlers
<1>15. SitesDone(r) => ~ops[r].errors /\ ~Does(r, {"rename"})
  BY <1>1, <1>2, <1>3 DEF SitesDone, Handlers
<1>. QED BY <1>4, <1>5, <1>6, <1>7, <1>8, <1>9, <1>10, <1>11, <1>12, <1>13, <1>14, <1>15
         DEF Proceed

\* Which of these places it is depends on the job.
LEMMA EndsAsAsked ==
    ASSUME TypeInv, NEW r \in Requests, Proceed(r), ~Start(r), Fits(ops[r]),
           ops[r].job # None, At(r, "idle")', ops'[r].answer = "ok"
    PROVE  LET job == ops[r].job
           IN  /\ job.op = "groups" => SyncGroups(r, TRUE)
               /\ job.op \in {"create", "delete"} => SitesDone(r) /\ ~ops[r].errors
               /\ job.op = "rename" => Commit(r)
               /\ job.op \in Edits => SyncModels(r, TRUE) \/ ListForRefresh(r)
               /\ job.op = "direct" => Register(r, TRUE)
<1>1. ~At(r, "idle")
  BY DEF TypeInv, TypeOK
<1>2. /\ Commit(r) => ops[r].job.op \in Locked
      /\ SitesDone(r) => ops[r].job.op \in {"create", "rename", "delete"}
      /\ \A reached : SyncModels(r, reached) => ops[r].job.op \in Edits
      /\ ListForRefresh(r) => ops[r].job.op = "refresh"
      /\ AliasDone(r) => ops[r].job.op = "alias"
      /\ \A reached : Register(r, reached) => ops[r].job.op = "direct"
  BY DEF Commit, SitesDone, SyncModels, ListForRefresh, AliasDone, Register, Fits, At, Does, Edits
<1>. QED BY <1>1, <1>2, EndsWell DEF Locked, Edits, Does

\* A rename that is answered with ok moved everything, so no key reaches
\* anything else than before (api_groups_rename).
THEOREM RenamesKeepReach == ASSUME Serial PROVE Spec => RenameKeepsReach
<1>1. ASSUME TypeInv, SInv, [Next]_vars, NEW r \in Requests, NEW k \in Keys,
             Finishes(r, "rename", "ok"), Uniform(ops[r].found.deps), Tidy(ops[r].found)
      PROVE  KeyReach(keys, deps, k)' = KeyReach(ops[r].found.keys, ops[r].found.deps, k)
  <2>1. /\ Proceed(r) /\ ~Start(r) /\ HandlerInv(r) /\ Fits(ops[r])
        /\ ops[r].job # None /\ ops[r].job.op = "rename" /\ ops[r].job \in Jobs
    BY <1>1, LastStep
  <2>2. Commit(r)
    BY <1>1, <2>1, EndsAsAsked DEF Finishes
  <2>3. ops[r].phase = "mcp" /\ UNCHANGED <<deps, keys, sites>>
    BY <2>2 DEF Commit, At, litellm
  <2>4. /\ RetagInv(ops[r], deps, sites) /\ RenameInv(ops[r], keys) /\ ops[r].found \in Portals
    BY <2>1, <2>3 DEF HandlerInv, Does, Retags, Early
  <2>5. Copied(ops[r], deps) /\ Sorted(ops[r], deps, sites)
    BY <2>3, <2>4 DEF RetagInv, RenameInv
  <2>6. ops[r].job.group \in Groups /\ ops[r].job.to \in Groups
    BY <2>1 DEF Jobs
  <2>7. KeyReach(keys, deps, k) \subseteq KeyReach(ops[r].found.keys, ops[r].found.deps, k)
    BY <1>1, <2>1, <2>4, <2>5, <2>6, NothingWidened
  <2>8. KeyReach(ops[r].found.keys, ops[r].found.deps, k) \subseteq KeyReach(keys, deps, k)
    BY <1>1, <2>1, <2>3, <2>4, <2>5, <2>6, NothingLost
  <2>. QED BY <2>3, <2>7, <2>8 DEF KeyReach
<1>2. TypeInv /\ SInv /\ [Next]_vars =>
        [\A r \in Requests : \A k \in Keys :
          LET found == ops[r].found
          IN Finishes(r, "rename", "ok") /\ Uniform(found.deps) /\ Tidy(found)
                => KeyReach(keys, deps, k)' = KeyReach(found.keys, found.deps, k)]_vars
  BY <1>1
<1>3. Spec => [][\A r \in Requests : \A k \in Keys :
          LET found == ops[r].found
          IN Finishes(r, "rename", "ok") /\ Uniform(found.deps) /\ Tidy(found)
                => KeyReach(keys, deps, k)' = KeyReach(found.keys, found.deps, k)]_vars
  BY <1>2, SpecSerial, PTL DEF Spec
<1>. QED BY <1>3 DEF RenameKeepsReach

\* After a group was deleted no key and no MCP entry is bound to it, and no
\* deployment carries it any more (api_groups_delete).
THEOREM DeletesStrandNobody == ASSUME Serial PROVE Spec => DeleteStrandsNobody
<1>1. ASSUME TypeInv, SInv, [Next]_vars, NEW r \in Requests,
             Finishes(r, "delete", "ok"), Managed(ops[r].found)
      PROVE  /\ \A k \in Keys : keys'[k] # ops[r].job.group
             /\ \A e \in Entries : ops[r].job.group \notin mcp'[e]
             /\ ops[r].job.group \notin TagsOf(deps')
  <2>1. /\ Proceed(r) /\ ~Start(r) /\ HandlerInv(r) /\ Fits(ops[r])
        /\ ops[r].job # None /\ ops[r].job.op = "delete"
    BY <1>1, LastStep
  <2>2. SitesDone(r) /\ ops[r].todo = {} /\ ~ops[r].errors
    BY <1>1, <2>1, EndsAsAsked DEF Finishes, SitesDone
  <2>3. ops[r].phase = "sites" /\ UNCHANGED <<deps, keys, mcp>>
    BY <2>2 DEF SitesDone, At, litellm
  <2>4. /\ RetagInv(ops[r], deps, sites) /\ DeleteInv(ops[r], keys, mcp)
        /\ ops[r].found \in Portals
    BY <2>1, <2>3 DEF HandlerInv, Does, Retags, Early
  <2>5. Copied(ops[r], deps) /\ Sorted(ops[r], deps, sites)
    BY <2>2, <2>4 DEF RetagInv
  <2>6. ops[r].job.group \notin TagsOf(deps)
    BY <1>1, <2>1, <2>2, <2>3, <2>4, <2>5, NothingStranded
  <2>. QED BY <2>3, <2>4, <2>6 DEF DeleteInv
<1>2. TypeInv /\ SInv /\ [Next]_vars =>
        [\A r \in Requests :
          LET g == ops[r].job.group
          IN Finishes(r, "delete", "ok") /\ Managed(ops[r].found) =>
                /\ \A k \in Keys : keys'[k] # g
                /\ \A e \in Entries : g \notin mcp'[e]
                /\ g \notin TagsOf(deps')]_vars
  BY <1>1
<1>3. Spec => [][\A r \in Requests :
          LET g == ops[r].job.group
          IN Finishes(r, "delete", "ok") /\ Managed(ops[r].found) =>
                /\ \A k \in Keys : keys'[k] # g
                /\ \A e \in Entries : g \notin mcp'[e]
                /\ g \notin TagsOf(deps')]_vars
  BY <1>2, SpecSerial, PTL DEF Spec
<1>. QED BY <1>3 DEF DeleteStrandsNobody

-------------------------------------------------------------------------------
(* Agreement of the registry with LiteLLM *)

\* A site that was retagged agrees as it did.
LEMMA SettledAgrees ==
    ASSUME NEW op, NEW s, NEW ds, NEW ss, Settled(op, s, ds, ss), op.found \in Portals,
           s \in Sites, Live(op.found.sites[s]), Agrees(op.found.sites[s], Of(s, op.found.deps))
    PROVE  Agrees(ss[s], Of(s, ds))
<1>. DEFINE was == op.found.sites[s]
            mine == Of(s, op.found.deps)
<1>1. was \in Row /\ ss[s] = [was EXCEPT !.groups = NewGroups(op.job, @)]
  BY DEF Settled, Portals, Live
<1>2. ss[s].models = was.models /\ ss[s].groups = NewGroups(op.job, was.groups)
  BY <1>1 DEF Row
<1>3. \A d, f : Image(op, d, f) => d.name = f.name /\ d.upstream = f.upstream /\ d.site = f.site
  BY DEF Image, Same
<1>4. ModelsOf(Of(s, ds)) = ModelsOf(mine)
  <2>1. \A f \in mine : \E d \in Of(s, ds) : d.name = f.name /\ d.upstream = f.upstream
    BY <1>3 DEF Settled, Of
  <2>2. \A d \in Of(s, ds) : \E f \in mine : d.name = f.name /\ d.upstream = f.upstream
    BY <1>3 DEF Settled, Of
  <2>. QED BY <2>1, <2>2 DEF ModelsOf
<1>5. ASSUME NEW d \in Of(s, ds) PROVE d.tags = ss[s].groups
  <2>1. PICK f \in op.found.deps : Image(op, d, f)
    BY DEF Settled
  <2>2. f \in mine
    BY <1>3, <2>1 DEF Of
  <2>3. GroupsThen(op, s) = was.groups
    BY <2>2 DEF GroupsThen, TagsOf, Agrees
  <2>. QED BY <1>2, <2>1, <2>2, <2>3 DEF Image, Of
<1>. QED BY <1>2, <1>4, <1>5 DEF Agrees

\* Sites that were retagged, or left as they were, agree as they did.
LEMMA SortedAgrees ==
    ASSUME NEW op, NEW ds, NEW ss, Sorted(op, ds, ss), op.phase \notin {"new", "delete"},
           op.found \in Portals, NEW s \in Sites, Live(op.found.sites[s]),
           Agrees(op.found.sites[s], Of(s, op.found.deps))
    PROVE  Agrees(ss[s], Of(s, ds))
<1>1. Untouched(op, s, ds, ss) => Agrees(ss[s], Of(s, ds))
  BY DEF Untouched
<1>. QED BY <1>1, SettledAgrees DEF Sorted

\* A site whose models were edited agrees when its row has been told.
LEMMA EditedAgrees ==
    ASSUME NEW op, NEW ds, NEW row, Edited(op, ds), op.found \in Portals,
           op.job.site \in Sites,
           Agrees(op.found.sites[op.job.site], Of(op.job.site, op.found.deps)),
           row.models = ModelsAfter(op), row.groups = op.found.sites[op.job.site].groups
    PROVE  Agrees(row, Of(op.job.site, ds))
<1>. DEFINE s == op.job.site
            was == op.found.sites[s]
            mine == Of(s, op.found.deps)
<1>1. \A f \in mine : f.tags = was.groups
  BY DEF Agrees
<1>2. TagsOf(mine) \cup was.groups = was.groups
  BY <1>1 DEF TagsOf
<1>3. \A d \in Of(s, ds) : d.tags = was.groups
  BY <1>1, <1>2 DEF Edited, Added
<1>. QED BY <1>3 DEF Edited, Agrees

\* Where the registry agreed with LiteLLM, an operation that is answered
\* with ok leaves it in agreement, whatever calls fail on the way
\* (api_sites_groups, api_sites_models_add, _refresh and _remove,
\* api_groups_create, api_groups_rename, api_sites_direct).
THEOREM AgreementIsKept == ASSUME Serial PROVE Spec => OkKeepsAgreement
<1>1. ASSUME TypeInv, SInv, [Next]_vars, NEW r \in Requests, NEW op \in Synced,
             Finishes(r, op, "ok"), NEW s \in Sites, Live(ops[r].found.sites[s]),
             Agrees(ops[r].found.sites[s], Of(s, ops[r].found.deps))
      PROVE  Agrees(sites'[s], Of(s, deps'))
  <2>1. /\ Proceed(r) /\ ~Start(r) /\ HandlerInv(r) /\ Fits(ops[r])
        /\ ops[r].job # None /\ ops[r].job.op = op /\ ops[r].job \in Jobs
        /\ ops[r] \in Handlers /\ ops[r].found \in Portals /\ ~At(r, "idle")
        /\ TypeInv /\ "lists" \notin Faults /\ sites \in [Sites -> Row \cup {None}]
    BY <1>1, LastStep DEF TypeInv, TypeOK, HandlerInv, Serial
  <2>2. CASE op = "groups"
    <3>1. SyncGroups(r, TRUE)
      BY <1>1, <2>1, <2>2, EndsAsAsked DEF Finishes
    <3>2. ops[r].phase = "new" /\ ~ops[r].errors /\ Retagging(r) /\ RetagInv(ops[r], deps, sites)
      BY <2>1, <2>2, <3>1 DEF SyncGroups, At, Does, Retagging, Retags, HandlerInv, Early
    <3>3. PICK rows : 
            /\ rows = sites'
            /\ rows = [sites EXCEPT ![ops[r].site] = IF sites[ops[r].site] = None THEN None
                     ELSE [sites[ops[r].site] EXCEPT !.groups =
                             NewGroups(ops[r].job, ops[r].found.sites[ops[r].site].groups)]]
      BY <3>1, <3>2, SyncSteps
    <3>4. ops[r].work = {} /\ UNCHANGED deps
      BY <3>1, <3>2, SyncSteps
    <3>. DEFINE n == [ops[r] EXCEPT !.phase = "sites", !.site = None]
    <3>5. /\ n.job = ops[r].job /\ n.found = ops[r].found /\ n.todo = ops[r].todo
          /\ n.errors = ops[r].errors /\ n.phase = "sites" /\ n.site = None
      BY <2>1 DEF Handlers
    <3>. HIDE DEF n
    <3>6. ops[r].found.sites \in [Sites -> Row \cup {None}] /\ ops[r].todo \subseteq Sites
      BY <2>1 DEF Portals, Handlers
    <3>7. Sorted(n, deps, rows)
      BY <2>1, <2>2, <3>2, <3>3, <3>4, <3>5, <3>6, RetagSyncs
    <3>8. Agrees(rows[s], Of(s, deps))
      BY <1>1, <2>1, <3>5, <3>7, SortedAgrees
    <3>. QED BY <3>3, <3>4, <3>8
  <2>3. CASE op \in {"create", "rename"}
    <3>1. Commit(r) \/ (SitesDone(r) /\ ~ops[r].errors)
      BY <1>1, <2>1, <2>3, EndsAsAsked DEF Finishes
    <3>2. ops[r].phase \in {"mcp", "sites"} /\ UNCHANGED <<deps, sites>>
      BY <3>1 DEF Commit, SitesDone, At, litellm
    <3>3. RetagInv(ops[r], deps, sites)
      BY <2>1, <2>3, <3>2 DEF HandlerInv, Does, Retags, Early
    <3>4. ~ops[r].errors
      <4>1. CASE Commit(r)
        <5>1. ops[r].phase = "mcp" /\ op = "rename"
          BY <2>1, <2>3, <4>1 DEF Commit, At, Fits, Locked
        <5>2. RenameInv(ops[r], keys)
          BY <2>1, <5>1 DEF HandlerInv, Does, Early
        <5>. QED BY <5>1, <5>2 DEF RenameInv
      <4>. QED BY <3>1, <4>1
    <3>5. Sorted(ops[r], deps, sites)
      BY <3>3, <3>4 DEF RetagInv
    <3>6. Agrees(sites[s], Of(s, deps))
      BY <1>1, <2>1, <3>2, <3>5, SortedAgrees
    <3>. QED BY <3>2, <3>6
  <2>4. CASE op \in Edits
    <3>1. SyncModels(r, TRUE) \/ ListForRefresh(r)
      BY <1>1, <2>1, <2>4, EndsAsAsked DEF Finishes
    <3>2. EditInv(ops[r], deps, sites) /\ UNCHANGED deps /\ ops[r].job.site \in Sites
      <4>1. Editing(r)
        BY <2>1, <2>4 DEF Editing, Does
      <4>. QED BY <3>1, <4>1, EditFields DEF SyncModels, ListForRefresh, litellm
    <3>3. CASE ListForRefresh(r)
      <4>1. ops[r].phase = "list" /\ UNCHANGED sites
        BY <3>3 DEF ListForRefresh, At
      <4>. QED BY <1>1, <3>2, <4>1 DEF EditInv
    <3>4. CASE SyncModels(r, TRUE)
      <4>. DEFINE t == ops[r].job.site
      <4>1. /\ ops[r].phase = "models" /\ Edited(ops[r], deps) /\ sites = ops[r].found.sites
            /\ sites[t] \in Row
        BY <2>1, <3>2, <3>4 DEF SyncModels, At, EditInv, Live
      <4>2. sites' = [sites EXCEPT ![t] = [sites[t] EXCEPT !.models = ModelsAfter(ops[r])]]
        BY <3>2, <3>4, <4>1, NoneAssumption DEF SyncModels, Updates
      <4>3. CASE s = t
        <5>1. sites'[t].models = ModelsAfter(ops[r]) /\ sites'[t].groups = sites[t].groups
          BY <2>1, <3>2, <4>1, <4>2 DEF Row
        <5>2. PICK row : row = sites'[t]
          OBVIOUS
        <5>3. Agrees(row, Of(t, deps))
          BY <1>1, <2>1, <3>2, <4>1, <4>3, <5>1, <5>2, EditedAgrees
        <5>. QED BY <3>2, <4>3, <5>2, <5>3
      <4>4. CASE s # t
        <5>1. sites'[s] = ops[r].found.sites[s]
          BY <2>1, <4>1, <4>2, <4>4
        <5>2. Of(s, deps) = Of(s, ops[r].found.deps)
          BY <4>1, <4>4 DEF Edited
        <5>. QED BY <1>1, <3>2, <5>1, <5>2
      <4>. QED BY <4>3, <4>4
    <3>. QED BY <3>1, <3>3, <3>4
  <2>5. CASE op = "direct"
    <3>1. Register(r, TRUE)
      BY <1>1, <2>1, <2>5, EndsAsAsked DEF Finishes
    <3>2. DirectInv(ops[r], deps, sites) /\ UNCHANGED deps
      BY <2>1, <2>5, <3>1 DEF HandlerInv, Does, Register, litellm
    <3>3. s # ops[r].job.site
      BY <1>1, <3>2 DEF DirectInv
    <3>4. sites'[s] = sites[s]
      BY <2>1, <3>1, <3>3 DEF Register
    <3>5. sites[s] = ops[r].found.sites[s] /\ Of(s, deps) = Of(s, ops[r].found.deps)
      BY <3>2, <3>3 DEF DirectInv, Of
    <3>. QED BY <1>1, <3>2, <3>4, <3>5
  <2>. QED BY <2>2, <2>3, <2>4, <2>5 DEF Synced, Edits
<1>2. TypeInv /\ SInv /\ [Next]_vars =>
        [\A r \in Requests : \A op \in Synced :
          LET found == ops[r].found
          IN Finishes(r, op, "ok")
                => \A s \in Sites :
                      Live(found.sites[s]) /\ Agrees(found.sites[s], Of(s, found.deps))
                          => Agrees(sites'[s], Of(s, deps'))]_vars
  BY <1>1
<1>3. Spec => [][\A r \in Requests : \A op \in Synced :
          LET found == ops[r].found
          IN Finishes(r, op, "ok")
                => \A s \in Sites :
                      Live(found.sites[s]) /\ Agrees(found.sites[s], Of(s, found.deps))
                          => Agrees(sites'[s], Of(s, deps'))]_vars
  BY <1>2, SpecSerial, PTL DEF Spec
<1>. QED BY <1>3 DEF OkKeepsAgreement

\* A Direct registration never deletes a deployment that was there before
\* it, an adopted one.  When it fails and its deletions succeed it leaves
\* nothing behind but, if there is one, the deployment whose own creation was
\* not answered; provided that ids missing from answers can be made up for
\* (Tells) (api_sites_direct).
THEOREM DirectIsTakenBack == ASSUME Serial PROVE Spec => DirectTakesBack
<1>1. ASSUME TypeInv, SInv, [Next]_vars, NEW r \in Requests, Does(r, {"direct"}),
             At(r, "idle")'
      PROVE  /\ ops[r].found.deps \subseteq deps'
             /\ ops'[r].answer # "ok" /\ ~ops[r].errors /\ Tells(ops[r].job) =>
                   /\ ops[r].old = None => deps' = ops[r].found.deps
                   /\ ops[r].old # None =>
                         \A d, e \in deps' \ ops[r].found.deps :
                             d = e /\ d = [ops[r].old EXCEPT !.id = d.id]
  <2>1. ~At(r, "idle") /\ HandlerInv(r)
    BY <1>1 DEF Does, TypeInv, TypeOK, SInv
  <2>2. Proceed(r) /\ ~Start(r)
    <3>1. ~UNCHANGED vars
      BY <1>1, <2>1 DEF vars, At
    <3>. QED BY <1>1, <2>1, <3>1, StepsOfOne DEF SInv, Serial
  <2>3. Directing(r)
    BY <1>1, <2>1 DEF Directing, Serial
  <2>4. DirectInv(ops[r], deps, sites) /\ ops[r] \in Handlers
    BY <2>3, DirectFields
  <2>5. ASSUME NEW n, n.phase # "idle" PROVE ~Step(r, n)
    BY <1>1, <2>5, Advances DEF At
  <2>6. CleanedUp(r) \/ \E reached \in BOOLEAN : Register(r, reached)
    <3>1. ~ListForDirect(r) /\ ~FindMade(r)
      BY <2>4, <2>5 DEF ListForDirect, FindMade, Handlers
    <3>2. \A answer : ~CreateDirect(r, answer) /\ ~CleanUp(r, answer)
      BY <2>4, <2>5 DEF CreateDirect, CleanUp, Handlers, At
    <3>. QED BY <2>2, <2>3, <3>1, <3>2, DirectSteps DEF DirectStep
  <2>7. UNCHANGED deps
    BY <2>6 DEF CleanedUp, Register, litellm
  <2>8. CASE CleanedUp(r)
    <3>1. ops[r].phase = "cleanup" /\ ops[r].made = {}
      BY <2>8 DEF CleanedUp, At
    <3>. QED BY <2>4, <2>7, <3>1 DEF DirectInv, Unnamed
  <2>9. ASSUME NEW reached \in BOOLEAN, Register(r, reached) PROVE ops'[r].answer = "ok"
    <3>1. Answer(r, "ok")
      BY <2>4, <2>5, <2>9 DEF Register, Handlers
    <3>2. [Idle EXCEPT !.answer = "ok"].answer = "ok"
      BY DEF Idle
    <3>. QED BY <1>1, <3>1, <3>2 DEF Answer, TypeInv, TypeOK
  <2>. QED BY <2>4, <2>6, <2>7, <2>8, <2>9 DEF DirectInv
<1>2. TypeInv /\ SInv /\ [Next]_vars =>
        [\A r \in Requests :
          LET found == ops[r].found
              unnamed == ops[r].old
          IN Does(r, {"direct"}) /\ At(r, "idle")' =>
                /\ found.deps \subseteq deps'
                /\ ops'[r].answer # "ok" /\ ~ops[r].errors /\ Tells(ops[r].job) =>
                      /\ unnamed = None => deps' = found.deps
                      /\ unnamed # None =>
                            \A d, e \in deps' \ found.deps :
                                d = e /\ d = [unnamed EXCEPT !.id = d.id]]_vars
  BY <1>1
<1>3. Spec => [][\A r \in Requests :
          LET found == ops[r].found
              unnamed == ops[r].old
          IN Does(r, {"direct"}) /\ At(r, "idle")' =>
                /\ found.deps \subseteq deps'
                /\ ops'[r].answer # "ok" /\ ~ops[r].errors /\ Tells(ops[r].job) =>
                      /\ unnamed = None => deps' = found.deps
                      /\ unnamed # None =>
                            \A d, e \in deps' \ found.deps :
                                d = e /\ d = [unnamed EXCEPT !.id = d.id]]_vars
  BY <1>2, SpecSerial, PTL DEF Spec
<1>. QED BY <1>3 DEF DirectTakesBack
===============================================================================
