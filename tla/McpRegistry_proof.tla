-------------------------- MODULE McpRegistry_proof ---------------------------
(***************************************************************************)
(* What TLAPS proves of the MCP registry, for any number of requests,      *)
(* servers, groups and tools.                                              *)
(***************************************************************************)
EXTENDS McpRegistryCommit, TLAPS

\* Every job leaves a registry (register, groups, remove and rename build
\* their entries from those they read).
LEMMA EditedType ==
    ASSUME NEW job \in Jobs, NEW registry \in Registries
    PROVE  Edited(job, registry) \in Registries
<1>1. PICK S \in SUBSET Names : registry \in [S -> SUBSET Groups]
  BY DEF Registries
<1>2. CASE job.op = "remove"
  <2>1. Restrict(registry, S \ {job.name}) \in [S \ {job.name} -> SUBSET Groups]
    BY <1>1 DEF Restrict
  <2> QED  BY <1>1, <1>2, <2>1 DEF Edited, Registries
<1>3. CASE job.op = "rename"
  <2>1. job.from \in Groups /\ job.to \in Groups
    BY <1>3 DEF Jobs
  <2>2. Renamed(job.from, job.to, registry) \in [S -> SUBSET Groups]
    BY <1>1, <2>1 DEF Renamed
  <2> QED  BY <1>3, <2>2 DEF Edited, Registries
<1>4. CASE job.op \in {"register", "groups"}
  <2>1. job.name \in Names /\ job.groups \in SUBSET Groups
    BY <1>4 DEF Jobs
  <2>2. With(job.name, job.groups, registry)
          \in [S \cup {job.name} -> SUBSET Groups]
    BY <1>1, <2>1 DEF With
  <2> QED  BY <1>4, <2>1, <2>2 DEF Edited, Registries
<1> QED  BY <1>2, <1>3, <1>4 DEF Jobs

\* The rollback script leaves a registry.
LEMMA LegacySafeType ==
    ASSUME NEW registry \in Registries
    PROVE  LegacySafe(registry) \in Registries
<1>1. PICK S \in SUBSET Names : registry \in [S -> SUBSET Groups]
  BY DEF Registries
<1> DEFINE T == {n \in S : registry[n] = {}}
<1>2. Restrict(registry, T) \in [T -> SUBSET Groups]
  BY <1>1 DEF Restrict
<1> QED  BY <1>1, <1>2 DEF LegacySafe, Registries

\* A registry without entries is one; so reading any file gives a registry.
LEMMA ReadConfType ==
    ASSUME NEW f
    PROVE  NoEntries \in Registries /\ ReadConf(f) \in Registries
<1>1. NoEntries \in [{} -> SUBSET Groups]  BY DEF NoEntries
<1> QED  BY <1>1 DEF ReadConf, Registries

\* Claiming tools for a server keeps a table of owners.
LEMMA OwnersType ==
    ASSUME NEW owners \in Owners, NEW n \in Names, NEW tools
    PROVE  Claim(n, tools, owners) \in Owners /\ OnlyBuiltins \in Owners
BY DEF Claim, Owners, OnlyBuiltins

-------------------------------------------------------------------------------
(* Type correctness, with the discipline of the lock.                      *)

OpsOK == /\ ops \in [Requests -> OpType]
         /\ lock \in Requests \cup {None}
         /\ \A r \in Requests : /\ ops[r].phase \in Critical <=> lock = r
                                /\ ops[r].job = None <=> At(r, "idle")
                                /\ ops[r].answer = None <=> ~At(r, "done")
                                /\ At(r, "preflight") => ops[r].expected # None

\* A handler without locals is well-formed.
LEMMA IdleType ==
    /\ Idle \in OpType
    /\ \A j \in Asked \cup {None}, a \in Answers \cup {None} :
          [Idle EXCEPT !.phase = "done", !.job = j, !.answer = a] \in OpType
BY ReadConfType DEF Idle, OpType, Phases, Files

\* A handler that goes on inside the critical section stays the holder.
LEMMA MoveType ==
    ASSUME OpsOK, NEW r \in Requests, ops[r].phase \in Critical,
           NEW new \in OpType, new.phase \in Critical,
           new.job = ops[r].job, new.answer = ops[r].answer,
           new.phase = "preflight" => new.expected # None,
           ops' = [ops EXCEPT ![r] = new], UNCHANGED lock
    PROVE  OpsOK'
<1>1. ops' \in [Requests -> OpType]  BY DEF OpsOK
<1>2. ASSUME NEW q \in Requests
      PROVE  ops'[q] = IF q = r THEN new ELSE ops[q]
  BY DEF OpsOK
<1>3. ASSUME NEW q \in Requests
      PROVE  /\ ops'[q].phase \in Critical <=> lock' = q
             /\ ops'[q].job = None <=> ops'[q].phase = "idle"
             /\ ops'[q].answer = None <=> ops'[q].phase # "done"
             /\ ops'[q].phase = "preflight" => ops'[q].expected # None
  <2>1. ops'[q] = IF q = r THEN new ELSE ops[q]  BY <1>2
  <2> QED  BY <2>1 DEF OpsOK, Critical, At
<1> QED  BY <1>1, <1>3 DEF OpsOK, At

\* A handler that answers leaves the lock to the others.
LEMMA AnswerType ==
    ASSUME OpsOK, NEW r \in Requests, ops[r].phase \in Critical,
           NEW a \in Answers, Answer(r, a)
    PROVE  OpsOK'
<1> DEFINE new == [Idle EXCEPT !.phase = "done", !.job = ops[r].job,
                               !.answer = a]
<1>1. ops[r] \in OpType /\ ops[r].job # None
  BY DEF OpsOK, Critical, At
<1>2. new \in OpType
  BY <1>1, IdleType DEF OpType
<1>3. new.phase = "done" /\ new.job = ops[r].job /\ new.answer = a
  BY DEF Idle
<1>4. a # None
  BY NoneAssumption
<1>5. ops' \in [Requests -> OpType]
  BY <1>2 DEF OpsOK, Answer
<1>6. lock = r /\ lock' = None
  BY DEF OpsOK, Answer
<1>7. ASSUME NEW q \in Requests
      PROVE  /\ ops'[q].phase \in Critical <=> lock' = q
             /\ ops'[q].job = None <=> ops'[q].phase = "idle"
             /\ ops'[q].answer = None <=> ops'[q].phase # "done"
             /\ ops'[q].phase = "preflight" => ops'[q].expected # None
  <2>1. ops'[q] = IF q = r THEN new ELSE ops[q]  BY DEF OpsOK, Answer
  <2>2. q # None  BY NoneAssumption
  <2>3. CASE q = r
    BY <1>1, <1>3, <1>4, <1>6, <2>1, <2>2, <2>3 DEF Critical
  <2>4. CASE q # r
    BY <1>6, <2>1, <2>2, <2>4 DEF OpsOK, At
  <2> QED  BY <2>3, <2>4
<1> QED  BY <1>5, <1>6, <1>7 DEF OpsOK, At

StateOK == /\ file \in Files
           /\ offers \in [Names -> SUBSET Tools]
           /\ hub \in HubType
           /\ attested \in BOOLEAN

\* What a torn or rolled back write leaves is a file, a restarted hub a hub.
LEMMA ValueTypes ==
    /\ \A f \in Files : Torn(f) \subseteq Files
    /\ Starting \in HubType /\ Down \in HubType
    /\ hub \in HubType /\ (RestartSucceeds \/ RestartFails) =>
          hub' \in HubType
<1>1. \A f \in Files : Torn(f) \subseteq Files
  BY ReadConfType DEF Torn, Files
<1>2. OnlyBuiltins \in Owners
  BY DEF OnlyBuiltins, Owners
<1>3. Starting \in HubType /\ Down \in HubType
  BY <1>2 DEF Starting, Down, HubType, Files
<1> QED  BY <1>1, <1>3 DEF RestartSucceeds, RestartFails

\* Everything a handler does inside the lock keeps the types.
LEMMA ProceedType ==
    ASSUME TypeOK, NEW r \in Requests, Proceed(r)
    PROVE  TypeOK'
<1> USE DEF At
<1>1. OpsOK /\ StateOK /\ ops[r] \in OpType
  BY DEF TypeOK, OpsOK, StateOK
<1>2. ops[r].phase \in Critical
  BY DEF Proceed, Refuse, SkipCommit, Read, Preflight, PreflightFails,
         Snapshot, Write, WriteFails, Restart, Succeed, Deadline, Rollback,
         RollbackFails, RestartAgain, Recover, DeadlineAgain, Critical, Phases
<1>3. ops[r].job \in Jobs /\ ops[r].answer = None
  BY <1>1, <1>2, JobsAssumption DEF OpsOK, OpType, Critical
<1> DEFINE Moved(new) == /\ new \in OpType
                         /\ new.phase \in Critical
                         /\ new.job = ops[r].job /\ new.answer = ops[r].answer
                         /\ new.phase = "preflight" => new.expected # None
                         /\ ops' = [ops EXCEPT ![r] = new]
                         /\ UNCHANGED lock
           Answered == \E a \in Answers : Answer(r, a)
<1>4. Answered => OpsOK'
  BY <1>1, <1>2, AnswerType
<1>5. ASSUME NEW new, Moved(new)  PROVE OpsOK'
  BY <1>1, <1>2, <1>5, MoveType
<1> HIDE DEF Answered
<1>6. CASE Refuse(r) \/ SkipCommit(r) \/ DeadlineAgain(r)
           \/ \E n \in Names : PreflightFails(r, n)
  <2>1. Answered
    BY <1>6 DEF Answered, Refuse, SkipCommit, DeadlineAgain, PreflightFails,
                Answers
  <2>2. UNCHANGED <<file, offers, hub, attested>>
    BY <1>6 DEF Refuse, SkipCommit, DeadlineAgain, PreflightFails
  <2> QED  BY <1>1, <1>4, <2>1, <2>2 DEF StateOK, OpsOK, TypeOK
<1>7. CASE Succeed(r) \/ Recover(r)
  <2>1. Answered
    BY <1>7 DEF Answered, Succeed, Recover, Answers
  <2>2. UNCHANGED <<file, offers, hub>> /\ attested' = TRUE
    BY <1>7 DEF Succeed, Recover
  <2> QED  BY <1>1, <1>4, <2>1, <2>2 DEF StateOK, OpsOK, TypeOK
<1>8. CASE WriteFails(r) \/ RollbackFails(r)
  <2>1. Answered
    BY <1>8 DEF Answered, WriteFails, RollbackFails, Answers
  <2>2. UNCHANGED <<offers, hub>> /\ attested' \in {attested, FALSE}
        /\ file' \in Torn(file)
    BY <1>8 DEF WriteFails, RollbackFails
  <2>3. file' \in Files
    BY <1>1, <2>2, ValueTypes DEF StateOK
  <2> QED  BY <1>1, <1>4, <2>1, <2>2, <2>3 DEF StateOK, OpsOK, TypeOK
<1>9. CASE Read(r)
  <2> DEFINE entries == Edited(ops[r].job, ReadConf(file))
             new == IF ops[r].job.op = "register"
                    THEN [ops[r] EXCEPT !.phase = "preflight",
                            !.entries = entries, !.todo = DOMAIN entries,
                            !.expected = OnlyBuiltins]
                    ELSE [ops[r] EXCEPT !.phase = "snapshot",
                            !.entries = entries]
  <2>1. entries \in Registries
    BY <1>3, ReadConfType, EditedType
  <2>2. DOMAIN entries \subseteq Names
    BY <2>1 DEF Registries
  <2>3. OnlyBuiltins \in Owners
    BY DEF OnlyBuiltins, Owners
  <2>4. ops' = [ops EXCEPT ![r] = new]
    BY <1>9 DEF Read
  <2> HIDE DEF entries
  <2>5. new \in OpType
    BY <1>1, <2>1, <2>2, <2>3 DEF OpType, Phases
  <2>6. new.phase \in Critical /\ new.job = ops[r].job
        /\ new.answer = ops[r].answer
        /\ (new.phase = "preflight" => new.expected # None)
    BY <1>1, <2>3, NoneAssumption DEF OpType, Critical, Phases, Owners
  <2>7. UNCHANGED <<file, offers, hub, lock, attested>>
    BY <1>9 DEF Read
  <2>8. Moved(new)
    BY <2>4, <2>5, <2>6, <2>7
  <2>9. OpsOK'
    BY <1>5, <2>8
  <2> QED  BY <1>1, <2>7, <2>9 DEF StateOK, OpsOK, TypeOK
<1>10. ASSUME NEW n \in Names, Preflight(r, n)  PROVE TypeOK'
  <2> DEFINE tools == Claim(n, offers[n], ops[r].expected)
             new == [ops[r] EXCEPT !.todo = @ \ {n}, !.expected = tools]
  <2>1. tools \in Owners /\ tools # None
    <3>1. ops[r].expected \in Owners
      BY <1>1, <1>10 DEF OpsOK, OpType, Preflight
    <3> QED  BY <3>1, OwnersType, NoneAssumption DEF Owners
  <2>2. ops' = [ops EXCEPT ![r] = new]
    BY <1>1, <1>10 DEF Preflight, OpsOK
  <2> HIDE DEF tools
  <2>3. new \in OpType
    BY <1>1, <2>1 DEF OpType
  <2>4. new.phase \in Critical /\ new.job = ops[r].job
        /\ new.answer = ops[r].answer
        /\ (new.phase = "preflight" => new.expected # None)
    BY <1>1, <1>2, <2>1 DEF OpType
  <2>5. UNCHANGED <<file, offers, hub, lock, attested>>
    BY <1>10 DEF Preflight
  <2>6. OpsOK'
    BY <1>5, <2>2, <2>3, <2>4, <2>5
  <2> QED  BY <1>1, <2>5, <2>6 DEF StateOK, OpsOK, TypeOK
<1>11. CASE Snapshot(r) \/ Deadline(r)
  <2> DEFINE new == IF Deadline(r) THEN [ops[r] EXCEPT !.phase = "rollback"]
                    ELSE [ops[r] EXCEPT !.phase = "write", !.previous = file]
  <2>1. ops' = [ops EXCEPT ![r] = new]
    BY <1>1, <1>11 DEF Snapshot, Deadline, OpsOK
  <2>2. new \in OpType
    BY <1>1 DEF OpType, Phases, StateOK
  <2>3. new.phase \in Critical /\ new.job = ops[r].job
        /\ new.answer = ops[r].answer
        /\ new.phase # "preflight"
    BY <1>1 DEF OpType, Critical, Phases
  <2>4. UNCHANGED <<file, offers, hub, lock, attested>>
    BY <1>11 DEF Snapshot, Deadline
  <2>5. OpsOK'
    BY <1>5, <2>1, <2>2, <2>3, <2>4
  <2> QED  BY <1>1, <2>4, <2>5 DEF StateOK, OpsOK, TypeOK
<1>12. CASE Write(r) \/ Rollback(r)
  <2>1. UNCHANGED <<offers, hub>> /\ attested' \in {attested, FALSE}
        /\ file' \in {file, ops[r].entries, ops[r].previous}
    BY <1>12 DEF Write, Rollback
  <2>2. file' \in Files
    BY <1>1, <2>1 DEF OpType, StateOK, Files
  <2>3. CASE Answered
    BY <1>1, <1>4, <2>1, <2>2, <2>3 DEF StateOK, OpsOK, TypeOK
  <2>4. ASSUME NEW p \in {"restart", "restart again"},
               ops' = [ops EXCEPT ![r].phase = p], UNCHANGED lock
        PROVE  TypeOK'
    <3> DEFINE new == [ops[r] EXCEPT !.phase = p]
    <3>1. new \in OpType
      BY <1>1 DEF OpType, Phases
    <3>2. new.phase \in Critical /\ new.job = ops[r].job
          /\ new.answer = ops[r].answer
          /\ new.phase # "preflight"
      BY <1>1 DEF OpType, Critical, Phases
    <3>3. ops' = [ops EXCEPT ![r] = new]
      BY <1>1, <2>4 DEF OpsOK
    <3>4. OpsOK'
      BY <1>5, <2>4, <3>1, <3>2, <3>3
    <3> QED  BY <1>1, <2>1, <2>2, <3>4 DEF StateOK, OpsOK, TypeOK
  <2> QED  BY <1>12, <2>3, <2>4 DEF Write, Rollback, Answered, Answers
<1>13. CASE Restart(r) \/ RestartAgain(r)
  <2>1. UNCHANGED <<file, offers, attested>>
        /\ (RestartSucceeds \/ RestartFails)
    BY <1>13 DEF Restart, RestartAgain
  <2>2. hub' \in HubType
    BY <1>1, <2>1, ValueTypes DEF StateOK
  <2>3. CASE Answered
    BY <1>1, <1>4, <2>1, <2>2, <2>3 DEF StateOK, OpsOK, TypeOK
  <2>4. ASSUME NEW p \in {"attest", "rollback", "attest again"},
               ops' = [ops EXCEPT ![r].phase = p], UNCHANGED lock
        PROVE  TypeOK'
    <3> DEFINE new == [ops[r] EXCEPT !.phase = p]
    <3>1. new \in OpType
      BY <1>1 DEF OpType, Phases
    <3>2. new.phase \in Critical /\ new.job = ops[r].job
          /\ new.answer = ops[r].answer
          /\ new.phase # "preflight"
      BY <1>1 DEF OpType, Critical, Phases
    <3>3. ops' = [ops EXCEPT ![r] = new]
      BY <1>1, <2>4 DEF OpsOK
    <3>4. OpsOK'
      BY <1>5, <2>4, <3>1, <3>2, <3>3
    <3> QED  BY <1>1, <2>1, <2>2, <3>4 DEF StateOK, OpsOK, TypeOK
  <2> QED  BY <1>13, <2>3, <2>4 DEF Restart, RestartAgain, Answered, Answers
<1> QED  BY <1>6, <1>7, <1>8, <1>9, <1>10, <1>11, <1>12, <1>13 DEF Proceed

\* A request is sent, or gets the lock.
LEMMA EntryType ==
    ASSUME TypeOK, NEW r \in Requests, Ask(r) \/ Acquire(r)
    PROVE  TypeOK'
<1>1. OpsOK /\ StateOK /\ ops[r] \in OpType
  BY DEF TypeOK, OpsOK, StateOK
<1>2. UNCHANGED <<file, offers, hub, attested>>
  BY DEF Ask, Acquire
<1>3. CASE Ask(r)
  <2>1. PICK job \in Asked :
            ops' = [ops EXCEPT ![r].phase = "waiting", ![r].job = job]
    BY <1>3 DEF Ask
  <2> DEFINE new == [ops[r] EXCEPT !.phase = "waiting", !.job = job]
  <2>2. ops' = [ops EXCEPT ![r] = new]
    BY <1>1, <2>1 DEF OpsOK
  <2>3. new \in OpType /\ new.phase = "waiting" /\ new.job = job
        /\ new.answer = ops[r].answer
    BY <1>1 DEF OpType, Phases
  <2>4. job # None /\ lock' = lock /\ ops[r].phase = "idle"
    BY <1>3, NoneAssumption DEF Ask, At
  <2> HIDE DEF new
  <2>5. OpsOK'
    BY <1>1, <2>2, <2>3, <2>4 DEF OpsOK, At, Critical
  <2> QED  BY <1>1, <1>2, <2>5 DEF StateOK, OpsOK, TypeOK
<1>4. CASE Acquire(r)
  <2> DEFINE new == [ops[r] EXCEPT !.phase = "reading"]
  <2>1. ops' = [ops EXCEPT ![r] = new]
    BY <1>1, <1>4 DEF OpsOK, Acquire
  <2>2. new \in OpType /\ new.phase = "reading" /\ new.job = ops[r].job
        /\ new.answer = ops[r].answer
    BY <1>1 DEF OpType, Phases
  <2>3. lock = None /\ lock' = r /\ ops[r].phase = "waiting"
    BY <1>4 DEF Acquire, At
  <2>4. None \notin Requests
    BY NoneAssumption
  <2> HIDE DEF new
  <2>5. OpsOK'
    BY <1>1, <2>1, <2>2, <2>3, <2>4 DEF OpsOK, At, Critical, Phases
  <2> QED  BY <1>1, <1>2, <2>5 DEF StateOK, OpsOK, TypeOK
<1> QED  BY <1>3, <1>4

\* The hub and its upstreams change the hub and the offers only.
LEMMA HubType_Step ==
    ASSUME TypeOK, HubStep \/ HubStops \/ \E n \in Names : UpstreamChanges(n)
    PROVE  TypeOK'
<1>1. UNCHANGED <<file, ops, lock, attested>>
  BY DEF HubStep, HubBoots, register_external_tools, HubHashes, HubConnects,
         HubStops, UpstreamChanges
<1>2. hub \in HubType /\ file \in Files /\ offers \in [Names -> SUBSET Tools]
  BY DEF TypeOK
<1>3. hub' \in HubType
  <2>1. CASE HubBoots \/ HubStops
    BY <2>1, ValueTypes DEF HubBoots, HubStops
  <2>2. CASE register_external_tools
    <3>1. (IF file \in Registries THEN DOMAIN file ELSE {}) \in SUBSET Names
      BY DEF Registries
    <3> QED  BY <1>2, <2>2, <3>1 DEF register_external_tools, HubType
  <2>3. ASSUME NEW n \in Names, HubConnects(n)  PROVE hub' \in HubType
    <3>1. Claim(n, offers[n], hub.owners) \in Owners
      BY <1>2, OwnersType DEF HubType
    <3> QED  BY <1>2, <2>3, <3>1 DEF HubConnects, HubType, Usable
  <2>4. CASE HubHashes
    BY <1>2, <2>4 DEF HubHashes, HubType
  <2>5. CASE \E n \in Names : UpstreamChanges(n)
    BY <1>2, <2>5 DEF UpstreamChanges
  <2> QED  BY <2>1, <2>2, <2>3, <2>4, <2>5 DEF HubStep
<1>4. offers' \in [Names -> SUBSET Tools]
  <2>1. ASSUME NEW n \in Names, UpstreamChanges(n)
        PROVE  offers' \in [Names -> SUBSET Tools]
    <3>1. PICK tools \in MayOffer[n] : offers' = [offers EXCEPT ![n] = tools]
      BY <2>1 DEF UpstreamChanges
    <3>2. tools \in SUBSET Tools
      BY <3>1, OffersAssumption
    <3> QED  BY <1>2, <3>1, <3>2
  <2> QED  BY <1>2, <2>1
     DEF HubStep, HubBoots, register_external_tools, HubHashes, HubConnects,
         HubStops, UpstreamChanges
<1> QED  BY <1>1, <1>2, <1>3, <1>4 DEF TypeOK, At

\* A crash of the console ends every handler; the script edits the file.
LEMMA CrashType ==
    ASSUME TypeOK, Crash \/ prepare
    PROVE  TypeOK'
<1>1. CASE prepare
  <2>1. file' \in Files
    BY <1>1, LegacySafeType DEF prepare, Files
  <2>2. UNCHANGED <<offers, hub, ops, lock>> /\ attested' = FALSE
    BY <1>1 DEF prepare
  <2> QED  BY <2>1, <2>2 DEF TypeOK, At
<1>2. CASE Crash
  <2>1. UNCHANGED <<file, offers, hub, attested>> /\ lock' = None
    BY <1>2 DEF Crash
  <2>2. ASSUME NEW r \in Requests
        PROVE  /\ ops'[r] \in OpType
               /\ ops'[r].phase \notin Critical
               /\ ops'[r].job = None <=> ops'[r].phase = "idle"
               /\ ops'[r].answer = None <=> ops'[r].phase # "done"
               /\ ops'[r].phase # "preflight"
    <3>1. ops'[r] = Lost(ops[r]) /\ ops[r] \in OpType
      BY <1>2 DEF Crash, TypeOK
    <3>2. CASE ops[r].phase \in {"idle", "done"}
      BY <3>1, <3>2 DEF Lost, TypeOK, At, Critical
    <3>3. CASE ops[r].phase \notin {"idle", "done"}
      <4>1. ops[r].job # None /\ ops[r].job \in Asked \cup {None}
        BY <3>1, <3>3 DEF TypeOK, At, OpType
      <4>2. "lost" \in Answers /\ "lost" # None
        BY NoneAssumption DEF Answers
      <4>3. ops'[r] = [Idle EXCEPT !.phase = "done", !.job = ops[r].job,
                                   !.answer = "lost"]
        BY <3>1, <3>3 DEF Lost
      <4>4. ops'[r] \in OpType
        <5>1. \A j \in Asked \cup {None}, a \in Answers \cup {None} :
                [Idle EXCEPT !.phase = "done", !.job = j, !.answer = a] \in OpType
          BY IdleType
        <5> DEFINE end(j, a) == [Idle EXCEPT !.phase = "done", !.job = j,
                                             !.answer = a]
        <5>2. \A j \in Asked \cup {None}, a \in Answers \cup {None} :
                end(j, a) \in OpType
          BY <5>1
        <5>3. ops'[r] = end(ops[r].job, "lost")
          BY <4>3
        <5>4. "lost" \in Answers \cup {None}
          BY <4>2
        <5> HIDE DEF end
        <5> QED  BY <4>1, <5>2, <5>3, <5>4
      <4>5. ops'[r].phase = "done" /\ ops'[r].job = ops[r].job
            /\ ops'[r].answer = "lost"
        BY <4>3 DEF Idle
      <4> QED  BY <4>1, <4>2, <4>4, <4>5 DEF Critical
    <3> QED  BY <3>2, <3>3
  <2>3. ops' \in [Requests -> OpType]
    BY <1>2, <2>2 DEF Crash
  <2>4. None \notin Requests
    BY NoneAssumption
  <2> QED  BY <2>1, <2>2, <2>3, <2>4 DEF TypeOK, At
<1> QED  BY <1>1, <1>2

\* The initial state has the types.
LEMMA InitType == Init => TypeOK
<1> SUFFICES ASSUME Init PROVE TypeOK
  OBVIOUS
<1>1. file \in Files /\ offers \in [Names -> SUBSET Tools] /\ hub \in HubType
  BY ValueTypes DEF Init, Files
<1>2. \A r \in Requests : ops[r] = Idle
  BY DEF Init
<1>3. Idle.phase = "idle" /\ Idle.job = None /\ Idle.answer = None
  BY DEF Idle
<1>4. ops \in [Requests -> OpType] /\ lock = None /\ None \notin Requests
  BY IdleType, NoneAssumption DEF Init
<1> QED  BY <1>1, <1>2, <1>3, <1>4 DEF TypeOK, Init, At, Critical

\* Types and lock discipline hold under every interleaving and every fault:
\* only the holder of _mcp_config_lock is between its read and its answer.
THEOREM TypeCorrect == Spec => []TypeOK
<1>1. Init => TypeOK
  BY InitType
<1>2. TypeOK /\ [Next]_vars => TypeOK'
  <2> SUFFICES ASSUME TypeOK, [Next]_vars PROVE TypeOK'
    OBVIOUS
  <2>1. CASE UNCHANGED vars
    BY <2>1 DEF TypeOK, vars, At
  <2>2. CASE \E r \in Requests : Ask(r) \/ Acquire(r) \/ Proceed(r)
    BY <2>2, EntryType, ProceedType
  <2>3. CASE HubStep \/ EnvironmentStep
    BY <2>3, HubType_Step, CrashType DEF EnvironmentStep
  <2> QED  BY <2>1, <2>2, <2>3 DEF Next
<1> QED  BY <1>1, <1>2, PTL DEF Spec

-------------------------------------------------------------------------------
(* After a successful restart the hub can only have read the file as it is.*)

Loaded    == {"loading", "serving"}
Written   == {"restart", "attest", "rollback"}
Recovered == {"restart again", "attest again"}

\* What an attested file means for the hub, whenever it has read one.
HubFresh == attested /\ hub.phase \in Loaded =>
              hub.read = file /\ (hub.phase = "serving" => hub.sha = file)

\* What a handler between its write and its answer knows.
OpFresh(r) ==
    /\ ops[r].phase \in Written => file = ops[r].entries /\ ~attested
    /\ ops[r].phase \in Recovered => file = ops[r].previous /\ ~attested
    /\ ops[r].phase \in {"attest", "attest again"} /\ hub.phase \in Loaded =>
          hub.read = file

Fresh == HubFresh /\ \A r \in Requests : OpFresh(r)

\* A step of one handler leaves the others alone, and they are not between
\* their write and their answer.
LEMMA OthersWait ==
    ASSUME TypeOK, NEW r \in Requests, Proceed(r)
    PROVE  \A q \in Requests \ {r} :
              ops'[q] = ops[q] /\ ops[q].phase \notin Critical
<1>1. ops[r].phase \in Critical
  BY DEF Proceed, Refuse, SkipCommit, Read, Preflight, PreflightFails,
         Snapshot, Write, WriteFails, Restart, Succeed, Deadline, Rollback,
         RollbackFails, RestartAgain, Recover, DeadlineAgain, Critical, Phases,
         At
<1>2. \E new : ops' = [ops EXCEPT ![r] = new]
  <2>1. CASE Refuse(r) \/ SkipCommit(r) \/ WriteFails(r) \/ Succeed(r)
             \/ RollbackFails(r) \/ Recover(r) \/ DeadlineAgain(r)
             \/ \E n \in Names : PreflightFails(r, n)
    BY <2>1 DEF Refuse, SkipCommit, WriteFails, Succeed, RollbackFails,
                Recover, DeadlineAgain, PreflightFails, Answer
  <2>2. CASE Read(r)
    BY <2>2 DEF Read
  <2>3. ASSUME NEW n \in Names, Preflight(r, n)
        PROVE  \E new : ops' = [ops EXCEPT ![r] = new]
    BY <2>3, Zenon DEF Preflight
  <2>4. CASE Snapshot(r) \/ Deadline(r)
    BY <2>4, Zenon DEF Snapshot, Deadline
  <2>5. CASE Write(r) \/ Rollback(r)
    BY <2>5, Zenon DEF Write, Rollback, Answer
  <2>6. CASE Restart(r) \/ RestartAgain(r)
    BY <2>6, Zenon DEF Restart, RestartAgain, Answer
  <2> QED  BY <2>1, <2>2, <2>3, <2>4, <2>5, <2>6 DEF Proceed
<1> QED  BY <1>1, <1>2 DEF TypeOK

\* Every handler step keeps the hub and the file in step.
LEMMA ProceedFresh ==
    ASSUME TypeOK, Fresh, NEW r \in Requests, Proceed(r)
    PROVE  Fresh'
<1> USE DEF At
<1>1. ops \in [Requests -> OpType] /\ HubFresh /\ OpFresh(r)
      /\ attested \in BOOLEAN
  BY DEF TypeOK, Fresh
<1> SUFFICES HubFresh' /\ OpFresh(r)'
  <2>1. \A q \in Requests \ {r} :
            ops'[q] = ops[q] /\ ops[q].phase \notin Critical
    BY OthersWait
  <2> QED  BY <2>1 DEF Fresh, OpFresh, Critical, Written, Recovered, Phases
<1>2. ASSUME NEW a, Answer(r, a)
      PROVE  ops'[r].phase = "done"
  BY <1>1, <1>2 DEF Answer, Idle
<1>3. CASE Refuse(r) \/ SkipCommit(r) \/ DeadlineAgain(r)
           \/ \E n \in Names : PreflightFails(r, n)
  <2>1. UNCHANGED <<file, hub, attested>> /\ ops'[r].phase = "done"
    BY <1>2, <1>3 DEF Refuse, SkipCommit, DeadlineAgain, PreflightFails
  <2> QED  BY <1>1, <2>1 DEF HubFresh, OpFresh, Written, Recovered
<1>4. CASE Read(r) \/ Snapshot(r) \/ \E n \in Names : Preflight(r, n)
  <2>1. UNCHANGED <<file, hub, attested>>
    BY <1>4 DEF Read, Snapshot, Preflight
  <2>2. ops'[r].phase \in {"preflight", "snapshot", "write"}
    <3>1. CASE Read(r)
      BY <1>1, <3>1 DEF Read, OpType
    <3>2. CASE Snapshot(r)
      BY <1>1, <3>2 DEF Snapshot, OpType
    <3>3. CASE \E n \in Names : Preflight(r, n)
      BY <1>1, <3>3 DEF Preflight, OpType
    <3> QED  BY <1>4, <3>1, <3>2, <3>3
  <2> QED  BY <1>1, <2>1, <2>2 DEF HubFresh, OpFresh, Written, Recovered
<1>5. CASE WriteFails(r)
  <2>1. attested' = FALSE /\ ops'[r].phase = "done"
    BY <1>2, <1>5 DEF WriteFails
  <2> QED  BY <2>1 DEF HubFresh, OpFresh, Written, Recovered
<1>6. CASE RollbackFails(r)
  <2>1. attested' = FALSE /\ ops'[r].phase = "done"
    BY <1>1, <1>2, <1>6 DEF RollbackFails, OpFresh, Written
  <2> QED  BY <2>1 DEF HubFresh, OpFresh, Written, Recovered
<1>7. CASE Write(r)
  <2>1. CASE file = ops[r].previous
    <3>1. ops'[r].phase = "restart" /\ ops'[r].entries = ops[r].entries
          /\ file' = ops[r].entries /\ attested' = FALSE
      BY <1>1, <1>7, <2>1 DEF Write, OpType
    <3> QED  BY <3>1 DEF HubFresh, OpFresh, Written, Recovered
  <2>2. CASE file # ops[r].previous
    <3>1. UNCHANGED <<file, hub, attested>> /\ ops'[r].phase = "done"
      BY <1>2, <1>7, <2>2 DEF Write
    <3> QED  BY <1>1, <3>1 DEF HubFresh, OpFresh, Written, Recovered
  <2> QED  BY <2>1, <2>2
<1>8. CASE Restart(r)
  <2>1. UNCHANGED <<file, attested>> /\ ~attested /\ file = ops[r].entries
        /\ ops'[r].entries = ops[r].entries
    BY <1>1, <1>8 DEF Restart, OpFresh, Written, OpType
  <2>2. \/ ops'[r].phase = "attest" /\ hub' = Starting
        \/ ops'[r].phase = "rollback"
    BY <1>1, <1>8 DEF Restart, RestartSucceeds, OpType
  <2>3. Starting.phase = "starting"
    BY DEF Starting, Down
  <2> QED  BY <2>1, <2>2, <2>3 DEF HubFresh, OpFresh, Written, Recovered, Loaded
<1>9. CASE Succeed(r) \/ Recover(r)
  <2>1. UNCHANGED <<file, hub>> /\ ops'[r].phase = "done"
    BY <1>2, <1>9 DEF Succeed, Recover
  <2>2. hub.read = file /\ hub.sha = file
    BY <1>1, <1>9 DEF Succeed, Recover, mcp_hub_ready, OpFresh, Written,
                      Recovered, Loaded
  <2> QED  BY <2>1, <2>2 DEF HubFresh, OpFresh, Written, Recovered
<1>10. CASE Deadline(r)
  <2>1. UNCHANGED <<file, hub, attested>> /\ ops'[r].phase = "rollback"
        /\ ops'[r].entries = ops[r].entries
    BY <1>1, <1>10 DEF Deadline, OpType
  <2>2. file = ops[r].entries /\ ~attested
    BY <1>1, <1>10 DEF Deadline, OpFresh, Written
  <2> QED  BY <2>1, <2>2 DEF HubFresh, OpFresh, Written, Recovered
<1>11. CASE Rollback(r)
  <2>1. file = ops[r].entries /\ ~attested
    BY <1>1, <1>11 DEF Rollback, OpFresh, Written
  <2>2. file' = ops[r].previous /\ ops'[r].phase = "restart again"
        /\ ops'[r].previous = ops[r].previous /\ UNCHANGED attested
    BY <1>1, <1>11, <2>1 DEF Rollback, OpType
  <2> QED  BY <2>1, <2>2 DEF HubFresh, OpFresh, Written, Recovered
<1>12. CASE RestartAgain(r)
  <2>1. UNCHANGED <<file, attested>> /\ ~attested /\ file = ops[r].previous
    BY <1>1, <1>12 DEF RestartAgain, OpFresh, Recovered
  <2>2. \/ /\ ops'[r].phase = "attest again" /\ hub' = Starting
           /\ ops'[r].previous = ops[r].previous
        \/ ops'[r].phase = "done"
    <3>1. CASE Answer(r, "unattested")
      BY <1>2, <3>1
    <3>2. CASE /\ RestartSucceeds
               /\ ops' = [ops EXCEPT ![r].phase = "attest again"]
      BY <1>1, <3>2 DEF RestartSucceeds, OpType
    <3> QED  BY <1>12, <3>1, <3>2 DEF RestartAgain
  <2>3. Starting.phase = "starting"
    BY DEF Starting, Down
  <2> QED  BY <2>1, <2>2, <2>3 DEF HubFresh, OpFresh, Written, Recovered, Loaded
<1> QED  BY <1>3, <1>4, <1>5, <1>6, <1>7, <1>8, <1>9, <1>10, <1>11, <1>12
         DEF Proceed

\* So does everything else, unless the operator edits the file.
LEMMA OtherFresh ==
    ASSUME TypeOK, Fresh,
           \/ \E r \in Requests : Ask(r) \/ Acquire(r)
           \/ HubStep \/ HubStops \/ Crash
           \/ \E n \in Names : UpstreamChanges(n)
    PROVE  Fresh'
<1> USE DEF At
<1>1. hub \in HubType /\ ops \in [Requests -> OpType] /\ UNCHANGED <<file, attested>>
  BY DEF TypeOK, Ask, Acquire, HubStep, HubBoots, register_external_tools,
         HubHashes, HubConnects, HubStops, Crash, UpstreamChanges
<1>2. CASE \E r \in Requests : Ask(r) \/ Acquire(r)
  <2>1. PICK r \in Requests : Ask(r) \/ Acquire(r)
    BY <1>2
  <2>2. UNCHANGED hub /\ ops'[r].phase \in {"waiting", "reading"}
    BY <1>1, <2>1 DEF Ask, Acquire, OpType
  <2>3. \A q \in Requests \ {r} : ops'[q] = ops[q]
    BY <1>1, <2>1 DEF Ask, Acquire
  <2> QED  BY <1>1, <2>2, <2>3 DEF Fresh, HubFresh, OpFresh, Written, Recovered
<1>3. CASE Crash
  <2>1. UNCHANGED hub
        /\ \A r \in Requests : ops'[r].phase \in {"idle", "done"}
    BY <1>3 DEF Crash, Lost, Idle
  <2> QED  BY <1>1, <2>1 DEF Fresh, HubFresh, OpFresh, Written, Recovered
<1>4. CASE HubStep \/ HubStops \/ \E n \in Names : UpstreamChanges(n)
  <2>1. UNCHANGED ops
    BY <1>4 DEF HubStep, HubBoots, register_external_tools, HubHashes,
                HubConnects, HubStops, UpstreamChanges
  <2>2. \/ hub'.phase \notin Loaded
        \/ hub'.phase = "loading" /\ hub'.read = file
        \/ /\ hub.phase \in Loaded /\ hub'.read = hub.read
           /\ \/ hub'.phase = hub.phase /\ hub'.sha = hub.sha
              \/ hub'.phase = "serving" /\ hub'.sha = file
    <3>1. CASE HubBoots \/ HubStops
      BY <3>1 DEF HubBoots, HubStops, Starting, Down, Loaded
    <3>2. CASE register_external_tools
      BY <1>1, <3>2 DEF register_external_tools, HubType
    <3>3. CASE HubHashes \/ \E n \in Names : HubConnects(n)
      BY <1>1, <3>3 DEF HubHashes, HubConnects, HubType, Loaded
    <3>4. CASE \E n \in Names : UpstreamChanges(n)
      BY <3>4 DEF UpstreamChanges
    <3> QED  BY <1>4, <3>1, <3>2, <3>3, <3>4 DEF HubStep
  <2> QED  BY <1>1, <2>1, <2>2 DEF Fresh, HubFresh, OpFresh, Loaded
<1> QED  BY <1>2, <1>3, <1>4

\* Without manual edits, file, hub and handlers stay in step.
LEMMA FreshAlways ==
    ASSUME "edit" \notin Faults
    PROVE  Spec => []Fresh
<1>1. Init => Fresh
  <2> SUFFICES ASSUME Init PROVE Fresh
    OBVIOUS
  <2>1. \A r \in Requests : ops[r].phase = "idle"
    BY DEF Init, Idle
  <2> QED  BY <2>1 DEF Init, Fresh, HubFresh, OpFresh, Written, Recovered
<1>2. TypeOK /\ Fresh /\ [Next]_vars => Fresh'
  <2> SUFFICES ASSUME TypeOK, Fresh, [Next]_vars PROVE Fresh'
    OBVIOUS
  <2>1. CASE UNCHANGED vars
    BY <2>1 DEF Fresh, HubFresh, OpFresh, vars
  <2>2. CASE Next
    BY <2>2, ProceedFresh, OtherFresh DEF Next, EnvironmentStep, prepare
  <2> QED  BY <2>1, <2>2
<1> QED  BY <1>1, <1>2, TypeCorrect, PTL DEF Spec

\* Without manual edits, an attested registry is the one the hub serves, for
\* any number of requests, restarts, crashes and torn writes.
THEOREM AttestedIsServedAlways ==
    ASSUME "edit" \notin Faults
    PROVE  Spec => []AttestedIsServed
<1>1. Fresh => AttestedIsServed
  BY DEF Fresh, HubFresh, AttestedIsServed, Loaded
<1> QED  BY <1>1, FreshAlways, PTL

-------------------------------------------------------------------------------
(* What "ok" of a hub means.                                               *)

Sound ==
    /\ hub.phase = "serving" => hub.todo = {}
    /\ hub.ok /\ hub.phase \in Loaded =>
          \A n \in DOMAIN ReadConf(hub.read) :
              n \in hub.todo \/ \E t \in Tools : hub.owners[t] = n

\* A hub that is content owns a tool of every entry it has gone through: a
\* later entry never takes one away.
LEMMA SoundStep ==
    ASSUME TypeOK, Sound, [Next]_vars
    PROVE  Sound'
<1>1. hub \in HubType /\ offers \in [Names -> SUBSET Tools]
  BY DEF TypeOK
<1>2. ASSUME hub' \in {hub, Starting, Down}  PROVE Sound'
  <2>1. Starting.phase = "starting" /\ Down.phase = "down"
    BY DEF Starting, Down
  <2> QED  BY <1>2, <2>1 DEF Sound, Loaded
<1>3. CASE register_external_tools
  <2>1. hub'.phase = "loading" /\ hub'.read = file
        /\ hub'.todo = IF file \in Registries THEN DOMAIN file ELSE {}
    BY <1>1, <1>3 DEF register_external_tools, HubType
  <2>2. hub'.todo = DOMAIN ReadConf(file)
    BY <2>1 DEF ReadConf, NoEntries
  <2> QED  BY <2>1, <2>2 DEF Sound, Loaded
<1>4. CASE HubHashes
  <2>1. hub'.phase = "serving" /\ hub'.read = hub.read /\ hub'.todo = {}
        /\ hub'.owners = hub.owners /\ hub'.ok = hub.ok
        /\ hub.phase = "loading" /\ hub.todo = {}
    BY <1>1, <1>4 DEF HubHashes, HubType
  <2> QED  BY <2>1 DEF Sound, Loaded
<1>5. ASSUME NEW n \in Names, HubConnects(n)  PROVE Sound'
  <2> DEFINE usable == Usable(offers[n], hub.owners)
  <2>1. /\ hub.phase = "loading" /\ hub'.phase = "loading"
        /\ hub'.read = hub.read
        /\ hub'.todo = hub.todo \ {n}
        /\ hub'.ok = (hub.ok /\ usable)
        /\ hub'.owners = IF usable THEN Claim(n, offers[n], hub.owners)
                                   ELSE hub.owners
    BY <1>1, <1>5 DEF HubConnects, HubType
  <2>2. SUFFICES ASSUME hub.ok, usable, NEW m \in DOMAIN ReadConf(hub.read)
                 PROVE  m \in hub'.todo \/ \E t \in Tools : hub'.owners[t] = m
    BY <2>1 DEF Sound
  <2>3. m \in hub.todo \/ \E t \in Tools : hub.owners[t] = m
    BY <2>1, <2>2 DEF Sound, Loaded
  <2>4. m \in Names
    BY <2>2, ReadConfType DEF Registries
  <2>5. hub'.owners = [t \in Tools |-> IF t \in offers[n] THEN n
                                                          ELSE hub.owners[t]]
    BY <2>1, <2>2 DEF Claim
  <2>6. CASE m = n
    <3>1. PICK t \in offers[n] : t \in Tools
      BY <1>1, <2>2 DEF Usable
    <3> QED  BY <2>5, <2>6, <3>1
  <2>7. CASE m # n
    <3>1. CASE m \in hub.todo
      BY <2>1, <2>7, <3>1
    <3>2. ASSUME NEW t \in Tools, hub.owners[t] = m
          PROVE  hub'.owners[t] = m
      <4>1. t \notin offers[n]
        BY <2>2, <2>4, <3>2, NoneAssumption DEF Usable, Claimed
      <4> QED  BY <2>5, <3>2, <4>1
    <3> QED  BY <2>3, <3>1, <3>2
  <2> QED  BY <2>6, <2>7
<1>6. ASSUME NEW r \in Requests, Ask(r) \/ Acquire(r) \/ Proceed(r)
      PROVE  hub' \in {hub, Starting, Down}
  BY <1>6 DEF Ask, Acquire, Proceed, Refuse, SkipCommit, Read, Preflight,
         PreflightFails, Snapshot, Write, WriteFails, Restart, Succeed,
         Deadline, Rollback, RollbackFails, RestartAgain, Recover,
         DeadlineAgain, RestartSucceeds, RestartFails
<1>7. ASSUME HubBoots \/ EnvironmentStep \/ UNCHANGED vars
      PROVE  hub' \in {hub, Starting, Down}
  BY <1>7 DEF HubBoots, EnvironmentStep, HubStops, Crash, prepare,
              UpstreamChanges, vars
<1> QED  BY <1>2, <1>3, <1>4, <1>5, <1>6, <1>7 DEF Next, HubStep

\* Only a handler that saw the hub ready answers "ok".
LEMMA OkBySucceed ==
    ASSUME TypeOK, [Next]_vars, NEW r \in Requests,
           ops'[r].answer = "ok", ops[r].answer # "ok"
    PROVE  Succeed(r)
<1> USE DEF At
<1>1. ops \in [Requests -> OpType]
  BY DEF TypeOK
<1>2. ASSUME NEW q \in Requests, NEW a, Answer(q, a)
      PROVE  ops'[q].answer = a
  BY <1>1, <1>2 DEF Answer, Idle
<1>3. CASE UNCHANGED ops
  BY <1>3
<1>4. CASE Crash
  <2>1. ops'[r] = Lost(ops[r])
    BY <1>4 DEF Crash
  <2>2. Lost(ops[r]).answer \in {ops[r].answer, "lost"}
    BY DEF Lost, Idle
  <2> QED  BY <2>1, <2>2
<1>5. ASSUME NEW q \in Requests, Ask(q) \/ Acquire(q)  PROVE FALSE
  BY <1>1, <1>5 DEF Ask, Acquire, OpType
<1>6. ASSUME NEW q \in Requests, Proceed(q)  PROVE Succeed(r)
  <2>1. q = r
    BY <1>6, OthersWait
  <2>2. \A a : Answer(r, a) => a = "ok"
    BY <1>2
  <2>3. ~UNCHANGED ops[r].answer
    OBVIOUS
  <2>4. ASSUME Read(r) \/ Snapshot(r) \/ Deadline(r)
               \/ \E n \in Names : Preflight(r, n)
        PROVE  ops'[r].answer = ops[r].answer
    <3>1. CASE Read(r)
      BY <1>1, <3>1 DEF Read, OpType
    <3>2. CASE Snapshot(r) \/ Deadline(r)
      BY <1>1, <3>2 DEF Snapshot, Deadline, OpType
    <3>3. CASE \E n \in Names : Preflight(r, n)
      BY <1>1, <3>3 DEF Preflight, OpType
    <3> QED  BY <2>4, <3>1, <3>2, <3>3
  <2>5. ASSUME NEW p, ops' = [ops EXCEPT ![r].phase = p]
        PROVE  ops'[r].answer = ops[r].answer
    BY <1>1, <2>5 DEF OpType
  <2>6. ~(Refuse(r) \/ SkipCommit(r) \/ WriteFails(r) \/ RollbackFails(r)
          \/ Recover(r) \/ DeadlineAgain(r)
          \/ \E n \in Names : PreflightFails(r, n))
    BY <2>2 DEF Refuse, SkipCommit, WriteFails, RollbackFails, Recover,
                DeadlineAgain, PreflightFails
  <2>7. ~(Write(r) \/ Rollback(r) \/ Restart(r) \/ RestartAgain(r))
    BY <2>2, <2>3, <2>5 DEF Write, Rollback, Restart, RestartAgain
  <2> QED  BY <1>6, <2>1, <2>3, <2>4, <2>6, <2>7 DEF Proceed
<1>7. CASE HubStep \/ HubStops \/ prepare \/ (\E n \in Names : UpstreamChanges(n))
           \/ UNCHANGED vars
  BY <1>3, <1>7 DEF HubStep, HubBoots, register_external_tools, HubHashes,
                    HubConnects, HubStops, prepare, UpstreamChanges, vars
<1> QED  BY <1>4, <1>5, <1>6, <1>7 DEF Next, EnvironmentStep

\* Without manual edits, a request is answered "ok" only while the hub serves
\* the registry it asked for, with a tool of every entry.
THEOREM OkMeansServedAlways ==
    ASSUME "edit" \notin Faults
    PROVE  Spec => OkMeansServed
<1>1. Init => Sound
  BY DEF Init, Sound, Starting, Down, Loaded
<1>2. TypeOK /\ Sound /\ [Next]_vars => Sound'
  BY SoundStep
<1>3. TypeOK /\ Fresh /\ Sound /\ [Next]_vars => [OkStep]_vars
  <2> SUFFICES ASSUME TypeOK, Fresh, Sound, [Next]_vars, NEW r \in Requests,
                      ops'[r].answer = "ok", ops[r].answer # "ok"
               PROVE  /\ hub.phase = "serving"
                      /\ hub.read = ops[r].entries
                      /\ \A n \in DOMAIN hub.read :
                            \E t \in Tools : hub.owners[t] = n
    BY DEF OkStep
  <2>1. At(r, "attest") /\ mcp_hub_ready(ops[r].entries, ops[r].expected)
    BY OkBySucceed DEF Succeed
  <2>2. hub.read = ops[r].entries
    BY <2>1 DEF Fresh, OpFresh, At, Written, Loaded, mcp_hub_ready
  <2>3. ReadConf(hub.read) = hub.read
    BY <2>2 DEF ReadConf, TypeOK, OpType
  <2> QED  BY <2>1, <2>2, <2>3 DEF Sound, Loaded, mcp_hub_ready
<1> QED  BY <1>1, <1>2, <1>3, FreshAlways, TypeCorrect, PTL
         DEF Spec, OkMeansServed

-------------------------------------------------------------------------------
(* The protocol implements McpCommit.                                      *)

\* What a handler writes is its job applied to what it found.
Applies ==
    \A r \in Requests :
        /\ ops[r].phase \in {"preflight", "snapshot", "write"} =>
              /\ ~Refused(ops[r].job, ReadConf(file))
              /\ ops[r].entries = Edited(ops[r].job, ReadConf(file))
        /\ ops[r].phase \in Written =>
              /\ ~Refused(ops[r].job, ReadConf(ops[r].previous))
              /\ ops[r].entries = Edited(ops[r].job, ReadConf(ops[r].previous))

Serial == {"edit", "disk", "crash"} \cap Faults = {}

\* Between a handler's read and its answer nobody else writes the registry.
LEMMA AppliesStep ==
    ASSUME Serial, TypeOK, Fresh, Applies, [Next]_vars
    PROVE  Applies'
<1> USE DEF At
<1>1. ops \in [Requests -> OpType]
  BY DEF TypeOK
<1>2. CASE UNCHANGED <<file, ops>>
  BY <1>2 DEF Applies
<1>3. ASSUME NEW r \in Requests, Ask(r) \/ Acquire(r)  PROVE Applies'
  <2>1. UNCHANGED file /\ ops'[r].phase \in {"waiting", "reading"}
    BY <1>1, <1>3 DEF Ask, Acquire, OpType
  <2>2. \A q \in Requests \ {r} : ops'[q] = ops[q]
    BY <1>1, <1>3 DEF Ask, Acquire
  <2> QED  BY <2>1, <2>2 DEF Applies, Written
<1>4. ASSUME NEW r \in Requests, Proceed(r)  PROVE Applies'
  <2> DEFINE Here == {"preflight", "snapshot", "write"}
  <2>1. \A q \in Requests \ {r} :
            ops'[q] = ops[q] /\ ops[q].phase \notin Here \cup Written
    BY <1>4, OthersWait DEF Critical, Phases, Written
  <2>2. SUFFICES
          /\ ops'[r].phase \in Here =>
                /\ ~Refused(ops'[r].job, ReadConf(file'))
                /\ ops'[r].entries = Edited(ops'[r].job, ReadConf(file'))
          /\ ops'[r].phase \in Written =>
                /\ ~Refused(ops'[r].job, ReadConf(ops'[r].previous))
                /\ ops'[r].entries
                      = Edited(ops'[r].job, ReadConf(ops'[r].previous))
    BY <2>1 DEF Applies
  <2>3. ASSUME NEW a, Answer(r, a)  PROVE ops'[r].phase = "done"
    BY <1>1, <2>3 DEF Answer, Idle
  <2>4. CASE ops'[r].phase = "done"
    BY <2>4 DEF Written
  <2>5. CASE Refuse(r) \/ SkipCommit(r) \/ Succeed(r) \/ Recover(r)
             \/ DeadlineAgain(r) \/ RollbackFails(r) \/ WriteFails(r)
             \/ \E n \in Names : PreflightFails(r, n)
    BY <2>3, <2>4, <2>5 DEF Refuse, SkipCommit, Succeed, Recover,
       DeadlineAgain, RollbackFails, WriteFails, PreflightFails
  <2>6. CASE Read(r)
    <3>1. /\ UNCHANGED file /\ ops'[r].phase \in {"preflight", "snapshot"}
          /\ ops'[r].job = ops[r].job
          /\ ops'[r].entries = Edited(ops[r].job, ReadConf(file))
      BY <1>1, <2>6 DEF Read, OpType
    <3>2. ~Refused(ops[r].job, ReadConf(file))
      BY <2>6 DEF Read
    <3> QED  BY <3>1, <3>2 DEF Written
  <2>7. CASE \E n \in Names : Preflight(r, n)
    <3>1. UNCHANGED file /\ ops'[r].job = ops[r].job
          /\ ops'[r].entries = ops[r].entries
          /\ ops'[r].phase = ops[r].phase /\ ops[r].phase = "preflight"
      BY <1>1, <2>7 DEF Preflight, OpType
    <3> QED  BY <3>1 DEF Applies, Written
  <2>8. CASE Snapshot(r)
    <3>1. UNCHANGED file /\ ops'[r].job = ops[r].job
          /\ ops'[r].entries = ops[r].entries
          /\ ops'[r].phase = "write" /\ ops[r].phase \in Here
      BY <1>1, <2>8 DEF Snapshot, OpType
    <3> QED  BY <3>1 DEF Applies, Written
  <2>9. CASE Write(r)
    <3>1. CASE file = ops[r].previous
      <4>1. ops'[r].job = ops[r].job /\ ops'[r].entries = ops[r].entries
            /\ ops'[r].previous = file
            /\ ops'[r].phase = "restart" /\ ops[r].phase = "write"
        BY <1>1, <2>9, <3>1 DEF Write, OpType
      <4> QED  BY <4>1 DEF Applies
    <3>2. CASE file # ops[r].previous
      BY <2>3, <2>4, <2>9, <3>2 DEF Write
    <3> QED  BY <3>1, <3>2
  <2>10. CASE Restart(r) \/ Deadline(r)
    <3>1. ops'[r].job = ops[r].job /\ ops'[r].entries = ops[r].entries
          /\ ops'[r].previous = ops[r].previous
          /\ ops'[r].phase \in {"attest", "rollback"} /\ ops[r].phase \in Written
      <4>1. CASE Restart(r)
        BY <1>1, <4>1 DEF Restart, OpType, Written
      <4>2. CASE Deadline(r)
        BY <1>1, <4>2 DEF Deadline, OpType, Written
      <4> QED  BY <2>10, <4>1, <4>2
    <3> QED  BY <3>1 DEF Applies
  <2>11. CASE Rollback(r)
    <3>1. CASE file = ops[r].entries
      <4>1. ops'[r].phase = "restart again"
        BY <1>1, <2>11, <3>1 DEF Rollback, OpType
      <4> QED  BY <4>1 DEF Written
    <3>2. CASE file # ops[r].entries
      BY <2>3, <2>4, <2>11, <3>2 DEF Rollback
    <3> QED  BY <3>1, <3>2
  <2>12. CASE RestartAgain(r)
    <3>1. CASE Answer(r, "unattested")
      BY <2>3, <2>4, <3>1
    <3>2. CASE ops' = [ops EXCEPT ![r].phase = "attest again"]
      BY <1>1, <3>2 DEF OpType, Written
    <3> QED  BY <2>12, <3>1, <3>2 DEF RestartAgain
  <2> QED  BY <1>4, <2>5, <2>6, <2>7, <2>8, <2>9, <2>10, <2>11, <2>12
           DEF Proceed
<1>5. CASE HubStep \/ HubStops \/ (\E n \in Names : UpstreamChanges(n))
           \/ UNCHANGED vars
  BY <1>2, <1>5 DEF HubStep, HubBoots, register_external_tools, HubHashes,
                    HubConnects, HubStops, UpstreamChanges, vars
<1>6. ~(Crash \/ prepare)
  BY DEF Serial, Crash, prepare
<1> QED  BY <1>3, <1>4, <1>5, <1>6 DEF Next, EnvironmentStep


\* The registry the administrators see, from inside and outside the lock.
LEMMA CommittedIs ==
    ASSUME TypeOK
    PROVE  /\ lock = None => committed = ReadConf(file)
           /\ \A r \in Requests : ops[r].phase \in Critical =>
                 /\ lock = r
                 /\ committed = IF ops[r].phase \in Written
                                THEN ReadConf(ops[r].previous)
                                ELSE ReadConf(file)
<1>1. None \notin Requests
  BY NoneAssumption
<1> QED  BY <1>1 DEF TypeOK, committed, Undecided, Written, Critical

\* A handler that answers closes its request in McpCommit.
LEMMA AnswerRefines ==
    ASSUME TypeOK, NEW r \in Requests, ops[r].phase \in Critical,
           NEW a \in Answers, Answer(r, a)
    PROVE  /\ Abstract!Open(r)
           /\ asks' = asks
           /\ verdict' = [verdict EXCEPT ![r] = Verdict(a)]
           /\ committed' = ReadConf(file')
<1>1. ops \in [Requests -> OpType] /\ ops[r].job # None /\ ops[r].answer = None
  BY DEF TypeOK, At, Critical
<1>2. asks[r] # None /\ verdict[r] = None
  BY <1>1, NoneAssumption DEF asks, verdict, Verdict, Answers
<1>3. /\ ops' \in [Requests -> {ops'[q] : q \in Requests}]
      /\ \A q \in Requests \ {r} : ops'[q] = ops[q]
      /\ ops'[r].job = ops[r].job /\ ops'[r].answer = a
  BY <1>1 DEF Answer, Idle
<1>4. asks' = asks
  BY <1>3 DEF asks
<1>5. verdict' = [verdict EXCEPT ![r] = Verdict(a)]
  BY <1>3 DEF verdict
<1>6. committed' = ReadConf(file')
  BY DEF Answer, committed, Undecided
<1> QED  BY <1>2, <1>4, <1>5, <1>6 DEF Abstract!Open

\* A handler that goes on does not show.
LEMMA MoveRefines ==
    ASSUME TypeOK, TypeOK', NEW r \in Requests, ops[r].phase \in Critical,
           ops'[r].phase \in Critical,
           ops'[r].job = ops[r].job,
           \A q \in Requests \ {r} : ops'[q] = ops[q],
           IF ops[r].phase \in Written
           THEN IF ops'[r].phase \in Written
                THEN ops'[r].previous = ops[r].previous
                ELSE file' = ops[r].previous
           ELSE IF ops'[r].phase \in Written
                THEN ops'[r].previous = file
                ELSE file' = file
    PROVE  UNCHANGED <<committed, asks, verdict>>
<1>1. asks' = asks
  BY DEF asks
<1>2. ops'[r].answer = None /\ ops[r].answer = None
  BY DEF TypeOK, At, Critical
<1>3. verdict' = verdict
  BY <1>2 DEF verdict
<1>4. committed = IF ops[r].phase \in Written THEN ReadConf(ops[r].previous)
                                              ELSE ReadConf(file)
  BY CommittedIs
<1>5. lock' = r
  BY DEF TypeOK
<1>6. committed' = IF ops'[r].phase \in Written
                   THEN ReadConf(ops'[r].previous) ELSE ReadConf(file')
  <2>1. r # None
    BY NoneAssumption
  <2> QED  BY <1>5, <2>1 DEF committed, Undecided, Written, Critical
<1> QED  BY <1>1, <1>3, <1>4, <1>6

\* A rename that no entry is bound to leaves the registry as it is.
LEMMA UnneededEdit ==
    ASSUME NEW job, NEW registry \in Registries, Unneeded(job, registry)
    PROVE  Edited(job, registry) = registry
<1>1. PICK S \in SUBSET Names : registry \in [S -> SUBSET Groups]
  BY DEF Registries
<1>2. Renamed(job.from, job.to, registry) = registry
  BY <1>1 DEF Renamed, Unneeded, Bound
<1> QED  BY <1>2 DEF Edited, Unneeded

\* McpCommit and McpRegistry mean the same by a job.
LEMMA SameJobs ==
    ASSUME NEW job, NEW registry
    PROVE  /\ Abstract!Refused(job, registry) <=> Refused(job, registry)
           /\ Abstract!Edited(job, registry) = Edited(job, registry)
BY DEF Abstract!Refused, Refused, Abstract!Bound, Bound, Abstract!Edited,
       Edited, Abstract!With, With, Abstract!Renamed, Renamed,
       Abstract!Restrict, Restrict

\* Every step of a handler is one of McpCommit, or does not show.
LEMMA ProceedRefines ==
    ASSUME TypeOK, TypeOK', Fresh, Applies, Serial,
           NEW r \in Requests, Proceed(r)
    PROVE  \/ Abstract!Commit(r) \/ Abstract!Reject(r)
           \/ UNCHANGED <<committed, asks, verdict>>
<1> USE DEF At
<1>1. ops \in [Requests -> OpType]
  BY DEF TypeOK
<1>2. \A q \in Requests \ {r} : ops'[q] = ops[q]
  BY OthersWait
<1>3. ops[r].phase \in Critical
  BY DEF Proceed, Refuse, SkipCommit, Read, Preflight, PreflightFails,
         Snapshot, Write, WriteFails, Restart, Succeed, Deadline, Rollback,
         RollbackFails, RestartAgain, Recover, DeadlineAgain, Critical, Phases
<1>4. committed = IF ops[r].phase \in Written THEN ReadConf(ops[r].previous)
                                              ELSE ReadConf(file)
  BY <1>3, CommittedIs
<1>5. ASSUME NEW a \in Answers \ {"ok", "unneeded"}, Answer(r, a),
             UNCHANGED file, ops[r].phase \notin Written
      PROVE  Abstract!Reject(r)
  <2>1. Verdict(a) = "failed"
    BY NoneAssumption DEF Verdict
  <2> QED  BY <1>3, <1>4, <1>5, <2>1, AnswerRefines DEF Abstract!Reject
<1>6. CASE Refuse(r) \/ DeadlineAgain(r) \/ Recover(r)
           \/ \E n \in Names : PreflightFails(r, n)
  <2>1. UNCHANGED file /\ ops[r].phase \notin Written
    BY <1>6 DEF Refuse, DeadlineAgain, Recover, PreflightFails, Written
  <2>2. \E a \in Answers \ {"ok", "unneeded"} : Answer(r, a)
    BY <1>6 DEF Refuse, DeadlineAgain, Recover, PreflightFails, Answers
  <2> QED  BY <1>5, <2>1, <2>2
<1>7. CASE SkipCommit(r)
  <2>1. Answer(r, "unneeded") /\ UNCHANGED file
        /\ ops[r].phase \notin Written
    BY <1>7 DEF SkipCommit, Written
  <2>2. ~Refused(ops[r].job, committed)
        /\ Edited(ops[r].job, committed) = committed
    BY <1>4, <1>7, <2>1, ReadConfType, UnneededEdit DEF SkipCommit
  <2>3. Verdict("unneeded") = "ok" /\ "unneeded" \in Answers
    BY NoneAssumption DEF Verdict, Answers
  <2>4. committed' = committed
    BY <1>3, <1>4, <2>1, <2>3, AnswerRefines
  <2>5. asks[r] = ops[r].job
    BY DEF asks
  <2> QED  BY <1>3, <2>1, <2>2, <2>3, <2>4, <2>5, AnswerRefines,
           SameJobs DEF Abstract!Commit
<1>8. CASE Succeed(r)
  <2>1. Answer(r, "ok") /\ UNCHANGED file /\ ops[r].phase = "attest"
    BY <1>8 DEF Succeed
  <2>2. committed = ReadConf(ops[r].previous) /\ file = ops[r].entries
    BY <1>4, <2>1 DEF Fresh, OpFresh, Written
  <2>3. ~Refused(ops[r].job, committed)
        /\ ops[r].entries = Edited(ops[r].job, committed)
    BY <2>1, <2>2 DEF Applies, Written
  <2>4. Verdict("ok") = "ok" /\ "ok" \in Answers
    BY NoneAssumption DEF Verdict, Answers
  <2>5. ReadConf(file) = file
    BY <1>1, <2>2 DEF ReadConf, OpType
  <2>6. asks[r] = ops[r].job
    BY DEF asks
  <2>7. committed' = file
    BY <1>3, <2>1, <2>4, <2>5, AnswerRefines
  <2> QED  BY <1>3, <2>1, <2>2, <2>3, <2>4, <2>6, <2>7, AnswerRefines,
           SameJobs DEF Abstract!Commit
<1>9. CASE Read(r) \/ Snapshot(r) \/ \E n \in Names : Preflight(r, n)
  <2>1. UNCHANGED file /\ ops[r].phase \notin Written
    BY <1>9 DEF Read, Snapshot, Preflight, Written
  <2>2. ops'[r].job = ops[r].job
        /\ ops'[r].phase \in {"preflight", "snapshot", "write"}
    <3>1. CASE Read(r)
      BY <1>1, <3>1 DEF Read, OpType
    <3>2. CASE Snapshot(r)
      BY <1>1, <3>2 DEF Snapshot, OpType
    <3>3. CASE \E n \in Names : Preflight(r, n)
      BY <1>1, <3>3 DEF Preflight, OpType
    <3> QED  BY <1>9, <3>1, <3>2, <3>3
  <2> QED  BY <1>2, <1>3, <2>1, <2>2, MoveRefines DEF Critical, Phases, Written
<1>10. CASE Write(r)
  <2>1. ops[r].phase = "write" /\ ops[r].phase \notin Written
    BY <1>10 DEF Write, Written
  <2>2. CASE file = ops[r].previous
    <3>1. ops'[r].job = ops[r].job /\ ops'[r].phase = "restart"
          /\ ops'[r].previous = file
      BY <1>1, <1>10, <2>2 DEF Write, OpType
    <3> QED  BY <1>2, <1>3, <2>1, <3>1, MoveRefines DEF Critical, Phases, Written
  <2>3. CASE file # ops[r].previous
    BY <1>5, <1>10, <2>1, <2>3 DEF Write, Answers
  <2> QED  BY <2>2, <2>3
<1>11. CASE Restart(r) \/ Deadline(r)
  <2>1. ops'[r].job = ops[r].job /\ ops'[r].previous = ops[r].previous
        /\ ops'[r].phase \in {"attest", "rollback"} /\ ops[r].phase \in Written
    <3>1. CASE Restart(r)
      BY <1>1, <3>1 DEF Restart, OpType, Written
    <3>2. CASE Deadline(r)
      BY <1>1, <3>2 DEF Deadline, OpType, Written
    <3> QED  BY <1>11, <3>1, <3>2
  <2> QED  BY <1>2, <1>3, <2>1, MoveRefines DEF Critical, Phases, Written
<1>12. CASE Rollback(r)
  <2>1. file = ops[r].entries /\ ops[r].phase \in Written
    BY <1>12 DEF Rollback, Fresh, OpFresh, Written
  <2>2. ops'[r].job = ops[r].job /\ file' = ops[r].previous
        /\ ops'[r].phase = "restart again"
    BY <1>1, <1>12, <2>1 DEF Rollback, OpType
  <2> QED  BY <1>2, <1>3, <2>1, <2>2, MoveRefines DEF Critical, Phases, Written
<1>13. CASE RestartAgain(r)
  <2>1. UNCHANGED file /\ ops[r].phase \notin Written
    BY <1>13 DEF RestartAgain, Written
  <2>2. CASE Answer(r, "unattested")
    BY <1>5, <2>1, <2>2 DEF Answers
  <2>3. CASE ops' = [ops EXCEPT ![r].phase = "attest again"]
    <3>1. ops'[r].job = ops[r].job /\ ops'[r].phase = "attest again"
      BY <1>1, <2>3 DEF OpType
    <3> QED  BY <1>2, <1>3, <2>1, <3>1, MoveRefines DEF Critical, Phases, Written
  <2> QED  BY <1>13, <2>2, <2>3 DEF RestartAgain
<1>14. ~(WriteFails(r) \/ RollbackFails(r))
  BY DEF Serial, WriteFails, RollbackFails
<1> QED  BY <1>6, <1>7, <1>8, <1>9, <1>10, <1>11, <1>12, <1>13, <1>14
         DEF Proceed


\* Sending and queueing, too.
LEMMA EntryRefines ==
    ASSUME TypeOK, NEW r \in Requests, Ask(r) \/ Acquire(r)
    PROVE  Abstract!Ask(r) \/ UNCHANGED <<committed, asks, verdict>>
<1> USE DEF At
<1>1. ops \in [Requests -> OpType] /\ UNCHANGED file
  BY DEF TypeOK, Ask, Acquire
<1>2. \A q \in Requests : ops'[q].answer = ops[q].answer
  BY <1>1 DEF Ask, Acquire, OpType
<1>3. verdict' = verdict
  BY <1>2 DEF verdict
<1>4. CASE Ask(r)
  <2>1. PICK job \in Asked :
            ops' = [ops EXCEPT ![r].phase = "waiting", ![r].job = job]
    BY <1>4 DEF Ask
  <2>2. \A q \in Requests : ops'[q].job = IF q = r THEN job ELSE ops[q].job
    BY <1>1, <2>1 DEF OpType
  <2>3. asks' = [asks EXCEPT ![r] = job] /\ asks[r] = None
    BY <1>4, <2>2 DEF asks, TypeOK, Ask
  <2>4. lock' = lock /\ lock # r
    BY <1>4 DEF Ask, TypeOK, Critical
  <2>5. \A q \in Requests \ {r} : ops'[q] = ops[q]
    BY <1>1, <2>1
  <2>6. committed' = committed
    BY <1>1, <2>4, <2>5 DEF committed, Undecided, TypeOK
  <2> QED  BY <1>3, <2>1, <2>3, <2>6 DEF Abstract!Ask
<1>5. CASE Acquire(r)
  <2>1. lock = None /\ lock' = r /\ ops'[r].phase = "reading"
    BY <1>1, <1>5 DEF Acquire, OpType
  <2>2. committed' = committed
    BY <1>1, <2>1 DEF committed, Undecided
  <2>3. \A q \in Requests : ops'[q].job = ops[q].job
    BY <1>1, <1>5 DEF Acquire, OpType
  <2> QED  BY <1>3, <2>2, <2>3 DEF asks
<1> QED  BY <1>4, <1>5

\* Without manual edits, failing writes and console crashes, every request is
\* applied as a whole to the registry its predecessors left, or not at all.
THEOREM CommitIsAtomic ==
    ASSUME Serial
    PROVE  Spec => AtomicCommit
<1>1. Init => Applies
  <2> SUFFICES ASSUME Init PROVE Applies
    OBVIOUS
  <2>1. \A r \in Requests : ops[r].phase = "idle"
    BY DEF Init, Idle
  <2> QED  BY <2>1 DEF Applies, Written
<1>2. Serial /\ TypeOK /\ Fresh /\ Applies /\ [Next]_vars => Applies'
  BY AppliesStep
<1>3. Init => Abstract!Init
  <2> SUFFICES ASSUME Init PROVE Abstract!Init
    OBVIOUS
  <2>1. committed = ReadConf(file)
    BY DEF Init, committed, Undecided
  <2>2. committed \in Registries
    BY <2>1, ReadConfType
  <2>3. asks = [r \in Requests |-> None] /\ verdict = [r \in Requests |-> None]
    <3>1. \A r \in Requests : ops[r].job = None /\ ops[r].answer = None
      BY DEF Init, Idle
    <3>2. Verdict(None) = None
      BY NoneAssumption DEF Verdict, Answers
    <3> QED  BY <3>1, <3>2 DEF asks, verdict
  <2> QED  BY <2>2, <2>3 DEF Abstract!Init, Abstract!Registries, Registries
<1>4. Serial /\ TypeOK /\ TypeOK' /\ Fresh /\ Applies /\ [Next]_vars
        => [Abstract!Next]_(Abstract!vars)
  <2> SUFFICES ASSUME Serial, TypeOK, TypeOK', Fresh, Applies, [Next]_vars
               PROVE  [Abstract!Next]_(Abstract!vars)
    OBVIOUS
  <2>1. UNCHANGED <<committed, asks, verdict>> => UNCHANGED Abstract!vars
    BY DEF Abstract!vars
  <2>2. CASE \E r \in Requests : Ask(r) \/ Acquire(r) \/ Proceed(r)
    BY <2>1, <2>2, EntryRefines, ProceedRefines DEF Abstract!Next
  <2>3. CASE UNCHANGED <<file, ops, lock>>
    BY <2>1, <2>3 DEF committed, Undecided, asks, verdict
  <2>4. CASE HubStep \/ HubStops \/ (\E n \in Names : UpstreamChanges(n))
             \/ UNCHANGED vars
    BY <2>3, <2>4 DEF HubStep, HubBoots, register_external_tools, HubHashes,
                      HubConnects, HubStops, UpstreamChanges, vars
  <2>5. ~(Crash \/ prepare)
    BY DEF Serial, Crash, prepare
  <2> QED  BY <2>2, <2>4, <2>5 DEF Next, EnvironmentStep
<1>5. "edit" \notin Faults
  BY DEF Serial
<1> QED  BY <1>1, <1>2, <1>3, <1>4, <1>5, FreshAlways, TypeCorrect, PTL
         DEF Spec, AtomicCommit, Abstract!Spec
===============================================================================
