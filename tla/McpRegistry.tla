----------------------------- MODULE McpRegistry ------------------------------
(***************************************************************************)
(* How console.py changes the registry of external MCP servers: under one  *)
(* lock it reads external-mcp.json, asks the upstreams (register only),    *)
(* overwrites the file, restarts mcp-hub and waits until the hub attests   *)
(* the bytes it loaded; otherwise it writes the old bytes back, restarts   *)
(* again and waits for those.  Console, hub, upstreams and the operator's  *)
(* rollback script are separate processes: they interleave at every step,  *)
(* also where the console itself does not await.                           *)
(***************************************************************************)
EXTENDS McpConfig

CONSTANTS
    Requests,    \* requests to the console; each is sent at most once
    Asked,       \* the jobs they may ask for, a subset of Jobs
    Tools,       \* identities a tool can have on the hub: prefix and name
    Builtins,    \* those of the hub itself: analyze_image, upload_image
    MayOffer,    \* name -> the sets of tools its upstream may expose
    Hub,         \* owner of the built-in tools
    None,
    Missing,     \* external-mcp.json does not exist
    Garbage,     \* it exists and is not a JSON list
    Faults       \* what may go wrong, a subset of AllFaults

(* hub: mcp-hub stops; restart: docker restart fails or times out; slow:   *)
(* a deadline passes before the answer; upstream: an MCP server changes its*)
(* tools or disappears; disk: a write stops half-way; crash: the console   *)
(* stops; edit: the operator runs prepare_legacy_mcp_rollback.py.          *)
AllFaults == {"hub", "restart", "slow", "upstream", "disk", "crash", "edit"}

(* Where a handler is, and what it answered. *)
Phases  == {"idle", "waiting", "reading", "preflight", "snapshot", "write",
            "restart", "attest", "rollback", "restart again", "attest again",
            "done"}
Answers == {"refused", "unneeded", "ok", "restored", "unattested",
            "unrestored", "changed", "error", "lost"}
Critical == Phases \ {"idle", "waiting", "done"}

ASSUME JobsAssumption  == Asked \subseteq Jobs
ASSUME OffersAssumption ==
    /\ Builtins \subseteq Tools
    /\ MayOffer \in [Names -> SUBSET SUBSET Tools]
ASSUME FaultsAssumption == Faults \subseteq AllFaults
ASSUME NoneAssumption ==
    /\ None \notin Requests \cup Names \cup Asked \cup {Hub}
    /\ None \notin Answers
    /\ Hub \notin Names
    /\ {Missing, Garbage} \cap Registries = {}
    /\ Missing # Garbage
    /\ None \notin [Tools -> Names \cup {Hub, None}]

VARIABLES
    file,      \* external-mcp.json; stands for its SHA-256 as well
    offers,    \* name -> tools its upstream exposes now, {}: not reachable
    hub,       \* the mcp-hub process
    ops,       \* request -> its handler
    lock,      \* holder of _mcp_config_lock
    attested   \* the console has had the present file attested and neither
               \* written nor seen it changed since (history variable)

vars == <<file, offers, hub, ops, lock, attested>>

Files  == Registries \cup {Missing, Garbage}
Owners == [Tools -> Names \cup {Hub, None}]

OnlyBuiltins == [t \in Tools |-> IF t \in Builtins THEN Hub ELSE None]

Idle == [phase |-> "idle", job |-> None, entries |-> NoEntries, todo |-> {},
         expected |-> None, previous |-> Missing, answer |-> None]

Down == [phase |-> "down", read |-> Missing, todo |-> {},
         owners |-> OnlyBuiltins, ok |-> TRUE, sha |-> Missing]
Starting == [Down EXCEPT !.phase = "starting"]

Init == /\ file \in Registries \cup {Missing}
        /\ offers \in {o \in [Names -> SUBSET Tools] :
                          \A n \in Names : o[n] \in MayOffer[n]}
        /\ hub = Starting
        /\ ops = [r \in Requests |-> Idle]
        /\ lock = None
        /\ attested = FALSE
-------------------------------------------------------------------------------
(* mcp-hub: docker keeps it running; a new process reads the registry once.*)

Claimed(owners) == {t \in Tools : owners[t] # None}
Claim(n, tools, owners) ==
    [t \in Tools |-> IF t \in tools THEN n ELSE owners[t]]
Usable(tools, owners) == tools # {} /\ tools \cap Claimed(owners) = {}

HubBoots == /\ hub.phase = "down"
            /\ hub' = Starting
            /\ UNCHANGED <<file, offers, ops, lock, attested>>

register_external_tools ==
    /\ hub.phase = "starting"
    /\ hub' = [hub EXCEPT
                !.phase = "loading",
                !.read = file,
                !.todo = IF file \in Registries THEN DOMAIN file ELSE {},
                !.ok = file # Garbage]
    /\ UNCHANGED <<file, offers, ops, lock, attested>>

(* One entry; an upstream that does not answer, has no tool or claims one  *)
(* already taken is skipped and spoils "ok".                               *)
HubConnects(n) ==
    /\ hub.phase = "loading" /\ n \in hub.todo
    /\ hub' = [hub EXCEPT
                !.todo = @ \ {n},
                !.owners = IF Usable(offers[n], @) THEN Claim(n, offers[n], @)
                                                   ELSE @,
                !.ok = @ /\ Usable(offers[n], hub.owners)]
    /\ UNCHANGED <<file, offers, ops, lock, attested>>

(* lifespan reads the file a second time for its hash, and only then the   *)
(* hub answers /internal/config-state.                                     *)
HubHashes ==
    /\ hub.phase = "loading" /\ hub.todo = {}
    /\ hub' = [hub EXCEPT !.phase = "serving", !.sha = file]
    /\ UNCHANGED <<file, offers, ops, lock, attested>>

HubStops == /\ "hub" \in Faults
            /\ hub.phase # "down"
            /\ hub' = Down
            /\ UNCHANGED <<file, offers, ops, lock, attested>>

HubStep == \/ HubBoots \/ register_external_tools \/ HubHashes
           \/ \E n \in Names : HubConnects(n)

UpstreamChanges(n) ==
    /\ "upstream" \in Faults
    /\ \E tools \in MayOffer[n] : offers' = [offers EXCEPT ![n] = tools]
    /\ UNCHANGED <<file, hub, ops, lock, attested>>

-------------------------------------------------------------------------------
(* The console: one handler per request, in the order of its statements.   *)

At(r, phase) == ops[r].phase = phase

(* read_mcp_conf: an absent or unreadable registry reads as an empty one.  *)
ReadConf(f) == IF f \in Registries THEN f ELSE NoEntries

\* Mutant: the lock is released by hand, and not on errors.
Answer_KeepsLock(r, answer) ==
    /\ ops' = [ops EXCEPT ![r] = [Idle EXCEPT !.phase = "done",
                                              !.job = ops[r].job,
                                              !.answer = answer]]
    /\ lock' = IF answer \in {"ok", "restored"} THEN None ELSE lock

(* The handler answers; leaving the wrapper releases the lock.             *)
Answer(r, answer) ==
    /\ ops' = [ops EXCEPT ![r] = [Idle EXCEPT !.phase = "done",
                                              !.job = ops[r].job,
                                              !.answer = answer]]
    /\ lock' = None

Ask(r) == /\ At(r, "idle")
          /\ \E job \in Asked :
                ops' = [ops EXCEPT ![r].phase = "waiting", ![r].job = job]
          /\ UNCHANGED <<file, offers, hub, lock, attested>>

\* Mutant: a lock of another event loop, which orders nothing.
Acquire_Unordered(r) ==
    /\ At(r, "waiting")
    /\ lock' = r
    /\ ops' = [ops EXCEPT ![r].phase = "reading"]
    /\ UNCHANGED <<file, offers, hub, attested>>

Acquire(r) == /\ At(r, "waiting")
              /\ lock = None
              /\ lock' = r
              /\ ops' = [ops EXCEPT ![r].phase = "reading"]
              /\ UNCHANGED <<file, offers, hub, attested>>

Refuse(r) == /\ At(r, "reading")
             /\ Refused(ops[r].job, ReadConf(file))
             /\ Answer(r, "refused")
             /\ UNCHANGED <<file, offers, hub, attested>>

(* A rename that touches no entry needs no restart.                        *)
Unneeded(job, registry) == job.op = "rename" /\ ~Bound(job.from, registry)

SkipCommit(r) == /\ At(r, "reading")
                 /\ ~Refused(ops[r].job, ReadConf(file))
                 /\ Unneeded(ops[r].job, ReadConf(file))
                 /\ Answer(r, "unneeded")
                 /\ UNCHANGED <<file, offers, hub, attested>>

(* Every entry, the new one included, is asked for its tools first; the    *)
(* other handlers go straight to apply_mcp_conf.                           *)
Read(r) ==
    LET conf == ReadConf(file)
        entries == Edited(ops[r].job, conf)
    IN /\ At(r, "reading")
       /\ ~Refused(ops[r].job, conf)
       /\ ~Unneeded(ops[r].job, conf)
       /\ ops' = [ops EXCEPT ![r] =
            IF ops[r].job.op = "register"
            THEN [@ EXCEPT !.phase = "preflight", !.entries = entries,
                           !.todo = DOMAIN entries,
                           !.expected = OnlyBuiltins]
            ELSE [@ EXCEPT !.phase = "snapshot", !.entries = entries]]
       /\ UNCHANGED <<file, offers, hub, lock, attested>>

Preflight(r, n) ==
    /\ At(r, "preflight") /\ n \in ops[r].todo
    /\ Usable(offers[n], ops[r].expected)
    /\ ops' = [ops EXCEPT ![r].todo = @ \ {n},
                          ![r].expected = Claim(n, offers[n], @)]
    /\ UNCHANGED <<file, offers, hub, lock, attested>>

PreflightFails(r, n) ==
    /\ At(r, "preflight") /\ n \in ops[r].todo
    /\ "slow" \in Faults \/ ~Usable(offers[n], ops[r].expected)
    /\ Answer(r, "refused")
    /\ UNCHANGED <<file, offers, hub, attested>>

(* apply_mcp_conf: previous = _registry_snapshot().                        *)
Snapshot(r) ==
    /\ \/ At(r, "snapshot")
       \/ At(r, "preflight") /\ ops[r].todo = {}
    /\ ops' = [ops EXCEPT ![r].phase = "write", ![r].previous = file]
    /\ UNCHANGED <<file, offers, hub, lock, attested>>

(* write_mcp_conf(entries, expected=previous).                             *)
Write(r) ==
    /\ At(r, "write")
    /\ IF file = ops[r].previous
       THEN /\ file' = ops[r].entries
            /\ ops' = [ops EXCEPT ![r].phase = "restart"]
            /\ attested' = FALSE
            /\ UNCHANGED lock
       ELSE /\ Answer(r, "changed")
            /\ UNCHANGED <<file, attested>>
    /\ UNCHANGED <<offers, hub>>

(* What a write that fails after ftruncate leaves.                         *)
Torn(f) == {f, Garbage} \cup (IF f = Missing THEN {NoEntries} ELSE {})

(* An OSError of the write is caught nowhere: the handler answers 500.     *)
WriteFails(r) ==
    /\ "disk" \in Faults
    /\ At(r, "write") /\ file = ops[r].previous
    /\ file' \in Torn(file)
    /\ attested' = FALSE
    /\ Answer(r, "error")
    /\ UNCHANGED <<offers, hub>>

(* restart_mcp_hub: the command may fail or time out and the container     *)
(* restart all the same, stay as it is, or end stopped.                    *)
RestartSucceeds == hub' = Starting
RestartFails    == "restart" \in Faults /\ hub' \in {hub, Starting, Down}

\* Mutant: the outcome of the command is left to the attestation.
Restart_Unchecked(r) ==
    /\ At(r, "restart")
    /\ RestartSucceeds \/ RestartFails
    /\ ops' = [ops EXCEPT ![r].phase = "attest"]
    /\ UNCHANGED <<file, offers, lock, attested>>

Restart(r) ==
    /\ At(r, "restart")
    /\ \/ /\ RestartSucceeds
          /\ ops' = [ops EXCEPT ![r].phase = "attest"]
       \/ /\ RestartFails
          /\ ops' = [ops EXCEPT ![r].phase = "rollback"]
    /\ UNCHANGED <<file, offers, lock, attested>>

\* Mutant: "ok" of the hub is not looked at.
mcp_hub_ready_HashOnly(f, owners) ==
    hub.phase = "serving" /\ hub.sha = f

(* mcp_hub_ready: the hub answers, all its entries loaded, these bytes and,*)
(* where the caller knows them, these owners.                              *)
mcp_hub_ready(f, owners) ==
    /\ hub.phase = "serving" /\ hub.ok
    /\ hub.sha = f
    /\ owners \in {None, hub.owners}

\* Mutant: a hub that answers is asked again and again.
DeadlinePasses_Unreachable(f, owners) ==
    "slow" \in Faults /\ hub.phase # "serving"

(* The deadline passes before the hub is ready; under "slow", any time.    *)
DeadlinePasses(f, owners) ==
    \/ "slow" \in Faults
    \/ hub.phase = "serving" /\ ~mcp_hub_ready(f, owners)

Succeed(r) ==
    /\ At(r, "attest")
    /\ mcp_hub_ready(ops[r].entries, ops[r].expected)
    /\ attested' = TRUE
    /\ Answer(r, "ok")
    /\ UNCHANGED <<file, offers, hub>>

Deadline(r) ==
    /\ At(r, "attest")
    /\ DeadlinePasses(ops[r].entries, ops[r].expected)
    /\ ops' = [ops EXCEPT ![r].phase = "rollback"]
    /\ UNCHANGED <<file, offers, hub, lock, attested>>

(* Restores the old bytes, or removes the file where there was none.       *)
Rollback(r) ==
    /\ At(r, "rollback")
    /\ IF file = ops[r].entries
       THEN /\ file' = ops[r].previous
            /\ ops' = [ops EXCEPT ![r].phase = "restart again"]
            /\ UNCHANGED lock
       ELSE /\ Answer(r, "changed")
            /\ UNCHANGED file
    /\ UNCHANGED <<offers, hub, attested>>

RollbackFails(r) ==
    /\ "disk" \in Faults
    /\ At(r, "rollback") /\ file = ops[r].entries
    /\ file' \in Torn(file)
    /\ Answer(r, "unrestored")
    /\ UNCHANGED <<offers, hub, attested>>

RestartAgain(r) ==
    /\ At(r, "restart again")
    /\ \/ /\ RestartSucceeds
          /\ ops' = [ops EXCEPT ![r].phase = "attest again"]
          /\ UNCHANGED lock
       \/ /\ RestartFails
          /\ Answer(r, "unattested")
    /\ UNCHANGED <<file, offers, attested>>

(* The owners are not compared a second time.                              *)
Recover(r) ==
    /\ At(r, "attest again")
    /\ mcp_hub_ready(ops[r].previous, None)
    /\ attested' = TRUE
    /\ Answer(r, "restored")
    /\ UNCHANGED <<file, offers, hub>>

DeadlineAgain(r) ==
    /\ At(r, "attest again")
    /\ DeadlinePasses(ops[r].previous, None)
    /\ Answer(r, "unattested")
    /\ UNCHANGED <<file, offers, hub, attested>>

-------------------------------------------------------------------------------
(* The console stops: handlers and lock are gone, file and hub are not.    *)
Lost(op) == IF op.phase \in {"idle", "done"} THEN op
            ELSE [Idle EXCEPT !.phase = "done", !.job = op.job,
                              !.answer = "lost"]

Crash == /\ "crash" \in Faults
         /\ ops' = [r \in Requests |-> Lost(ops[r])]
         /\ lock' = None
         /\ UNCHANGED <<file, offers, hub, attested>>

(* prepare_legacy_mcp_rollback.py rewrites the same inode.                 *)
prepare == /\ "edit" \in Faults
           /\ file \in Registries
           /\ file' = LegacySafe(file)
           /\ attested' = FALSE
           /\ UNCHANGED <<offers, hub, ops, lock>>

Proceed(r) == \/ Refuse(r) \/ SkipCommit(r) \/ Read(r) \/ Snapshot(r)
              \/ \E n \in Names : Preflight(r, n) \/ PreflightFails(r, n)
              \/ Write(r) \/ WriteFails(r) \/ Restart(r)
              \/ Succeed(r) \/ Deadline(r)
              \/ Rollback(r) \/ RollbackFails(r) \/ RestartAgain(r)
              \/ Recover(r) \/ DeadlineAgain(r)

EnvironmentStep == \/ HubStops \/ Crash \/ prepare
                   \/ \E n \in Names : UpstreamChanges(n)

Next == \/ \E r \in Requests : Ask(r) \/ Acquire(r) \/ Proceed(r)
        \/ HubStep
        \/ EnvironmentStep

(* Handlers and hub go on; asyncio.Lock serves its waiters in turn.  No    *)
(* request has to be sent, no fault has to happen.                         *)
Fairness == /\ \A r \in Requests : WF_vars(Proceed(r)) /\ SF_vars(Acquire(r))
            /\ WF_vars(HubStep)

Spec == Init /\ [][Next]_vars /\ Fairness
-------------------------------------------------------------------------------
HubType == [phase : {"down", "starting", "loading", "serving"},
            read : Files, todo : SUBSET Names, owners : Owners,
            ok : BOOLEAN, sha : Files]
OpType  == [phase : Phases, job : Asked \cup {None}, entries : Registries,
            todo : SUBSET Names, expected : Owners \cup {None},
            previous : Files, answer : Answers \cup {None}]

(* Shape of the state; a handler past the lock is its only holder and has  *)
(* a job, a handler without an answer has not left.                        *)
TypeOK ==
    /\ file \in Files
    /\ offers \in [Names -> SUBSET Tools]
    /\ hub \in HubType
    /\ ops \in [Requests -> OpType]
    /\ lock \in Requests \cup {None}
    /\ attested \in BOOLEAN
    /\ \A r \in Requests : /\ ops[r].phase \in Critical <=> lock = r
                           /\ ops[r].job = None <=> At(r, "idle")
                           /\ ops[r].answer = None <=> ~At(r, "done")
                           /\ At(r, "preflight") => ops[r].expected # None

(* Once the console has had the registry attested, whatever the hub serves *)
(* from is that registry: also after the hub restarted on its own, while   *)
(* no handler has written since.  "Settled" in README.                     *)
AttestedIsServed ==
    attested /\ hub.phase = "serving" => hub.read = file /\ hub.sha = file

(* A request is answered "ok" only while the hub serves the registry it    *)
(* asked for, with at least one tool of every entry (mcp_hub_ready).       *)
OkStep == \A r \in Requests :
    ops'[r].answer = "ok" /\ ops[r].answer # "ok" =>
        /\ hub.phase = "serving"
        /\ hub.read = ops[r].entries
        /\ \A n \in DOMAIN hub.read : \E t \in Tools : hub.owners[t] = n
OkMeansServed == [][OkStep]_vars

(* Nobody waits for ever: not on the lock, not on the hub.                 *)
EveryRequestAnswered ==
    \A r \in Requests : At(r, "waiting") ~> At(r, "done")

===============================================================================
