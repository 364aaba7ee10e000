------------------------------ MODULE McpConfig -------------------------------
(***************************************************************************)
(* The registry of external MCP servers (external-mcp.json) as the console *)
(* edits it: a function from registered names to the groups an entry is    *)
(* bound to, the empty set standing for "global".  Url, credential and     *)
(* prefix of a name do not change here; the order of the entries is left   *)
(* out.                                                                    *)
(***************************************************************************)
EXTENDS Functions

CONSTANTS Names,   \* names of external MCP servers
          Groups   \* groups an entry can be bound to, without "default"

Registries == UNION {[S -> SUBSET Groups] : S \in SUBSET Names}

NoEntries == [n \in {} |-> {}]

(* What an administrator may ask for. *)
Jobs == [op : {"register", "groups"}, name : Names, groups : SUBSET Groups]
          \cup [op : {"remove"}, name : Names]
          \cup [op : {"rename"}, from : Groups, to : Groups]

Bound(g, registry) == \E n \in DOMAIN registry : g \in registry[n]

(* The handler answers 400, 404 or 409 and changes nothing. *)
Refused(job, registry) ==
    CASE job.op = "register" -> job.name \in DOMAIN registry
      [] job.op = "rename"   -> job.from = job.to \/ Bound(job.to, registry)
      [] OTHER               -> job.name \notin DOMAIN registry

With(name, groups, registry) ==
    [n \in DOMAIN registry \cup {name} |->
        IF n = name THEN groups ELSE registry[n]]

Renamed(from, to, registry) ==
    [n \in DOMAIN registry |->
        IF from \in registry[n] THEN (registry[n] \ {from}) \cup {to}
                                ELSE registry[n]]

(* The registry after the job. *)
Edited(job, registry) ==
    CASE job.op = "remove" -> Restrict(registry, DOMAIN registry \ {job.name})
      [] job.op = "rename" -> Renamed(job.from, job.to, registry)
      [] OTHER             -> With(job.name, job.groups, registry)

(* prepare_legacy_mcp_rollback.py keeps the unbound entries only. *)
LegacySafe(registry) ==
    Restrict(registry, {n \in DOMAIN registry : registry[n] = {}})
===============================================================================
