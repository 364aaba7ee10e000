-------------------------- MODULE McpRegistryCommit ---------------------------
(***************************************************************************)
(* The console's protocol implements the all-or-nothing registry of        *)
(* McpCommit.  From the write to the attestation the candidate is in the   *)
(* file but not committed: a rollback may still take it back.              *)
(***************************************************************************)
EXTENDS McpRegistry

Undecided == lock # None /\ ops[lock].phase \in {"restart", "attest", "rollback"}

committed == ReadConf(IF Undecided THEN ops[lock].previous ELSE file)

asks == [r \in Requests |-> ops[r].job]

Verdict(answer) == CASE answer = None -> None
                     [] answer \in {"ok", "unneeded"} -> "ok"
                     [] OTHER -> "failed"

verdict == [r \in Requests |-> Verdict(ops[r].answer)]

Abstract == INSTANCE McpCommit WITH
    committed <- committed, asks <- asks, verdict <- verdict

(* Every request to the MCP pages is applied as a whole to what the earlier*)
(* ones left, or not at all (serialized_mcp_mutation and apply_mcp_conf).  *)
AtomicCommit == Abstract!Spec
===============================================================================
