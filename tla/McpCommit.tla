------------------------------ MODULE McpCommit -------------------------------
(***************************************************************************)
(* What the MCP pages of the console promise: every request is either      *)
(* applied as a whole to the registry the earlier ones left, or changes    *)
(* nothing.  How the registry is stored, how the hub is restarted and what *)
(* is rolled back does not show.                                           *)
(***************************************************************************)
EXTENDS McpConfig

CONSTANTS Requests, Asked, None

VARIABLES committed,   \* the registry as the administrators see it
          asks,        \* request -> its job, None before it is sent
          verdict      \* request -> None, "ok" or "failed"

vars == <<committed, asks, verdict>>

Init == /\ committed \in Registries
        /\ asks = [r \in Requests |-> None]
        /\ verdict = [r \in Requests |-> None]

Ask(r) == /\ asks[r] = None
          /\ \E job \in Asked : asks' = [asks EXCEPT ![r] = job]
          /\ UNCHANGED <<committed, verdict>>

Open(r) == asks[r] # None /\ verdict[r] = None

Commit(r) == /\ Open(r)
             /\ ~Refused(asks[r], committed)
             /\ committed' = Edited(asks[r], committed)
             /\ verdict' = [verdict EXCEPT ![r] = "ok"]
             /\ UNCHANGED asks

Reject(r) == /\ Open(r)
             /\ verdict' = [verdict EXCEPT ![r] = "failed"]
             /\ UNCHANGED <<committed, asks>>

Next == \E r \in Requests : Ask(r) \/ Commit(r) \/ Reject(r)

Spec == Init /\ [][Next]_vars
===============================================================================
