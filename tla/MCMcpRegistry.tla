---------------------------- MODULE MCMcpRegistry -----------------------------
(* Instances of McpRegistry for TLC. *)
EXTENDS McpRegistryCommit, TLC

CONSTANTS search, reader,   \* two MCP servers
          home, family,     \* two groups
          t1, t2            \* two tools

OneServer  == {search}
TwoServers == {search, reader}
OneGroup   == {home}
TwoGroups  == {home, family}

Register(n, gs)  == [op |-> "register", name |-> n, groups |-> gs]
SetGroups(n, gs) == [op |-> "groups", name |-> n, groups |-> gs]
Remove(n)        == [op |-> "remove", name |-> n]
Rename(g, h)     == [op |-> "rename", from |-> g, to |-> h]

JobsOnOne == {Register(search, {home}), SetGroups(search, {}), Remove(search)}
JobsOnTwo == {Register(search, {home}), SetGroups(reader, {home}),
              Remove(search), Rename(home, family)}

\* The search server is up or down; the reader may expose the same tool.
UpOrDown == [n \in Names |-> {{}, {t1}}]
Claims   == search :> {{}, {t1}} @@ reader :> {{t1}, {t2}}
===============================================================================
