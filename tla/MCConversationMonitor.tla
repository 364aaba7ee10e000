------------------------ MODULE MCConversationMonitor ------------------------
(* Instances of ConversationMonitor for TLC. *)
EXTENDS ConversationMonitor

CONSTANTS collector, key, r1, r2

\* The collector reads the stream of the compat proxy.
OneHome == [c \in Clients |-> "compat"]

\* Everything a change of the policy can mean to a credential.
SomeBodies ==
    {[mode |-> "persist", keys |-> {key}, capacity |-> 1],
     [mode |-> "persist", keys |-> {key}, capacity |-> 2],
     [mode |-> "stream", keys |-> {key}, capacity |-> 2],
     [mode |-> "persist", keys |-> {}, capacity |-> 2]}

OneKey == [r \in Requests |-> key]
===============================================================================
