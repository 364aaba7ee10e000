---------------------------- MODULE MCCompatProxy ----------------------------
(* Instances of CompatProxy for TLC. *)
EXTENDS CompatProxy

Config(mode, limit, keep, guard) ==
    [mode |-> mode, listed |-> TRUE, limit |-> limit, keep |-> keep, guard |-> guard]

EnvPolicy == Config("off", 2, 1, TRUE)
OldRows   == {None, Config("safe", 0, 8, TRUE)}

\* Off, on, on with image fields of an older client, and without the guard.
SomeUpdates ==
    {Config("bounded", 1, 1, TRUE), Config("off", 2, 2, FALSE),
     [mode |-> "safe", listed |-> TRUE, limit |-> None, keep |-> None, guard |-> None]}

Remark(role, kinds) == [role |-> role, kinds |-> kinds]
SomeRemarks ==
    {Remark("user", <<"text">>), Remark("user", <<"image">>), Remark("user", <<"image", "image">>),
     Remark("system", <<"text">>),
     Remark("tool", <<"image">>), Remark("tool", <<"noise">>)}

SomeAsks ==
    [forced : BOOLEAN, tools : 0..2,
     calls : {<<>>} \cup {<<k>> : k \in ArgumentKinds}]

SomeLines == {<<>>, <<"tool">>, <<"stop">>, <<"tool", "text">>, <<"text", "stop">>,
              <<"toolAndStop", "stop">>}

\* Lines of 0, 1 and 6 bytes, markers of 3, limits around the sizes of the texts.
SomeProbes ==
    [lines : UNION {[1..n -> {0, 1, 6}] : n \in 0..4}, minimum : {2, 3}, marker : {3},
     max : {4, 9}, head : {0, 3, 7}, tail : {0, 3, 7}]
===============================================================================
