--------------------------- MODULE ContextOptimizer ---------------------------
(***************************************************************************)
(* The pure rules a request passes in the compat proxy: inline system      *)
(* messages, forced tools, arguments in DSML, the removal of old images    *)
(* and the shortening of tool results (compat_proxy.py,                    *)
(* context_optimizer.py).                                                  *)
(*                                                                         *)
(* A message is a role and a sequence of parts; a part is a kind ("text",  *)
(* "image") and its origin <<message, part>> in the conversation, so that  *)
(* parts keep their identity when messages are merged.                     *)
(***************************************************************************)
EXTENDS Integers, Sequences, FiniteSets, SequencesExt

(* ---- Inline system messages --------------------------------------------- *)

\* The last message of a role in a sequence of messages, 0: none.
LastOf(role, msgs) ==
    LET at == {i \in DOMAIN msgs : msgs[i].role = role}
    IN IF at = {} THEN 0 ELSE CHOOSE i \in at : \A j \in at : j <= i

\* A slip: the blocks go to the last message, whoever said it.
Target_Last(out) == Len(out)
\* Where a system message goes: the user message before it.
Target(out) == LastOf("user", out)

\* One step of normalize_anthropic_messages.
Placed(out, msg) ==
    IF msg.role # "system" THEN Append(out, msg)
    ELSE IF Target(out) > 0
         THEN [out EXCEPT ![Target(out)].parts = out[Target(out)].parts \o msg.parts]
    ELSE Append(out, [role |-> "user", parts |-> msg.parts])

Normalized(msgs) ==
    LET upto[n \in 0..Len(msgs)] == IF n = 0 THEN <<>> ELSE Placed(upto[n - 1], msgs[n])
    IN upto[Len(msgs)]
HasSystem(msgs) == \E i \in DOMAIN msgs : msgs[i].role = "system"

(* ---- Forced tools and DSML ------------------------------------------------ *)

\* rewrite_forced_tool_choice: a choice among several tools cannot be forced; one
\* tool is forced by its name.
Rejected(forced, tools) == forced /\ tools > 1

\* Arguments of a call: JSON, DSML markup with an invoke in it, other text.
ArgumentKinds == {"json", "dsml", "text"}

\* _normalize_dsml_arguments
NormalArguments(kind) == IF kind = "dsml" THEN "json" ELSE kind
NormalHistory(calls) == [i \in DOMAIN calls |-> NormalArguments(calls[i])]

(* ---- Images ---------------------------------------------------------------- *)

\* _collect_image_refs: the places of the images, a message and a part of it.
Images(msgs) ==
    {at \in UNION {{i} \X DOMAIN msgs[i].parts : i \in DOMAIN msgs} :
        msgs[at[1]].parts[at[2]].kind = "image"}

\* Places follow one another as in the conversation.
Older(x, y) == x[1] < y[1] \/ (x[1] = y[1] /\ x[2] < y[2])

\* A slip: the latest images go first.
Oldest_Latest(ats, n) == {x \in ats : Cardinality({y \in ats : Older(x, y)}) < n}
\* The n oldest images, all if there are fewer.
Oldest(ats, n) == {x \in ats : Cardinality({y \in ats : Older(y, x)}) < n}

\* A slip: what the quality target leaves is not compared with the limit.
StillOver_Target(total, chosen, limit) == 0
\* How many images of the last user message have to go as well.
StillOver(total, chosen, limit) == (total - chosen) - limit

\* plan_image_eviction: the images to replace; canary tells that the credential
\* is listed in a mode other than off.
Plan(msgs, config, canary) ==
    LET refs == Images(msgs)
        total == Cardinality(refs)
        protected == {at \in refs : at[1] = LastOf("user", msgs)}
        target == IF canary /\ config.keep < config.limit THEN config.keep ELSE config.limit
        chosen == Oldest(refs \ protected, total - target)
    IN IF (~canary /\ ~config.guard) \/ config.limit = 0 \/ total <= config.limit THEN {}
       ELSE chosen \cup Oldest(protected, StillOver(total, Cardinality(chosen), config.limit))

\* apply_image_evictions: placeholders in their place.
Evicted(msgs, plan) ==
    [i \in DOMAIN msgs |-> [msgs[i] EXCEPT !.parts =
        [k \in DOMAIN msgs[i].parts |->
            IF <<i, k>> \in plan THEN [msgs[i].parts[k] EXCEPT !.kind = "placeholder"]
            ELSE msgs[i].parts[k]]]]

(* ---- Tool results ------------------------------------------------------------ *)

\* JSON, code and placeholders ("text") are left alone, unlike other output.
Rewritable(kind) == kind = "noise"
\* _transform_text looks at the text of tool results only.
Shortens(role, kind) == role = "tool" /\ Rewritable(kind)

\* _transform: the text rules over the whole body.
Shortened(msgs) ==
    [i \in DOMAIN msgs |-> [msgs[i] EXCEPT !.parts =
        [k \in DOMAIN msgs[i].parts |->
            IF Shortens(msgs[i].role, msgs[i].parts[k].kind)
            THEN [msgs[i].parts[k] EXCEPT !.kind = "short"] ELSE msgs[i].parts[k]]]]

\* _fold_repeated_lines: equal lines in a row become one with a marker, if that
\* is shorter.  A line is its length in bytes (equal lengths: equal lines).
RunFrom(lines, i) ==
    LET ends == {j \in i..Len(lines) : \A k \in i..j : lines[k] = lines[i]}
    IN CHOOSE j \in ends : \A k \in ends : k <= j

\* A slip: one marker for every count, no comparison.
Folds_Always(size, count, minimum, marker) == size > 0 /\ count >= minimum
Folds(size, count, minimum, marker) ==
    size > 0 /\ count >= minimum /\ size + marker + 1 < count * (size + 1)

\* One round of its loop: the line at index, or the run it begins, goes out as a
\* pair of the line and how often it stands for itself.
FoldRound(lines, minimum, marker, loop) ==
    LET size == lines[loop.index]
        count == IF size = 0 THEN 1 ELSE RunFrom(lines, loop.index) - loop.index + 1
        taken == IF Folds(size, count, minimum, marker) THEN count ELSE 1
    IN IF loop.index > Len(lines) THEN loop
       ELSE [index |-> loop.index + taken, out |-> Append(loop.out, <<size, taken>>)]

Folded(lines, minimum, marker) ==
    LET after[n \in 0..Len(lines)] ==
          IF n = 0 THEN [index |-> 1, out |-> <<>>]
          ELSE FoldRound(lines, minimum, marker, after[n - 1])
    IN after[Len(lines)].out

\* _truncate: how many bytes of the start and the end are kept, all if the
\* result would not be shorter.
Truncated(bytes, max, head, tail, marker) ==
    LET cut(n) == IF n < bytes THEN n ELSE bytes
    IN IF bytes <= max \/ cut(head) + marker + cut(tail) >= bytes
       THEN [head |-> bytes, tail |-> 0]
       ELSE [head |-> cut(head), tail |-> cut(tail)]
===============================================================================
