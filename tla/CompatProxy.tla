----------------------------- MODULE CompatProxy -----------------------------
(***************************************************************************)
(* compat/compat_proxy.py: what the proxy makes of the requests of one     *)
(* conversation, under a policy that changes meanwhile, and how it passes  *)
(* an answer on: line by line, corrected, and with a copy for the monitor. *)
(*                                                                         *)
(* The parts share no state: "traffic" tells which of them a behaviour is  *)
(* about (the start of the processes, requests, an answer, tool results).  *)
(***************************************************************************)
EXTENDS ContextPolicy, ContextOptimizer

CONSTANTS
    Remarks,       \* messages a conversation may go on with
    MaxTalk,       \* bound: messages of a conversation
    Asks,          \* shapes of requests: forced, tools, calls
    Lines,         \* lines of an event stream: what Happens to each choice
    MaxLines,      \* bound: lines of an answer
    MaxChunk,      \* bound: pieces of a chunk, a line and its end being two
    LineBytes, CaptureLimit,
    Probes         \* inputs of the rules for tool results

\* What a message may have: images, text that the text rules leave or take.
Kinds == {"text", "image", "noise"}

\* What a line does to a choice: text or fragments of a call, the reason "stop".
Happens == {"text", "tool", "stop", "toolAndStop"}

ASSUME TalkAssumption == \A m \in Remarks : m.kinds \in Seq(Kinds)
ASSUME ProbeAssumption ==
    Probes \subseteq [lines : Seq(Nat), minimum : Nat, marker : Nat,
                      max : Nat, head : Nat, tail : Nat]
ASSUME AnswerAssumption ==
    /\ Lines \subseteq Seq(Happens)
    /\ MaxLines \in Nat /\ MaxChunk \in Nat
    /\ LineBytes \in Nat \ {0} /\ CaptureLimit \in Nat

VARIABLES
    traffic,       \* what the behaviour is about
    talk,          \* the messages of the conversation so far
    sent,          \* the last request: its body as forwarded, and why
    answer,        \* the request and answer under way
    probe          \* an input of the text rules

proxyVars == <<talk, sent, answer, probe>>
vars == <<policyVars, traffic, proxyVars>>

(* ---- Requests --------------------------------------------------------------- *)

\* The conversation goes on; clients send all of it each time.
Say(m) ==
    /\ traffic = "requests" /\ Len(talk) < MaxTalk
    /\ talk' = Append(talk, [role |-> m.role,
         parts |-> [k \in DOMAIN m.kinds |-> [kind |-> m.kinds[k], at |-> <<Len(talk) + 1, k>>]]])
    /\ UNCHANGED <<policyVars, traffic, sent, answer, probe>>

Canary(config) == config.listed /\ config.mode # "off"

\* The body that is forwarded: system messages first, then text, then images.
Forwarded(msgs, config) ==
    LET normal == Normalized(msgs)
        text == IF Canary(config) THEN Shortened(normal) ELSE normal
    IN Evicted(text, Plan(normal, config, Canary(config)))

\* compat_proxy, up to the call of LiteLLM.
Send ==
    /\ traffic = "requests" /\ Ready("compat") /\ talk # <<>>
    /\ known' = [known EXCEPT !["compat"] = Lookup("compat")]
    /\ checked' = [checked EXCEPT !["compat"] = TRUE]
    /\ LET config == known'["compat"]
           body == Forwarded(talk, config)
       IN sent' = [upto |-> Len(talk), config |-> config, body |-> body,
                   rewritten |-> HasSystem(talk) \/ body # Normalized(talk)]
    /\ UNCHANGED <<columns, stored, proc, traffic, talk, answer, probe>>

(* ---- Answers ------------------------------------------------------------------ *)

NoAnswer == [at |-> "none"]

\* rewrite_forced_tool_choice and normalize_dsml_history, then the call: more
\* than one tool to be forced is answered with 400, a LiteLLM that cannot be
\* reached with 502; neither is captured.
Ask(a) ==
    /\ traffic = "answers" /\ answer = NoAnswer
    /\ \E at \in IF Rejected(a.forced, a.tools) THEN {"rejected"}
                 ELSE {"unreachable", "asked"} :
            answer' = [at |-> at, calls |-> NormalHistory(a.calls), captures |-> 0]
    /\ UNCHANGED <<policyVars, traffic, talk, sent, probe>>

\* A JSON answer is read to its end, its calls in DSML turned into JSON.
AnswerJson(calls) ==
    /\ answer.at = "asked"
    /\ answer' = [at |-> "answered", calls |-> NormalHistory(calls),
                  captures |-> answer.captures + 1]
    /\ UNCHANGED <<policyVars, traffic, talk, sent, probe>>

\* An upstream that breaks off in one: the error leaves the handler.
BreakJson ==
    /\ answer.at = "asked"
    /\ answer' = [answer EXCEPT !.at = "failed"]
    /\ UNCHANGED <<policyVars, traffic, talk, sent, probe>>

NewLine == <<"newline">>

\* The bytes of a stream of lines: each line, and what ends it; the last line
\* may have no end.
Pieces(lines, ended) ==
    [k \in 1..(IF ended THEN 2 * Len(lines) ELSE 2 * Len(lines) - 1) |->
        IF k % 2 = 1 THEN lines[(k + 1) \div 2] ELSE NewLine]

\* Streams start before their content is known; it is chosen here.
AnswerStream(lines, ended) ==
    /\ answer.at = "asked" /\ lines # <<>>
    /\ answer' = [at |-> "streaming", lines |-> lines, rest |-> Pieces(lines, ended),
                  chunk |-> <<>>, buf |-> <<>>, saw |-> {}, out |-> <<>>,
                  captured |-> 0, truncated |-> FALSE, captures |-> 0]
    /\ UNCHANGED <<policyVars, traffic, talk, sent, probe>>

\* A slip: fragments of any choice count for all.
Seen_Any(saw, line) == IF \E i \in DOMAIN line : line[i] = "tool" THEN 1..9 ELSE saw
\* The choices that have sent fragments of a call.
Seen(saw, line) == saw \cup {i \in DOMAIN line : line[i] \in {"tool", "toolAndStop"}}

\* OpenAIStreamFixer.process_line
Fixed(line, saw) ==
    [i \in DOMAIN line |-> IF line[i] \in {"stop", "toolAndStop"} /\ i \in saw
                           THEN "toolCalls" ELSE line[i]]

Cut(captured) == captured + LineBytes > CaptureLimit

\* _captured_stream: one line goes to the client, and a copy as far as there is room.
Yielded(a, line) ==
    LET saw == Seen(a.saw, line)
    IN [a EXCEPT !.saw = saw, !.out = Append(a.out, Fixed(line, saw)),
                 !.truncated = a.truncated \/ Cut(a.captured),
                 !.captured = IF Cut(a.captured) THEN CaptureLimit ELSE a.captured + LineBytes]

\* A chunk of n pieces arrives when the lines of the one before have gone out.
Receive(n) ==
    /\ answer.at = "streaming" /\ answer.chunk = <<>> /\ n <= Len(answer.rest)
    /\ answer' = [answer EXCEPT !.chunk = SubSeq(answer.rest, 1, n),
                                !.rest = SubSeq(answer.rest, n + 1, Len(answer.rest))]
    /\ UNCHANGED <<policyVars, traffic, talk, sent, probe>>

\* _LineSplitter.feed: what follows the last line end is kept.
Buffer ==
    /\ answer.at = "streaming" /\ answer.chunk # <<>> /\ Head(answer.chunk) # NewLine
    /\ answer' = [answer EXCEPT !.buf = <<Head(answer.chunk)>>,
                                !.chunk = Tail(answer.chunk)]
    /\ UNCHANGED <<policyVars, traffic, talk, sent, probe>>

\* And a line goes out with its end.
Yield ==
    /\ answer.at = "streaming" /\ answer.chunk # <<>> /\ Head(answer.chunk) = NewLine
    /\ answer' = [Yielded(answer, answer.buf[1])
                    EXCEPT !.buf = <<>>, !.chunk = Tail(answer.chunk)]
    /\ UNCHANGED <<policyVars, traffic, talk, sent, probe>>

\* _LineSplitter.flush
Flushed(a) == IF a.buf = <<>> THEN a ELSE [Yielded(a, a.buf[1]) EXCEPT !.buf = <<>>]

\* The upstream ends, and what was passed on is captured.
Finish ==
    /\ answer.at = "streaming" /\ answer.chunk = <<>> /\ answer.rest = <<>>
    /\ answer' = [Flushed(answer) EXCEPT !.at = "finished", !.captures = answer.captures + 1]
    /\ UNCHANGED <<policyVars, traffic, talk, sent, probe>>

\* The client goes away or the upstream breaks off: the generator is closed, and
\* its finally block captures.
BreakOff ==
    /\ answer.at = "streaming"
    /\ answer' = [answer EXCEPT !.at = "broken", !.captures = answer.captures + 1]
    /\ UNCHANGED <<policyVars, traffic, talk, sent, probe>>

(* ---- Specification --------------------------------------------------------------- *)

Init ==
    /\ traffic \in {"start", "requests", "answers", "texts"}
    /\ IF traffic = "start" THEN PolicyInit ELSE PolicySettled
    /\ talk = <<>>
    /\ sent = None
    /\ answer = NoAnswer
    /\ IF traffic = "texts" THEN probe \in Probes ELSE probe = None

StreamsOf == UNION {[1..n -> Lines] : n \in 1..MaxLines}

Next ==
    \/ /\ traffic \in {"start", "requests"}
       /\ PolicyNext
       /\ UNCHANGED <<traffic, proxyVars>>
    \/ Send
    \/ \E m \in Remarks : Say(m)
    \/ \E a \in Asks : Ask(a) \/ AnswerJson(a.calls)
    \/ BreakJson
    \/ \E s \in StreamsOf, ended \in BOOLEAN : AnswerStream(s, ended)
    \/ \E n \in 1..MaxChunk : Receive(n)
    \/ Buffer \/ Yield \/ Finish \/ BreakOff

\* A container is started again until the process runs.
Spec ==
    /\ Init /\ [][Next]_vars
    /\ \A p \in Processes :
        WF_vars(traffic = "start" /\ Starting(p) /\ UNCHANGED <<traffic, proxyVars>>)

(* ---- Properties ---------------------------------------------------------------------- *)

\* Two processes that create or migrate the table at once both run in the end,
\* however their statements interleave.
EveryoneStarts == \A p \in Processes : (traffic = "start") ~> Ready(p)

\* The process that added the last column is about to seed the columns.
Migrating(p) == proc[p].at = "altering" /\ proc[p].late /\ proc[p].missing = {}
Migrated == columns = ImageColumns /\ \A p \in Processes : ~Migrating(p)

\* Once there is a row, no start changes its version, its mode or its list of
\* credentials. Its image fields it can overwrite only before the migration is
\* over, also with those an administrator has set meanwhile (README.md tells how);
\* afterwards, for good, nothing but the next change of the policy alters the row,
\* however late a process starts.
StartKeepsPolicy ==
    [][stored # None =>
        /\ stored' # None
        /\ \/ stored'.version = stored.version + 1
           \/ /\ stored'.version = stored.version
              /\ stored'.mode = stored.mode /\ stored'.listed = stored.listed
        /\ Migrated =>
            /\ Migrated'
            /\ stored' = stored \/ stored'.version = stored.version + 1]_vars

\* What a process has read less than a second ago was the policy in the database,
\* also after a migration that changed the row and not its version.
CacheConverges ==
    [][\A p \in Processes :
        Ready(p) /\ ~checked[p] /\ checked'[p] => known'[p] = stored']_vars

\* No request exceeds the limit of its model while the rule is on, a listed
\* credential gets no more than keep_last beside the images just shown, and those
\* are touched only when the limit cannot be met otherwise, and no more of them
\* than that takes. Of either kind the oldest go first.
ImagesRight ==
    sent # None =>
        LET config == sent.config
            normal == Normalized(SubSeq(talk, 1, sent.upto))
            left == Images(sent.body)
            gone == Images(normal) \ left
            shown == {at \in Images(normal) : at[1] = LastOf("user", normal)}
        IN /\ left \subseteq Images(normal)
           /\ \A x \in gone, y \in left : (x \in shown <=> y \in shown) => Older(x, y)
           /\ IF config.limit = 0 \/ (~Canary(config) /\ ~config.guard) THEN gone = {}
              ELSE /\ Cardinality(left) <= config.limit
                   /\ Canary(config) /\ gone # {} =>
                        left \subseteq shown \/ Cardinality(left) <= config.keep
                   /\ gone \cap shown # {} =>
                        left \subseteq shown /\ Cardinality(left) = config.limit

\* The parts of a conversation by their origin, and what a request has lost.
Parts(msgs) == UNION {{msgs[i].parts[k] : k \in DOMAIN msgs[i].parts} : i \in DOMAIN msgs}
Gone == {part.at : part \in {x \in Parts(sent.body) : x.kind = "placeholder"}}

\* Nothing has an image after what the user said last.
ShownLast(msgs) ==
    LET normal == Normalized(msgs)
    IN \A at \in Images(normal) : at[1] <= LastOf("user", normal)

\* As a conversation goes on under one policy, an image that was replaced stays
\* replaced: the requests keep a common beginning for the caches of the models.
\* This needs conversations whose tools return no images after the last user
\* message; README.md tells what happens otherwise.
EvictionMonotone ==
    [][sent # None /\ sent' # None /\ sent.config = sent'.config
       /\ ShownLast(SubSeq(talk, 1, sent.upto)) /\ ShownLast(SubSeq(talk, 1, sent'.upto))
            => Gone \subseteq Gone']_vars

\* Normalisation against its definition: all messages but system ones keep their
\* order, and each carries the system messages between it and the next user
\* message; the first system message before any user message becomes its like.
\* Parts keep the order they had in the conversation, and none is lost.
NormalizedRight ==
    LET out == Normalized(talk)
        IsUser(i) == talk[i].role \in {"user", "system"}
        heads == {i \in DOMAIN talk : talk[i].role # "system"
                                      \/ \A j \in 1..i - 1 : ~IsUser(j)}
        Joined(i) == {i} \cup {j \in DOMAIN talk : IsUser(i) /\ j > i /\ talk[j].role = "system"
                        /\ \A k \in i + 1..j : talk[k].role # "user"}
    IN /\ Len(out) = Cardinality(heads)
       /\ \A i \in heads :
            LET msg == out[Cardinality({h \in heads : h <= i})]
            IN /\ msg.role = IF talk[i].role = "system" THEN "user" ELSE talk[i].role
               /\ Range(msg.parts) = UNION {Range(talk[j].parts) : j \in Joined(i)}
               /\ \A k, l \in DOMAIN msg.parts :
                    k < l => Older(msg.parts[k].at, msg.parts[l].at)

\* A client gets every line of an answer, however the chunks cut it, with
\* finish_reason corrected exactly for the choices that have sent fragments (a
\* choice is its position in the line, as for the fixer; README.md says where its
\* index would tell something else); the monitor gets a copy of it as far as it was
\* passed on and there is room. It gets each answer once, also one that was broken
\* off, but for JSON that was; and no arguments in DSML are passed on in JSON.
AnswerRight ==
    /\ answer.at \in {"asked", "answered"} => "dsml" \notin Range(answer.calls)
    /\ answer # NoAnswer =>
        answer.captures = IF answer.at \in {"answered", "finished", "broken"} THEN 1 ELSE 0
    /\ answer.at \in {"streaming", "finished", "broken"} =>
        LET Stops(c) == c \in {"stop", "toolAndStop"}
            Right(k, i) ==
                LET line == answer.lines[k]
                IN IF Stops(line[i])
                      /\ \E j \in 1..k : i \in DOMAIN answer.lines[j]
                                         /\ answer.lines[j][i] \in {"tool", "toolAndStop"}
                   THEN "toolCalls" ELSE line[i]
            bytes == LineBytes * Len(answer.out)
        IN /\ answer.out = [k \in 1..Len(answer.out) |->
                              [i \in DOMAIN answer.lines[k] |-> Right(k, i)]]
           /\ answer.at = "finished" => Len(answer.out) = Len(answer.lines)
           /\ answer.captured = (IF bytes < CaptureLimit THEN bytes ELSE CaptureLimit)
           /\ answer.truncated <=> bytes > CaptureLimit

\* Numbers added up, and pairs of a line and its count written out.
Total(numbers) ==
    LET upto[n \in 0..Len(numbers)] == IF n = 0 THEN 0 ELSE upto[n - 1] + numbers[n]
    IN upto[Len(numbers)]
Unfolded(folded) ==
    LET upto[n \in 0..Len(folded)] ==
          IF n = 0 THEN <<>> ELSE upto[n - 1] \o [k \in 1..folded[n][2] |-> folded[n][1]]
    IN upto[Len(folded)]

\* Folded lines can be told back from their counts, and no tool result grows: a
\* cut never keeps the same bytes in its head and in its tail.
TextRulesShrink ==
    probe # None =>
        LET folded == Folded(probe.lines, probe.minimum, probe.marker)
            Bytes(f) == IF f[2] = 1 THEN f[1] + 1 ELSE f[1] + probe.marker + 1
            before == Total([k \in DOMAIN probe.lines |-> probe.lines[k] + 1])
            after == Total([k \in DOMAIN folded |-> Bytes(folded[k])])
            cut == Truncated(after, probe.max, probe.head, probe.tail, probe.marker)
        IN /\ Unfolded(folded) = probe.lines
           /\ after <= before
           /\ cut.head + cut.tail <= after
           /\ after > probe.max /\ cut.tail > 0 => cut.head + cut.tail + probe.marker < after
===============================================================================
