------------------------- MODULE ConversationMonitor -------------------------
(***************************************************************************)
(* conversation_monitor.py: the policy row that the console writes and the *)
(* compat proxy reads, the capture of finished answers, the event streams  *)
(* with their replay buffers, and the table of kept conversations.         *)
(*                                                                         *)
(* The module is imported by two processes, and each has its own monitor:  *)
(* "compat" captures and reports, "console" changes the policy and lists   *)
(* the table.  They share the database only.  An event is its number: what *)
(* it carries matters to nobody here.                                      *)
(***************************************************************************)
EXTENDS Integers, Sequences, FiniteSets, SequencesExt

CONSTANTS
    None,
    Requests,      \* answers of the models, each captured at most once
    Clients,       \* readers of an event stream
    Home,          \* the process whose stream a client reads
    Bodies,        \* what administrators submit: mode, keys, capacity
    KeyOf,         \* the credential of a request
    ReplayLimit, QueueLimit,
    Faults,        \* subset of {"reads", "writes", "crash"}
    MaxVersion,    \* bound: policy changes
    MaxRestarts    \* bound: restarts

Processes == {"compat", "console"}

ASSUME MonitorAssumption ==
    /\ ReplayLimit \in Nat \ {0} /\ QueueLimit \in Nat \ {0}
    /\ Home \in [Clients -> Processes]
    /\ \A b \in Bodies : b.mode \in {"off", "stream", "persist"} /\ b.capacity \in Nat \ {0}
    /\ MaxVersion \in Nat \ {0}

VARIABLES
    row,       \* conversation_policy, id = 1
    cache,     \* self._policy of each process
    counter,   \* self._event_counter
    replay,    \* self._replay: the latest events of a process
    streams,   \* open event streams: backlog and queue of each client
    last,      \* Last-Event-ID each client would send, 0: none
    refused,   \* history: events a full queue refused since the client connected
    task,      \* the capture of each request
    records,   \* the rows of conversation_events
    tip,       \* the last seq given out: AUTOINCREMENT
    clock,     \* time of the database writes: created_ts
    horizon,   \* created_ts below it are older than ttl_days
    reader,    \* one administrator paging through the table
    restarts

vars == <<row, cache, counter, replay, streams, last, refused, task, records,
          tip, clock, horizon, reader, restarts>>
eventVars == <<counter, replay, streams, last, refused>>
tableVars == <<records, tip, clock, horizon>>

(* ---- Policy ----------------------------------------------------------- *)

Default == [mode |-> "off", keys |-> {}, capacity |-> 2, version |-> 1]

\* self._refresh_policy: a newer row replaces the cache; errors change nothing.
Refreshed(old, ok) == IF ok /\ row.version > old.version THEN row ELSE old

\* Whether the database answers.
Reads == {TRUE} \cup (IF "reads" \in Faults THEN {FALSE} ELSE {})

\* The mode for a credential.
Decision(policy, key) == IF key \in policy.keys THEN policy.mode ELSE "off"

(* ---- Events ------------------------------------------------------------ *)

Connected(c) == streams[c] # None

\* A slip: the buffer is a plain list.
Latest_All(s) == s
\* deque(maxlen=REPLAY_LIMIT)
Latest(s) == IF Len(s) > ReplayLimit THEN Tail(s) ELSE s

\* self._publish of self._event: into the buffer and every queue with room.
Publish(p) ==
    LET id == counter[p] + 1
        Hears(c) == Connected(c) /\ Home[c] = p
        Room(c) == Len(streams[c].queue) < QueueLimit
    IN /\ counter' = [counter EXCEPT ![p] = id]
       /\ replay' = [replay EXCEPT ![p] = Latest(Append(@, id))]
       /\ streams' = [c \in Clients |->
                        IF Hears(c) /\ Room(c) THEN [streams[c] EXCEPT !.queue = Append(@, id)]
                        ELSE streams[c]]
       /\ refused' = [c \in Clients |->
                        IF Hears(c) /\ ~Room(c) THEN refused[c] \cup {id} ELSE refused[c]]
       /\ UNCHANGED last

Numbered(body, version) ==
    [mode |-> body.mode, keys |-> body.keys, capacity |-> body.capacity, version |-> version]

\* A slip: the version stays.
NextPolicy_SameVersion(body) == Numbered(body, cache["console"].version)
\* The policy that was submitted, numbered after the one the console knows.
NextPolicy(body) == Numbered(body, cache["console"].version + 1)

\* PUT of the policy: the row, the cache of the console, an event on its stream.
UpdatePolicy(body) ==
    /\ row.version < MaxVersion
    /\ row' = NextPolicy(body)
    /\ cache' = [cache EXCEPT !["console"] = row']
    /\ Publish("console")
    /\ UNCHANGED <<task, tableVars, reader, restarts>>

\* GET of the policy or of the summary.
ReadPolicy(p) ==
    /\ cache' = [cache EXCEPT ![p] = Refreshed(@, TRUE)]
    /\ cache' # cache
    /\ UNCHANGED <<row, eventVars, task, tableVars, reader, restarts>>

(* ---- Capture ----------------------------------------------------------- *)

\* capture, up to its first await: the policy is read when the answer is
\* complete, the event published, and the write handed to a thread with the
\* capacity of that moment.
Capture(r) ==
    /\ task[r].at = "waiting"
    /\ \E ok \in Reads :
        LET policy == Refreshed(cache["compat"], ok)
            mode == Decision(policy, KeyOf[r])
        IN /\ cache' = [cache EXCEPT !["compat"] = policy]
           /\ \/ /\ mode = "off"
                 /\ task' = [task EXCEPT ![r] = [at |-> "skipped"]]
                 /\ UNCHANGED eventVars
              \/ /\ mode = "stream"
                 /\ task' = [task EXCEPT ![r] = [at |-> "streamed"]]
                 /\ Publish("compat")
              \/ /\ mode = "persist"
                 /\ task' = [task EXCEPT ![r] =
                        [at |-> "begun", id |-> counter["compat"] + 1,
                         capacity |-> policy.capacity]]
                 /\ Publish("compat")
    /\ UNCHANGED <<row, tableVars, reader, restarts>>

\* _persist takes the time before it has the database.
StartPersist(r) ==
    /\ task[r].at = "begun"
    /\ task' = [task EXCEPT ![r] = [at |-> "writing", id |-> @.id,
                                    capacity |-> @.capacity, ts |-> clock]]
    /\ clock' = clock + 1
    /\ UNCHANGED <<row, cache, eventVars, records, tip, horizon, reader, restarts>>

\* DELETE of all but the newest n by seq.
Kept(rows, n) == {x \in rows : Cardinality({y \in rows : y.seq > x.seq}) < n}

\* INSERT OR IGNORE: the number of an event is unique in the table.
Known(id) == \E x \in records : x.id = id
Inserted(e) == IF Known(e.id) THEN records ELSE records \cup {e}

\* The reader has to find what stays in the table while it pages.
Wanted(rows) == [reader EXCEPT !.want = {i \in reader.want : \E x \in rows : x.id = i}]

\* The INSERT and the two DELETEs, in one transaction.
Store(r) ==
    /\ task[r].at = "writing"
    /\ LET e == [seq |-> tip + 1, id |-> task[r].id, ts |-> task[r].ts, request |-> r]
       IN /\ records' = Kept({x \in Inserted(e) : x.ts >= horizon}, task[r].capacity)
          /\ tip' = IF Known(e.id) THEN tip ELSE e.seq
    /\ reader' = Wanted(records')
    /\ task' = [task EXCEPT ![r] = [at |-> "stored"]]
    /\ UNCHANGED <<row, cache, eventVars, clock, horizon, restarts>>

\* A slip: the caller forgets to look at the answer of _persist.
Failed_Silent == "streamed"
Failed == "failed"

\* The transaction fails as a whole; the caller reports it on the stream.
StoreFails(r) ==
    /\ "writes" \in Faults /\ task[r].at = "writing"
    /\ task' = [task EXCEPT ![r] = [at |-> Failed]]
    /\ UNCHANGED <<row, cache, eventVars, tableVars, reader, restarts>>

Report(r) ==
    /\ task[r].at = "failed"
    /\ task' = [task EXCEPT ![r] = [at |-> "reported"]]
    /\ Publish("compat")
    /\ UNCHANGED <<row, cache, tableVars, reader, restarts>>

\* Days pass: what was written first is over ttl_days first.
Age ==
    /\ \E r \in Requests, x \in records : task[r].at = "waiting" /\ x.ts >= horizon
    /\ \A r \in Requests : task[r].at # "writing"
    /\ horizon' = clock
    /\ UNCHANGED <<row, cache, eventVars, task, records, tip, clock, reader, restarts>>

(* ---- Streams ------------------------------------------------------------ *)

\* A slip: the event the client has is sent again.
Backlog_Inclusive(c) ==
    LET have == replay[Home[c]]
    IN SubSeq(have, Max({0} \cup {i \in DOMAIN have : have[i] < last[c]}) + 1, Len(have))
\* The events the client has not seen, as far as the buffer goes back: those
\* after the last one that is not beyond last.
Backlog(c) ==
    LET have == replay[Home[c]]
    IN SubSeq(have, Max({0} \cup {i \in DOMAIN have : have[i] <= last[c]}) + 1, Len(have))

\* The condition of the reset event; it never holds, since events that are not
\* beyond last are none that last is below.
ResetDue(c) ==
    LET have == replay[Home[c]]
    IN last[c] > 0 /\ Backlog(c) = <<>> /\ have # <<>> /\ last[c] < Head(have)

\* sse: the backlog is taken and the queue subscribed without an await between.
Stream(c) == [backlog |-> Backlog(c), queue |-> <<>>, reset |-> ResetDue(c)]

\* An authorized client connects, with the last id it has.
Connect(c) ==
    /\ ~Connected(c)
    /\ streams' = [streams EXCEPT ![c] = Stream(c)]
    /\ refused' = [refused EXCEPT ![c] = {}]
    /\ UNCHANGED <<row, cache, counter, replay, last, task, tableVars, reader, restarts>>

Pending(c) == streams[c].backlog \o streams[c].queue

\* The next event goes out, the backlog first.
Deliver(c) ==
    /\ Connected(c) /\ Pending(c) # <<>>
    /\ last' = [last EXCEPT ![c] = Head(Pending(c))]
    /\ LET s == streams[c]
       IN streams' = [streams EXCEPT ![c] =
                        IF s.backlog # <<>> THEN [s EXCEPT !.backlog = Tail(s.backlog)]
                        ELSE [s EXCEPT !.queue = Tail(s.queue)]]
    /\ UNCHANGED <<row, cache, counter, replay, refused, task, tableVars, reader, restarts>>

Disconnect(c) ==
    /\ Connected(c)
    /\ streams' = [streams EXCEPT ![c] = None]
    /\ UNCHANGED <<row, cache, counter, replay, last, refused, task, tableVars, reader, restarts>>

\* A slip: events are numbered from zero.
FirstCounter_Zero(p) == 0
\* The counter starts with the time in milliseconds: beyond all it gave out,
\* since no process publishes an event every millisecond.
FirstCounter(p) == counter[p] + 1

\* A process ends and starts again: __init__ and _init_db.
Restart(p) ==
    /\ "crash" \in Faults /\ restarts < MaxRestarts
    /\ restarts' = restarts + 1
    /\ cache' = [cache EXCEPT ![p] = row]
    /\ counter' = [counter EXCEPT ![p] = FirstCounter(p)]
    /\ replay' = [replay EXCEPT ![p] = <<>>]
    /\ streams' = [c \in Clients |-> IF Home[c] = p THEN None ELSE streams[c]]
    /\ task' = IF p = "console" THEN task
               ELSE [r \in Requests |->
                      IF task[r].at \in {"begun", "writing", "failed"}
                      THEN [at |-> "lost"] ELSE task[r]]
    /\ UNCHANGED <<row, last, refused, tableVars, reader>>

(* ---- Listing ------------------------------------------------------------ *)

\* A slip: pages in the order of insertion, the cursor by time.
PageOrder_Seq(e) == e.seq
\* ORDER BY created_ts DESC; no two records of an instance have the same time.
PageOrder(e) == e.ts

\* list_records with limit 1: the latest record before the cursor, and a new
\* cursor while there are more.
After(cursor) == {e \in records : e.ts < cursor}

StartListing ==
    /\ reader.at = "idle" /\ records # {}
    /\ reader' = [at |-> "paging", cursor |-> clock, seen |-> <<>>,
                  want |-> {x.id : x \in records}]
    /\ UNCHANGED <<row, cache, eventVars, task, tableVars, restarts>>

NextPage ==
    /\ reader.at = "paging"
    /\ LET rest == After(reader.cursor)
       IN IF rest = {} THEN reader' = [reader EXCEPT !.at = "read"]
          ELSE LET e == CHOOSE x \in rest : \A y \in rest : PageOrder(x) >= PageOrder(y)
               IN reader' = [reader EXCEPT !.seen = Append(@, e.id), !.cursor = e.ts,
                                           !.at = IF rest = {e} THEN "read" ELSE "paging"]
    /\ UNCHANGED <<row, cache, eventVars, task, tableVars, restarts>>

(* ---- Specification ------------------------------------------------------- *)

Init ==
    /\ row = Default
    /\ cache = [p \in Processes |-> Default]
    /\ counter = [p \in Processes |-> 0]
    /\ replay = [p \in Processes |-> <<>>]
    /\ streams = [c \in Clients |-> None]
    /\ last = [c \in Clients |-> 0]
    /\ refused = [c \in Clients |-> {}]
    /\ task = [r \in Requests |-> [at |-> "waiting"]]
    /\ records = {}
    /\ tip = 0
    /\ clock = 1
    /\ horizon = 0
    /\ reader = [at |-> "idle", cursor |-> 0, seen |-> <<>>, want |-> {}]
    /\ restarts = 0

Next ==
    \/ \E b \in Bodies : UpdatePolicy(b)
    \/ \E p \in Processes : ReadPolicy(p) \/ Restart(p)
    \/ \E r \in Requests :
        Capture(r) \/ StartPersist(r) \/ Store(r) \/ StoreFails(r) \/ Report(r)
    \/ \E c \in Clients : Connect(c) \/ Deliver(c) \/ Disconnect(c)
    \/ Age \/ StartListing \/ NextPage

\* Threads of the pool run, and the event loop resumes the capture after them.
Fairness ==
    \A r \in Requests :
        /\ WF_vars(StartPersist(r))
        /\ WF_vars(Store(r) \/ StoreFails(r))
        /\ WF_vars(Report(r))

Spec == Init /\ [][Next]_vars /\ Fairness

(* ---- Properties ----------------------------------------------------------- *)

Rising(s) == \A i, j \in DOMAIN s : i < j => s[i] < s[j]

\* The rows the policy can have.
Rows == {Default} \cup {Numbered(b, v) : b \in Bodies, v \in 1..MaxVersion}

\* Types: replay buffers and queues stay within their limits, and a listing, a
\* stream and a capture have the fields their state has.
TypeOK ==
    /\ row \in Rows /\ cache \in [Processes -> Rows] /\ counter \in [Processes -> Nat]
    /\ \A p \in Processes : replay[p] \in Seq(1..counter[p]) /\ Len(replay[p]) <= ReplayLimit
    /\ \A c \in Clients :
        /\ last[c] \in 0..counter[Home[c]] /\ refused[c] \subseteq 1..counter[Home[c]]
        /\ Connected(c) => /\ Pending(c) \in Seq(1..counter[Home[c]])
                           /\ Len(streams[c].queue) <= QueueLimit
                           /\ streams[c].reset \in BOOLEAN
    /\ \A r \in Requests :
        /\ task[r].at \in {"waiting", "skipped", "streamed", "begun", "writing", "stored",
                           "failed", "reported", "lost"}
        /\ task[r].at \in {"begun", "writing"} => task[r].capacity \in Nat \ {0}
    /\ \A x \in records : x.seq \in 1..tip /\ x.ts < clock /\ x.request \in Requests
    /\ horizon \in 0..clock
    /\ reader.at \in {"idle", "paging", "read"}

\* What an answer is captured as follows the policy that is in the database when
\* the answer ends, if the database can be read then or the version in the cache
\* is the present one: a key the console took off the list is not captured a
\* moment later by the other process.  One writer numbers the policies, so
\* comparing versions misses no change.
CaptureFollowsPolicy ==
    [][\A r \in Requests :
        task[r].at = "waiting" /\ task'[r].at # "waiting"
        /\ (cache["compat"].version = row.version \/ cache'["compat"] # cache["compat"])
            => task'[r].at = CASE row.mode = "off" \/ KeyOf[r] \notin row.keys -> "skipped"
                               [] OTHER -> IF row.mode = "stream" THEN "streamed" ELSE "begun"]_vars

\* A client is sent every event at most once and in order, across the backlog, the
\* live queue, reconnects and restarts of the server; and every event the buffer
\* has beyond its Last-Event-ID is on its way, except those its full queue
\* refused: nothing falls between backlog and queue.
StreamComplete ==
    \A c \in Clients : Connected(c) =>
        /\ Rising(<<last[c]>> \o Pending(c))
        /\ \A i \in DOMAIN replay[Home[c]] :
            LET id == replay[Home[c]][i]
            IN id > last[c] => id \in refused[c] \cup {Pending(c)[k] : k \in DOMAIN Pending(c)}

\* A reader that follows next_cursor sees every record that was in the table
\* when it began and still is, and none twice, whatever is written meanwhile.
ListingComplete ==
    /\ reader.at = "read" => \A i \in reader.want : \E k \in DOMAIN reader.seen : reader.seen[k] = i
    /\ IsInjective(reader.seen)

\* A write that succeeded has kept its conversation: neither the limits it
\* enforces in the same transaction nor an older event number take it away.
StoredIsKept ==
    [][\A r \in Requests :
        task[r].at = "writing" /\ task'[r].at = "stored"
            => \E x \in records' : x.request = r]_vars

\* A conversation that is to be kept is kept or reported as dropped, unless the
\* process ends.
StoredOrReported ==
    \A r \in Requests :
        task[r].at = "begun" ~> task[r].at \in {"stored", "reported", "lost"}
===============================================================================
