---------------------------- MODULE ContextPolicy ----------------------------
(***************************************************************************)
(* The policy of the context optimization (conversation_monitor.py): one   *)
(* row that both processes create or migrate when they start, that the     *)
(* console changes, and that the compat proxy reads through a cache of one *)
(* second.  Each statement that SQLite commits by itself is a step.        *)
(***************************************************************************)
EXTENDS Integers

CONSTANTS
    None,
    Env,           \* the policy the environment variables describe
    Before,        \* rows an older version may have left, None: a new database
    Updates,       \* what administrators submit; an image field may be None
    MaxVersion     \* bound: changes of the policy

Processes == {"compat", "console"}

\* max_images of the model: what is no valid limit is dropped, and reads as 0.
Limits == Nat

\* A configuration: mode, whether the credential of the requests is listed, and
\* the image rules: max_images, keep_last, guard.
Configs == [mode : {"off", "safe", "bounded"}, listed : BOOLEAN,
            limit : Limits, keep : Nat \ {0}, guard : BOOLEAN]

\* A row of the table.
Row(config, version) ==
    [mode |-> config.mode, listed |-> config.listed, limit |-> config.limit,
     keep |-> config.keep, guard |-> config.guard, version |-> version]
Rows == [mode : {"off", "safe", "bounded"}, listed : BOOLEAN, limit : Limits,
         keep : Nat \ {0}, guard : BOOLEAN, version : Nat \ {0}]

ASSUME PolicyAssumption ==
    /\ Env \in Configs
    /\ Before \subseteq Configs \cup {None}
    /\ Updates \subseteq [mode : {"off", "safe", "bounded"}, listed : BOOLEAN,
                         limit : Limits \cup {None}, keep : (Nat \ {0}) \cup {None},
                         guard : BOOLEAN \cup {None}]
    /\ None \notin Rows
    /\ MaxVersion \in Nat \ {0}

VARIABLES
    columns,   \* image columns the table has
    stored,    \* the row: a configuration and its version
    proc,      \* how far each process has started
    known,     \* self._context_policy
    checked    \* whether the cache was read less than a second ago

policyVars == <<columns, stored, proc, known, checked>>

ImageColumns == {"limit", "keep", "guard"}

\* They are added in this order.
NextColumn(missing) ==
    IF "limit" \in missing THEN "limit" ELSE IF "keep" \in missing THEN "keep" ELSE "guard"

\* The defaults of the columns.
Unset(row) == [row EXCEPT !.limit = 0, !.keep = 8, !.guard = TRUE]

\* A process that is not adding columns; late: it found some missing.
Here(at) == [at |-> at, missing |-> {}, late |-> FALSE]
Down == Here("down")
Ready(p) == proc[p].at = "ready"

\* A slip: the process tries the same statement again.
Failed_Retries(p) == proc[p]
\* An exception while the module is imported: the container is started again.
Failed(p) == Down

\* The tables are there, all columns in a new database.
PolicyInit ==
    /\ \E row \in Before :
        /\ columns = IF row = None THEN ImageColumns ELSE {}
        /\ stored = IF row = None THEN None ELSE Unset(Row(row, 1))
    /\ proc = [p \in Processes |-> Down]
    /\ known = [p \in Processes |-> Row(Env, 1)]
    /\ checked = [p \in Processes |-> FALSE]

\* Both processes run, long after their start.
PolicySettled ==
    /\ columns = ImageColumns
    /\ stored = Row(Env, 1)
    /\ proc = [p \in Processes |-> Here("ready")]
    /\ known = [p \in Processes |-> stored]
    /\ checked = [p \in Processes |-> FALSE]

\* PRAGMA table_info: the columns this process is going to add.
Start(p) ==
    /\ proc[p].at = "down"
    /\ LET missing == ImageColumns \ columns
       IN proc' = [proc EXCEPT ![p] =
                    [at |-> "altering", missing |-> missing, late |-> missing # {}]]
    /\ known' = [known EXCEPT ![p] = Row(Env, 1)]
    /\ checked' = [checked EXCEPT ![p] = FALSE]
    /\ UNCHANGED <<columns, stored>>

\* ALTER TABLE fails if the column is there by now.
AddColumn(p) ==
    /\ proc[p].at = "altering" /\ proc[p].missing # {}
    /\ LET c == NextColumn(proc[p].missing)
       IN /\ columns' = columns \cup {c}
          /\ proc' = [proc EXCEPT ![p] =
                        IF c \in columns THEN Failed(p)
                        ELSE [at |-> "altering", missing |-> @.missing \ {c}, late |-> TRUE]]
    /\ UNCHANGED <<stored, known, checked>>

\* The values of the environment, as the first values of the new columns; the
\* version stays.
Seed(row) == [row EXCEPT !.limit = Env.limit, !.keep = Env.keep, !.guard = Env.guard]

\* UPDATE and SELECT of the row in one transaction; no row: it will be inserted.
LoadRow(p) ==
    /\ proc[p].at = "altering" /\ proc[p].missing = {}
    /\ stored' = IF stored # None /\ proc[p].late THEN Seed(stored) ELSE stored
    /\ known' = IF stored = None THEN known ELSE [known EXCEPT ![p] = stored']
    /\ proc' = [proc EXCEPT ![p] = Here(IF stored = None THEN "inserting" ELSE "ready")]
    /\ UNCHANGED <<columns, checked>>

\* A slip: the row is written with INSERT OR REPLACE.
InsertRow_Replaces(p) == stored' = Row(Env, 1)
\* INSERT with id = 1: fails if the other process was first.
InsertRow(p) == stored' = IF stored = None THEN Row(Env, 1) ELSE stored

CreateRow(p) ==
    /\ proc[p].at = "inserting"
    /\ InsertRow(p)
    /\ proc' = [proc EXCEPT ![p] = IF stored = None THEN Here("ready") ELSE Failed(p)]
    /\ UNCHANGED <<columns, known, checked>>

\* update_context_optimization_policy: fields that were not sent are those the
\* console knows, the version is that of the database plus one.
NextContext(body) ==
    LET kept == known["console"]
    IN [mode |-> body.mode, listed |-> body.listed,
        limit |-> IF body.limit = None THEN kept.limit ELSE body.limit,
        keep |-> IF body.keep = None THEN kept.keep ELSE body.keep,
        guard |-> IF body.guard = None THEN kept.guard ELSE body.guard,
        version |-> stored.version + 1]

\* PUT of the policy.
Update(body) ==
    /\ Ready("console") /\ stored.version < MaxVersion
    /\ stored' = NextContext(body)
    /\ known' = [known EXCEPT !["console"] = stored']
    /\ checked' = [checked EXCEPT !["console"] = TRUE]
    /\ UNCHANGED <<columns, proc>>

\* A slip: only a higher version replaces what is known.
Fresher_Higher(row, old) == row.version > old.version
Fresher(row, old) == row.version >= old.version

\* context_optimization_policy: what the process works with from here.
Lookup(p) ==
    IF checked[p] THEN known[p]
    ELSE IF Fresher(stored, known[p]) THEN stored ELSE known[p]

ReadPolicy(p) ==
    /\ Ready(p)
    /\ known' = [known EXCEPT ![p] = Lookup(p)]
    /\ checked' = [checked EXCEPT ![p] = TRUE]
    /\ UNCHANGED <<columns, stored, proc>>

\* A second passes.
Expire(p) ==
    /\ Ready(p) /\ checked[p]
    /\ checked' = [checked EXCEPT ![p] = FALSE]
    /\ UNCHANGED <<columns, stored, proc, known>>

Starting(p) == Start(p) \/ AddColumn(p) \/ LoadRow(p) \/ CreateRow(p)

PolicyNext ==
    \/ \E p \in Processes : Starting(p) \/ ReadPolicy(p) \/ Expire(p)
    \/ \E b \in Updates : Update(b)
===============================================================================
