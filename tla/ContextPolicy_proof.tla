------------------------- MODULE ContextPolicy_proof --------------------------
(***************************************************************************)
(* However two processes start, migrate and change the policy, what an     *)
(* administrator has set survives, but for image fields set before the     *)
(* migration is over; and who reads the policy has what the database has.  *)
(***************************************************************************)
EXTENDS CompatProxy, TLAPS

\* A process that runs found or wrote a row, and knows no later version than it;
\* one that has only started knows the first version.
ProcessOK(p) ==
    /\ known[p] \in Rows
    /\ proc[p].at \in {"altering", "inserting"} => known[p].version = 1
    /\ Ready(p) => stored # None /\ known[p].version <= stored.version
    /\ proc[p].at = "altering" => proc[p].missing \subseteq ImageColumns

PolicyInv ==
    /\ stored \in Rows \cup {None}
    /\ proc = [p \in Processes |-> proc[p]]
    /\ known = [p \in Processes |-> known[p]]
    /\ checked = [p \in Processes |-> checked[p]]
    /\ \A p \in Processes : ProcessOK(p)

\* What a step does to the row: the version, the mode and the list stay, or the
\* next version comes; once the migration is over, it stays over, and the rest of
\* the row stays, too.
Keeps ==
    stored # None =>
        /\ stored' # None
        /\ \/ stored'.version = stored.version + 1
           \/ /\ stored'.version = stored.version
              /\ stored'.mode = stored.mode /\ stored'.listed = stored.listed
        /\ Migrated =>
            /\ Migrated'
            /\ stored' = stored \/ stored'.version = stored.version + 1

\* A process that has found columns missing, and added all of them.
Added(at) == at.at = "altering" /\ at.late /\ at.missing = {}

\* What a step does to the row and to what the processes know of it.
Follows ==
    /\ Keeps
    /\ \A p \in Processes : Ready(p) /\ ~checked[p] /\ checked'[p] => known'[p] = stored'

\* The first row of a configuration is a row, and none is absent.
LEMMA RowsAre == \A c \in Configs : Row(c, 1) \in Rows /\ Row(c, 1).version = 1
                                   /\ Row(c, 1) # None
<1>1. SUFFICES ASSUME NEW c \in Configs
               PROVE  Row(c, 1) \in Rows /\ Row(c, 1).version = 1
  BY PolicyAssumption
<1> QED  BY DEF Configs, Row, Rows, Limits

\* The invariant of one process depends on its own state and on the row only.
LEMMA Untouched ==
    ASSUME PolicyInv, NEW p \in Processes, proc'[p] = proc[p], known'[p] = known[p],
           stored' \in Rows \cup {None},
           stored # None => stored' # None /\ stored'.version >= stored.version
    PROVE  ProcessOK(p)'
<1>1. ProcessOK(p)  BY DEF PolicyInv
<1>2. CASE Ready(p)
  <2>1. stored \in Rows /\ stored' \in Rows  BY <1>1, <1>2 DEF ProcessOK, PolicyInv
  <2>2. stored.version \in Int /\ stored'.version \in Int /\ known[p].version \in Int
    BY <2>1, <1>1 DEF ProcessOK, Rows
  <2> QED  BY <1>1, <1>2, <2>2 DEF ProcessOK, Ready
<1> QED  BY <1>1, <1>2 DEF ProcessOK, Ready

\* A step that moves one process: it keeps the invariant if it does so for that
\* process and does not take the version back.
LEMMA OneMoves ==
    ASSUME PolicyInv, NEW p \in Processes,
           NEW at, proc' = [proc EXCEPT ![p] = at],
           NEW row, known' = [known EXCEPT ![p] = row],
           NEW now, checked' = [checked EXCEPT ![p] = now],
           stored' \in Rows \cup {None},
           stored # None =>
                /\ stored' # None
                /\ \/ stored'.version = stored.version + 1
                   \/ /\ stored'.version = stored.version
                      /\ stored'.mode = stored.mode /\ stored'.listed = stored.listed,
           stored # None /\ Migrated =>
                /\ stored' = stored \/ stored'.version = stored.version + 1
                /\ columns' = columns /\ ~Added(at),
           at.at = "altering" => at.missing \subseteq ImageColumns,
           row \in Rows,
           at.at \in {"altering", "inserting"} => row.version = 1,
           at.at = "ready" => stored' # None /\ row.version <= stored'.version,
           Ready(p) /\ ~checked[p] /\ now => row = stored'
    PROVE  PolicyInv' /\ Follows
<1>1. proc'[p] = at /\ known'[p] = row /\ checked'[p] = now  BY DEF PolicyInv
<1>2. ProcessOK(p)'  BY <1>1 DEF ProcessOK, Ready
<1>8. stored # None => stored' # None /\ stored'.version >= stored.version
  <2>1. ASSUME stored # None PROVE stored.version \in Int  BY <2>1 DEF PolicyInv, Rows
  <2> QED  BY <2>1
<1>3. ASSUME NEW q \in Processes, q # p
      PROVE  ProcessOK(q)' /\ checked'[q] = checked[q]
  <2>1. proc'[q] = proc[q] /\ known'[q] = known[q] /\ checked'[q] = checked[q]
    BY <1>3 DEF PolicyInv
  <2> QED  BY <2>1, <1>8, Untouched
<1>4. \A q \in Processes : ProcessOK(q)'  BY <1>2, <1>3
<1>5. /\ proc' = [q \in Processes |-> proc'[q]] /\ known' = [q \in Processes |-> known'[q]]
      /\ checked' = [q \in Processes |-> checked'[q]]
  BY DEF PolicyInv
<1>6. ASSUME NEW q \in Processes, Ready(q), ~checked[q], checked'[q]
      PROVE  known'[q] = stored'
  BY <1>1, <1>3, <1>6
<1>7. ASSUME stored # None, Migrated PROVE Migrated'
  <2>1. /\ columns' = columns /\ ~Added(at) /\ columns = ImageColumns
        /\ \A q \in Processes : ~Migrating(q)
    BY <1>7 DEF Migrated
  <2>2. ASSUME NEW q \in Processes PROVE ~Migrating(q)'
    <3>1. CASE q = p  BY <3>1, <2>1, <1>1 DEF Migrating, Added
    <3>2. CASE q # p
      <4>1. proc'[q] = proc[q]  BY <3>2 DEF PolicyInv
      <4> QED  BY <4>1, <2>1 DEF Migrating
    <3> QED  BY <3>1, <3>2
  <2> QED  BY <2>1, <2>2 DEF Migrated
<1>9. Keeps  BY <1>7 DEF Keeps
<1> QED  BY <1>4, <1>5, <1>6, <1>9 DEF PolicyInv, Follows

\* A process that starts knows the environment, and no more.
LEMMA StartFollows ==
    ASSUME PolicyInv, NEW p \in Processes, Start(p)
    PROVE  PolicyInv' /\ Follows
<1> DEFINE missing == ImageColumns \ columns
           at == [at |-> "altering", missing |-> missing, late |-> missing # {}]
<1>1. proc' = [proc EXCEPT ![p] = at]  BY DEF Start
<1>2. /\ known' = [known EXCEPT ![p] = Row(Env, 1)]
      /\ checked' = [checked EXCEPT ![p] = FALSE] /\ stored' = stored /\ columns' = columns
  BY DEF Start
<1>3. stored' \in Rows \cup {None}  BY <1>2 DEF PolicyInv
<1>4. at.at = "altering" /\ at.missing \subseteq ImageColumns  OBVIOUS
<1>5. ~Added(at)  BY DEF Added
<1> HIDE DEF at
<1> QED  BY <1>1, <1>2, <1>3, <1>4, <1>5, RowsAre, PolicyAssumption, OneMoves

\* The next column is one of those that are missing.
LEMMA NextIsMissing ==
    ASSUME NEW missing \in SUBSET ImageColumns, missing # {}
    PROVE  NextColumn(missing) \in missing
BY DEF NextColumn, ImageColumns

\* Adding a column, whether or not it succeeds, leaves the row alone, and nothing
\* is added when no column is missing.
LEMMA AddColumnFollows ==
    ASSUME PolicyInv, NEW p \in Processes, AddColumn(p)
    PROVE  PolicyInv' /\ Follows
<1> DEFINE c == NextColumn(proc[p].missing)
           next == [at |-> "altering", missing |-> proc[p].missing \ {c}, late |-> TRUE]
           at == IF c \in columns THEN Down ELSE next
<1>1. /\ proc' = [proc EXCEPT ![p] = at] /\ columns' = columns \cup {c}
      /\ stored' = stored /\ known' = known /\ checked' = checked
      /\ proc[p].at = "altering" /\ proc[p].missing # {}
  BY DEF AddColumn, Failed
<1>2. proc[p].missing \subseteq ImageColumns /\ known[p] \in Rows /\ known[p].version = 1
  BY <1>1 DEF PolicyInv, ProcessOK
<1>3. c \in ImageColumns  BY <1>1, <1>2, NextIsMissing
<1>4. /\ Down.at = "down" /\ next.at = "altering"
      /\ next.missing = proc[p].missing \ {c}
  BY DEF Down, Here
<1> HIDE DEF c, next
<1>5. /\ at.at \in {"altering", "down"}
      /\ at.at = "altering" => at.missing \subseteq ImageColumns
  BY <1>2, <1>4
<1>6. ASSUME Migrated PROVE columns' = columns /\ ~Added(at)
  <2>1. c \in columns  BY <1>3, <1>6 DEF Migrated
  <2> QED  BY <1>1, <1>4, <2>1 DEF Added
<1>7. /\ known' = [known EXCEPT ![p] = known[p]]
      /\ checked' = [checked EXCEPT ![p] = checked[p]]
  BY <1>1 DEF PolicyInv
<1>8. ~Ready(p) /\ at.at # "ready" /\ stored' \in Rows \cup {None}
  BY <1>1, <1>5 DEF Ready, PolicyInv
<1>9. stored' = stored /\ (at.at \in {"altering", "inserting"} => known[p].version = 1)
  BY <1>1, <1>2
<1>10. proc' = [proc EXCEPT ![p] = at]  BY <1>1
<1> HIDE DEF at
<1> QED  BY <1>2, <1>5, <1>6, <1>7, <1>8, <1>9, <1>10, OneMoves

\* Seeding the new columns keeps the version, and the process knows what it seeded.
LEMMA LoadRowFollows ==
    ASSUME PolicyInv, NEW p \in Processes, LoadRow(p)
    PROVE  PolicyInv' /\ Follows
<1>1. /\ proc[p].at = "altering" /\ checked' = checked
      /\ proc' = [proc EXCEPT ![p] = Here(IF stored = None THEN "inserting" ELSE "ready")]
  BY DEF LoadRow
<1>2. checked' = [checked EXCEPT ![p] = checked[p]]  BY <1>1 DEF PolicyInv
<1>3. known[p] \in Rows /\ known[p].version = 1 /\ ~Ready(p)
  BY <1>1 DEF PolicyInv, ProcessOK, Ready
<1>6. columns' = columns /\ proc[p].missing = {}  BY DEF LoadRow
<1>4. CASE stored = None
  <2>1. stored' \in Rows \cup {None} /\ known' = known  BY <1>4 DEF LoadRow
  <2>2. known' = [known EXCEPT ![p] = known[p]]  BY <2>1 DEF PolicyInv
  <2>3. proc' = [proc EXCEPT ![p] = Here("inserting")] /\ Here("inserting").at = "inserting"
    BY <1>1, <1>4 DEF Here
  <2>4. stored' \in Rows \cup {None}  BY <2>1
  <2> QED  BY <1>2, <1>3, <1>4, <2>2, <2>3, <2>4, OneMoves
<1>5. CASE stored # None
  <2>1. stored \in Rows  BY <1>5 DEF PolicyInv
  <2>2. stored' = Seed(stored) \/ stored' = stored  BY <1>5 DEF LoadRow
  <2>3. Env.limit \in Limits /\ Env.keep \in Nat \ {0} /\ Env.guard \in BOOLEAN
    BY PolicyAssumption DEF Configs
  <2>4. /\ Seed(stored) \in Rows /\ Seed(stored).version = stored.version
        /\ Seed(stored).mode = stored.mode /\ Seed(stored).listed = stored.listed
    BY <2>1, <2>3 DEF Seed, Rows
  <2>5. /\ stored' \in Rows /\ stored'.version = stored.version
        /\ stored'.mode = stored.mode /\ stored'.listed = stored.listed
    BY <2>1, <2>2, <2>4
  <2>6. stored' # None /\ stored'.version <= stored'.version
    BY <2>1, <2>5, PolicyAssumption DEF Rows
  <2>7. known' = [known EXCEPT ![p] = stored']  BY <1>5 DEF LoadRow
  <2>8. proc' = [proc EXCEPT ![p] = Here("ready")] /\ Here("ready").at = "ready"
    BY <1>1, <1>5 DEF Here
  <2>9. ASSUME Migrated PROVE stored' = stored
    <3>1. ~proc[p].late  BY <1>1, <1>6, <2>9 DEF Migrated, Migrating
    <3> QED  BY <3>1 DEF LoadRow
  <2>10. ~Added(Here("ready"))  BY <2>8 DEF Added
  <2> QED  BY <1>2, <1>3, <1>6, <2>5, <2>6, <2>7, <2>8, <2>9, <2>10, OneMoves
<1> QED  BY <1>4, <1>5

\* Only the first insertion succeeds, and whoever made it knows what it inserted.
LEMMA CreateRowFollows ==
    ASSUME PolicyInv, NEW p \in Processes, CreateRow(p)
    PROVE  PolicyInv' /\ Follows
<1>1. /\ proc[p].at = "inserting" /\ known' = known /\ checked' = checked
      /\ columns' = columns
      /\ proc' = [proc EXCEPT ![p] = IF stored = None THEN Here("ready") ELSE Down]
      /\ stored' = IF stored = None THEN Row(Env, 1) ELSE stored
  BY DEF CreateRow, InsertRow, Failed
<1>2. /\ known' = [known EXCEPT ![p] = known[p]]
      /\ checked' = [checked EXCEPT ![p] = checked[p]]
  BY <1>1 DEF PolicyInv
<1>3. known[p] \in Rows /\ known[p].version = 1 /\ ~Ready(p)
  BY <1>1 DEF PolicyInv, ProcessOK, Ready
<1>4. CASE stored = None
  <2>1. stored' \in Rows /\ stored'.version = 1 /\ stored' # None
    BY <1>1, <1>4, RowsAre, PolicyAssumption
  <2>2. proc' = [proc EXCEPT ![p] = Here("ready")] /\ Here("ready").at = "ready"
    BY <1>1, <1>4 DEF Here
  <2>3. known[p].version <= stored'.version  BY <1>3, <2>1
  <2> QED  BY <1>2, <1>3, <1>4, <2>1, <2>2, <2>3, OneMoves
<1>5. CASE stored # None
  <2>1. stored' \in Rows /\ stored' = stored /\ stored' # None
    BY <1>1, <1>5 DEF PolicyInv
  <2>2. proc' = [proc EXCEPT ![p] = Down] /\ Down.at = "down" /\ ~Added(Down)
    BY <1>1, <1>5 DEF Down, Here, Added
  <2>3. columns' = columns  BY <1>1
  <2> QED  BY <1>2, <1>3, <1>5, <2>1, <2>2, <2>3, OneMoves
<1> QED  BY <1>4, <1>5

\* A change of the policy takes the next version, and the console knows it.
LEMMA UpdateFollows ==
    ASSUME PolicyInv, NEW body \in Updates, Update(body)
    PROVE  PolicyInv' /\ Follows
<1> DEFINE p == "console"
<1>1. /\ Ready(p) /\ stored' = NextContext(body) /\ proc' = proc
      /\ known' = [known EXCEPT ![p] = stored'] /\ checked' = [checked EXCEPT ![p] = TRUE]
      /\ columns' = columns
  BY DEF Update
<1>2. p \in Processes  BY DEF Processes
<1>3. known[p] \in Rows /\ stored \in Rows  BY <1>1, <1>2 DEF PolicyInv, ProcessOK
<1>4. body \in [mode : {"off", "safe", "bounded"}, listed : BOOLEAN,
                limit : Limits \cup {None}, keep : (Nat \ {0}) \cup {None},
                guard : BOOLEAN \cup {None}]
  BY PolicyAssumption
<1>5. stored' \in Rows /\ stored'.version = stored.version + 1
  BY <1>1, <1>3, <1>4 DEF NextContext, Rows
<1>6. stored' # None /\ stored'.version <= stored'.version
  BY <1>3, <1>5, PolicyAssumption DEF Rows
<1>7. proc' = [proc EXCEPT ![p] = proc[p]]  BY <1>1 DEF PolicyInv
<1>8. proc[p].at = "ready" /\ ~Added(proc[p])  BY <1>1 DEF Ready, Added
<1> HIDE DEF p
<1> QED  BY <1>1, <1>2, <1>5, <1>6, <1>7, <1>8, OneMoves

\* What a process gets is the row, unless it has looked less than a second ago.
LEMMA LookupFollows ==
    ASSUME PolicyInv, NEW p \in Processes, Ready(p),
           known' = [known EXCEPT ![p] = Lookup(p)],
           checked' = [checked EXCEPT ![p] = TRUE], UNCHANGED <<columns, stored, proc>>
    PROVE  PolicyInv' /\ Follows
<1>1. ProcessOK(p)  BY DEF PolicyInv
<1>2. stored \in Rows /\ known[p] \in Rows /\ known[p].version <= stored.version
  BY <1>1 DEF PolicyInv, ProcessOK
<1>3. Lookup(p) = IF checked[p] THEN known[p] ELSE stored
  BY <1>2 DEF Lookup, Fresher, Rows
<1>4. Lookup(p) \in Rows /\ Lookup(p).version <= stored.version
  BY <1>2, <1>3 DEF Rows
<1>5. stored' \in Rows /\ stored' = stored /\ stored # None /\ columns' = columns
  BY <1>1, <1>2 DEF ProcessOK
<1>6. /\ proc' = [proc EXCEPT ![p] = proc[p]] /\ proc[p].at = "ready"
      /\ ~Added(proc[p])
  BY DEF PolicyInv, Ready, Added
<1> QED  BY <1>3, <1>4, <1>5, <1>6, OneMoves

\* A second passes: nothing but the cache's age changes.
LEMMA ExpireFollows ==
    ASSUME PolicyInv, NEW p \in Processes, Expire(p)
    PROVE  PolicyInv' /\ Follows
<1>1. /\ Ready(p) /\ checked' = [checked EXCEPT ![p] = FALSE]
      /\ UNCHANGED <<columns, stored, proc, known>>
  BY DEF Expire
<1>2. /\ proc' = [proc EXCEPT ![p] = proc[p]] /\ known' = [known EXCEPT ![p] = known[p]]
      /\ proc[p].at = "ready" /\ ~Added(proc[p])
  BY <1>1 DEF PolicyInv, Ready, Added
<1>3. known[p] \in Rows /\ known[p].version <= stored.version /\ stored # None
  BY <1>1 DEF PolicyInv, ProcessOK
<1>4. stored' \in Rows /\ stored' = stored /\ columns' = columns
  BY <1>1, <1>3 DEF PolicyInv
<1> QED  BY <1>1, <1>2, <1>3, <1>4, OneMoves

\* At the beginning no process runs, or both do and know the row.
LEMMA PolicyInitial == ASSUME Init PROVE PolicyInv
<1>1. Row(Env, 1) \in Rows /\ Row(Env, 1).version = 1 /\ Row(Env, 1) # None
  BY RowsAre, PolicyAssumption
<1>2. Down.at = "down"  BY DEF Down, Here
<1>3. CASE PolicyInit
  <2>1. PICK row \in Before : stored = IF row = None THEN None ELSE Unset(Row(row, 1))
    BY <1>3 DEF PolicyInit
  <2>2. ASSUME row # None PROVE Unset(Row(row, 1)) \in Rows
    <3> DEFINE first == Row(row, 1)
    <3>1. first \in Rows  BY <2>2, RowsAre, PolicyAssumption
    <3> HIDE DEF first
    <3>2. PICK limit \in Limits, keep \in Nat \ {0}, guard \in BOOLEAN :
            limit = 0 /\ keep = 8 /\ guard = TRUE
      <4>1. 0 \in Limits /\ 8 \in Nat \ {0} /\ TRUE \in BOOLEAN  BY DEF Limits
      <4> QED  BY <4>1, Zenon
    <3>3. [first EXCEPT !.limit = limit, !.keep = keep, !.guard = guard] \in Rows
      BY <3>1 DEF Rows
    <3> QED  BY <3>2, <3>3 DEF Unset, first
  <2>4. stored \in Rows \cup {None}  BY <2>1, <2>2
  <2>5. /\ proc = [p \in Processes |-> Down] /\ known = [p \in Processes |-> Row(Env, 1)]
        /\ checked = [p \in Processes |-> FALSE]
    BY <1>3 DEF PolicyInit
  <2> QED  BY <1>1, <1>2, <2>4, <2>5 DEF PolicyInv, ProcessOK, Ready
<1>4. CASE PolicySettled
  <2>1. /\ stored = Row(Env, 1) /\ proc = [p \in Processes |-> Here("ready")]
        /\ known = [p \in Processes |-> Row(Env, 1)]
        /\ checked = [p \in Processes |-> FALSE]
    BY <1>4 DEF PolicySettled
  <2>2. Here("ready").at = "ready" /\ 1 <= 1  BY DEF Here
  <2> QED  BY <1>1, <2>1, <2>2 DEF PolicyInv, ProcessOK, Ready
<1> QED  BY <1>3, <1>4 DEF Init

\* One lemma per kind of step gives the invariant and what the step may do.
LEMMA PolicySteps == ASSUME PolicyInv, [Next]_vars PROVE PolicyInv' /\ Follows
<1>1. ASSUME UNCHANGED policyVars PROVE PolicyInv' /\ Follows
  <2>1. /\ stored' = stored /\ proc' = proc /\ known' = known /\ checked' = checked
        /\ columns' = columns
    BY <1>1 DEF policyVars
  <2>2. Keeps
    <3>1. Migrated => Migrated'  BY <2>1 DEF Migrated, Migrating
    <3> QED  BY <2>1, <3>1 DEF Keeps
  <2>3. \A p \in Processes : ProcessOK(p)'  BY <2>1 DEF PolicyInv, ProcessOK, Ready
  <2> QED  BY <2>1, <2>2, <2>3 DEF PolicyInv, Follows
<1>2. ASSUME PolicyNext PROVE PolicyInv' /\ Follows
  <2>1. ASSUME NEW p \in Processes, Starting(p) PROVE PolicyInv' /\ Follows
    BY <2>1, StartFollows, AddColumnFollows, LoadRowFollows, CreateRowFollows DEF Starting
  <2>2. ASSUME NEW p \in Processes, ReadPolicy(p) PROVE PolicyInv' /\ Follows
    BY <2>2, LookupFollows DEF ReadPolicy
  <2> QED  BY <1>2, <2>1, <2>2, ExpireFollows, UpdateFollows DEF PolicyNext
<1>3. ASSUME Send PROVE PolicyInv' /\ Follows
  <2>1. "compat" \in Processes  BY DEF Processes
  <2> QED  BY <1>3, <2>1, LookupFollows DEF Send
<1>4. CASE UNCHANGED vars
  BY <1>1, <1>4 DEF vars, policyVars
<1>5. CASE Next
  <2>1. PolicyNext \/ Send \/ UNCHANGED policyVars
    BY <1>5 DEF Next, Say, Ask, AnswerJson, BreakJson, AnswerStream, Receive, Buffer, Yield,
       Finish, BreakOff
  <2> QED  BY <1>1, <1>2, <1>3, <2>1
<1> QED  BY <1>4, <1>5

\* No start changes the version, the mode or the list of credentials of a row, and
\* after the migration nothing but a change of the policy alters it (_init_db).
THEOREM StartsKeepThePolicy == Spec => StartKeepsPolicy
<1>1. PolicyInv /\ [Next]_vars => [Keeps]_vars
  BY PolicySteps DEF Follows
<1>2. Init => PolicyInv  BY PolicyInitial
<1>3. PolicyInv /\ [Next]_vars => PolicyInv'  BY PolicySteps
<1> QED  BY <1>1, <1>2, <1>3, PTL DEF Spec, StartKeepsPolicy, Keeps

\* Whoever has read the policy again has the one of the database.
THEOREM CachesFollow == Spec => CacheConverges
<1>1. PolicyInv /\ [Next]_vars
        => [\A p \in Processes :
              Ready(p) /\ ~checked[p] /\ checked'[p] => known'[p] = stored']_vars
  BY PolicySteps DEF Follows
<1>2. Init => PolicyInv  BY PolicyInitial
<1>3. PolicyInv /\ [Next]_vars => PolicyInv'  BY PolicySteps
<1> QED  BY <1>1, <1>2, <1>3, PTL DEF Spec, CacheConverges
===============================================================================
