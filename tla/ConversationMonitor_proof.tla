---------------------- MODULE ConversationMonitor_proof -----------------------
(***************************************************************************)
(* For any number of answers, credentials, clients, changes and restarts:  *)
(* comparing versions misses no change of the policy, streams and listings *)
(* are complete, and what is stored is kept.                               *)
(***************************************************************************)
EXTENDS ConversationMonitor, TLAPS, WellFoundedInduction, SequenceTheorems,
        FiniteSetTheorems

\* The console knows the row, which only it writes; no cache is ahead of the row,
\* and one of the same version is the row.
PolicyInv ==
    /\ row.version \in Int
    /\ cache = [p \in Processes |-> cache[p]]
    /\ cache["console"] = row
    /\ \A p \in Processes :
        /\ cache[p].version \in Int /\ cache[p].version <= row.version
        /\ cache[p].version = row.version => cache[p] = row

TaskInv == task = [r \in Requests |-> task[r]]

MonitorInv == PolicyInv /\ TaskInv

\* What the end of an answer must lead to under the policy of the database.
Due(r) ==
    CASE row.mode = "off" \/ KeyOf[r] \notin row.keys -> "skipped"
      [] OTHER -> IF row.mode = "stream" THEN "streamed" ELSE "begun"

\* A capture follows the row if the cache was up to date or is brought up to date.
Follows ==
    \A r \in Requests :
        task[r].at = "waiting" /\ task'[r].at # "waiting"
        /\ (cache["compat"].version = row.version \/ cache'["compat"] # cache["compat"])
            => task'[r].at = Due(r)

\* Both processes begin with the default, which is also the row.
LEMMA InitOK == Init => MonitorInv
BY DEF Init, MonitorInv, PolicyInv, TaskInv, Default, Processes

\* What a process refreshes its cache with keeps the invariant.
LEMMA RefreshKeeps ==
    ASSUME PolicyInv, NEW p \in Processes, NEW ok, row' = row,
           cache' = [cache EXCEPT ![p] = Refreshed(cache[p], ok)]
    PROVE  PolicyInv'
<1> DEFINE new == Refreshed(cache[p], ok)
<1>1. new = row \/ new = cache[p]  BY DEF Refreshed
<1>2. /\ new.version \in Int /\ new.version <= row.version
      /\ new.version = row.version => new = row
      /\ p = "console" => new = row
  BY <1>1 DEF PolicyInv
<1>3. cache' = [cache EXCEPT ![p] = new]  OBVIOUS
<1> HIDE DEF new
<1>4. /\ cache'[p] = new /\ \A q \in Processes : q # p => cache'[q] = cache[q]
      /\ cache' = [q \in Processes |-> cache'[q]]
  BY <1>3 DEF PolicyInv
<1> QED  BY <1>2, <1>4 DEF PolicyInv, Processes

\* The console's change takes the next version; no other cache can have it yet.
LEMMA UpdateKeeps ==
    ASSUME PolicyInv, NEW b \in Bodies, UpdatePolicy(b)
    PROVE  PolicyInv'
<1>1. /\ row' = NextPolicy(b)
      /\ cache' = [cache EXCEPT !["console"] = row']
  BY DEF UpdatePolicy
<1>2. row'.version = row.version + 1  BY <1>1 DEF PolicyInv, NextPolicy, Numbered
<1>3. row'.version \in Int /\ row'.version > row.version  BY <1>2 DEF PolicyInv
<1>4. /\ cache'["console"] = row' /\ cache'["compat"] = cache["compat"]
      /\ cache' = [p \in Processes |-> cache'[p]]
  BY <1>1 DEF PolicyInv, Processes
<1> QED  BY <1>3, <1>4 DEF PolicyInv, Processes

\* A process that starts reads the row.
LEMMA RestartKeeps ==
    ASSUME PolicyInv, NEW p \in Processes, Restart(p)
    PROVE  PolicyInv'
BY DEF PolicyInv, Restart, Processes

\* A capture: under the row if the versions agree or the cache changes.
LEMMA CaptureFollows ==
    ASSUME MonitorInv, NEW r \in Requests, Capture(r)
    PROVE  MonitorInv' /\ Follows
<1> DEFINE Chosen(ok) == Refreshed(cache["compat"], ok)
           Mode(ok) == Decision(Chosen(ok), KeyOf[r])
           Begun(ok) == [at |-> "begun", id |-> counter["compat"] + 1,
                         capacity |-> Chosen(ok).capacity]
<1>1. PICK ok \in Reads :
        /\ cache' = [cache EXCEPT !["compat"] = Chosen(ok)]
        /\ \/ Mode(ok) = "off" /\ task' = [task EXCEPT ![r] = [at |-> "skipped"]]
           \/ Mode(ok) = "stream" /\ task' = [task EXCEPT ![r] = [at |-> "streamed"]]
           \/ Mode(ok) = "persist" /\ task' = [task EXCEPT ![r] = Begun(ok)]
  BY DEF Capture
<1> DEFINE policy == Chosen(ok)
<1>2. PICK t : /\ task' = [task EXCEPT ![r] = t]
               /\ \/ Mode(ok) = "off" /\ t.at = "skipped"
                  \/ Mode(ok) = "stream" /\ t.at = "streamed"
                  \/ Mode(ok) = "persist" /\ t.at = "begun"
  <2>1. [at |-> "skipped"].at = "skipped" /\ [at |-> "streamed"].at = "streamed"
        /\ Begun(ok).at = "begun"
    OBVIOUS
  <2> HIDE DEF Begun, Mode
  <2> QED  BY <1>1, <2>1
<1>3. cache' = [cache EXCEPT !["compat"] = policy] /\ row' = row /\ "compat" \in Processes
  BY <1>1 DEF Capture, Processes
<1>4. PolicyInv'  BY <1>3, RefreshKeeps DEF MonitorInv
<1>5. TaskInv'  BY <1>2 DEF MonitorInv, TaskInv
<1>6. cache'["compat"] = policy  BY <1>3 DEF MonitorInv, PolicyInv
<1>7. ASSUME cache["compat"].version = row.version \/ policy # cache["compat"]
      PROVE  policy = row
  BY <1>3, <1>7 DEF Refreshed, MonitorInv, PolicyInv
<1>8. ASSUME policy = row PROVE t.at = Due(r)
  BY <1>2, <1>8 DEF Decision, Due
<1>9. Follows
  <2>1. ASSUME NEW q \in Requests, q # r PROVE task'[q] = task[q]
    BY <1>2, <2>1 DEF MonitorInv, TaskInv
  <2>2. task'[r] = t  BY <1>2 DEF MonitorInv, TaskInv
  <2> HIDE DEF policy
  <2> QED  BY <1>6, <1>7, <1>8, <2>1, <2>2 DEF Follows
<1> QED  BY <1>4, <1>5, <1>9 DEF MonitorInv

\* Another step of a capture starts from a later state than waiting.
LEMMA TaskSteps ==
    ASSUME MonitorInv, NEW r \in Requests,
           StartPersist(r) \/ Store(r) \/ StoreFails(r) \/ Report(r)
    PROVE  MonitorInv' /\ Follows
<1>1. UNCHANGED <<row, cache>>
  BY DEF StartPersist, Store, StoreFails, Report
<1>2. PolicyInv'  BY <1>1 DEF MonitorInv, PolicyInv
<1>3. task[r].at \in {"begun", "writing", "failed"}
  BY DEF StartPersist, Store, StoreFails, Report
<1>4. TaskInv' /\ \A q \in Requests : q # r => task'[q] = task[q]
  BY DEF StartPersist, Store, StoreFails, Report, MonitorInv, TaskInv
<1> QED  BY <1>2, <1>3, <1>4 DEF MonitorInv, Follows

\* A restart loses captures that were under way and decides about none.
LEMMA RestartFollows ==
    ASSUME MonitorInv, NEW p \in Processes, Restart(p)
    PROVE  MonitorInv' /\ Follows
<1>1. PolicyInv'  BY RestartKeeps DEF MonitorInv
<1>2. CASE p = "console"
  <2>1. task' = task  BY <1>2 DEF Restart
  <2> QED  BY <1>1, <2>1 DEF MonitorInv, TaskInv, Follows
<1>3. CASE p # "console"
  <2>1. task' = [r \in Requests |->
                   IF task[r].at \in {"begun", "writing", "failed"}
                   THEN [at |-> "lost"] ELSE task[r]]
    BY <1>3 DEF Restart
  <2>2. TaskInv' /\ \A r \in Requests : task[r].at = "waiting" => task'[r] = task[r]
    BY <2>1 DEF TaskInv
  <2> QED  BY <1>1, <2>2 DEF MonitorInv, Follows
<1> QED  BY <1>2, <1>3

\* The other steps leave captures alone.
LEMMA TasksAlone ==
    ASSUME MonitorInv, PolicyInv', task' = task
    PROVE  MonitorInv' /\ Follows
BY DEF MonitorInv, TaskInv, Follows

\* Every step keeps the invariant and captures by the row.
LEMMA StepOK == ASSUME MonitorInv, [Next]_vars PROVE MonitorInv' /\ Follows
<1>1. ASSUME NEW b \in Bodies, UpdatePolicy(b) PROVE MonitorInv' /\ Follows
  <2>1. PolicyInv' /\ task' = task  BY <1>1, UpdateKeeps DEF MonitorInv, UpdatePolicy
  <2> QED  BY <2>1, TasksAlone
<1>2. ASSUME NEW p \in Processes, ReadPolicy(p) PROVE MonitorInv' /\ Follows
  <2>1. /\ cache' = [cache EXCEPT ![p] = Refreshed(cache[p], TRUE)]
        /\ row' = row /\ task' = task
    BY <1>2 DEF ReadPolicy
  <2>2. PolicyInv'  BY <2>1, RefreshKeeps DEF MonitorInv
  <2> QED  BY <2>1, <2>2, TasksAlone
<1>3. ASSUME NEW p \in Processes, Restart(p) PROVE MonitorInv' /\ Follows
  BY <1>3, RestartFollows
<1>4. ASSUME NEW r \in Requests, Capture(r) PROVE MonitorInv' /\ Follows
  BY <1>4, CaptureFollows
<1>5. ASSUME NEW r \in Requests, StartPersist(r) \/ Store(r) \/ StoreFails(r) \/ Report(r)
      PROVE  MonitorInv' /\ Follows
  BY <1>5, TaskSteps
<1>6. ASSUME UNCHANGED <<row, cache, task>> PROVE MonitorInv' /\ Follows
  <2>1. PolicyInv'  BY <1>6 DEF MonitorInv, PolicyInv
  <2> QED  BY <1>6, <2>1, TasksAlone
<1>7. ASSUME NEW c \in Clients, Connect(c) \/ Deliver(c) \/ Disconnect(c)
      PROVE  UNCHANGED <<row, cache, task>>
  BY <1>7 DEF Connect, Deliver, Disconnect
<1>8. ASSUME Age \/ StartListing \/ NextPage \/ UNCHANGED vars
      PROVE  UNCHANGED <<row, cache, task>>
  BY <1>8 DEF Age, StartListing, NextPage, vars
<1> QED  BY <1>1, <1>2, <1>3, <1>4, <1>5, <1>6, <1>7, <1>8 DEF Next

\* Whenever the proxy can read the database, or has its version, what it does with
\* an answer is what the policy in the database says (capture, _refresh_policy).
THEOREM CapturesFollowThePolicy == Spec => CaptureFollowsPolicy
<1>1. MonitorInv /\ [Next]_vars => MonitorInv'  BY StepOK
<1>2. MonitorInv /\ [Next]_vars
        => [\A r \in Requests :
              task[r].at = "waiting" /\ task'[r].at # "waiting"
              /\ (cache["compat"].version = row.version \/ cache'["compat"] # cache["compat"])
                  => task'[r].at =
                       CASE row.mode = "off" \/ KeyOf[r] \notin row.keys -> "skipped"
                         [] OTHER -> IF row.mode = "stream" THEN "streamed" ELSE "begun"]_vars
  BY StepOK DEF Follows, Due
<1> QED  BY InitOK, <1>1, <1>2, PTL DEF Spec, CaptureFollowsPolicy

(* ---- Sequences of event numbers ------------------------------------------ *)

\* Every nonempty set of naturals has a least element.
LEMMA Least ==
    ASSUME NEW T \in SUBSET Nat, T # {}
    PROVE  \E m \in T : \A n \in T : m <= n
<1> DEFINE R == OpToRel(<, Nat)
<1>1. IsWellFoundedOn(R, Nat)  BY NatLessThanWellFounded
<1>2. \A x, y \in Nat : <<x, y>> \in R <=> x < y  BY DEF OpToRel
<1> HIDE DEF R
<1>3. PICK x \in T : \A y \in T : ~ (<<y, x>> \in R)  BY <1>1, WFMin, Zenon
<1>4. x \in Nat /\ \A y \in T : y \in Nat  OBVIOUS
<1>5. ASSUME NEW y \in T PROVE x <= y
  <2>1. ~(y < x)  BY <1>2, <1>3, <1>4, <1>5
  <2> QED  BY <2>1, <1>4
<1> QED  BY <1>5

\* So a set of naturals with an upper bound has a largest one, and Max is it.
LEMMA MaxIsLargest ==
    ASSUME NEW T \in SUBSET Nat, T # {}, NEW n \in Nat, \A x \in T : x <= n
    PROVE  Max(T) \in T /\ \A x \in T : x <= Max(T)
<1> DEFINE D == {n - x : x \in T}
<1>1. D \in SUBSET Nat /\ D # {}
  <2>1. \A x \in T : n - x \in Nat  OBVIOUS
  <2> QED  BY <2>1
<1>2. PICK d \in D : \A y \in D : d <= y
  <2> HIDE DEF D
  <2> QED  BY <1>1, Least
<1>3. PICK m \in T : d = n - m  OBVIOUS
<1>4. \A x \in T : m >= x
  <2> TAKE x \in T
  <2>1. n - x \in D  OBVIOUS
  <2>2. m \in Nat /\ x \in Nat  OBVIOUS
  <2> HIDE DEF D
  <2>3. n - m <= n - x  BY <2>1, <1>2, <1>3
  <2> QED  BY <2>2, <2>3
<1>5. \E x \in T : \A y \in T : x >= y  BY <1>4
<1> QED  BY <1>5 DEF Max

\* Events in order, after a and up to b.
Orderly(s, a, b) ==
    \A i \in 1..Len(s) :
        /\ a < s[i] /\ s[i] <= b
        /\ \A j \in 1..Len(s) : i < j => s[i] < s[j]

\* The events of a sequence.
Of(s) == {s[k] : k \in 1..Len(s)}

\* Appending adds an element, and only it.
LEMMA OfAppend ==
    ASSUME NEW s \in Seq(Nat), NEW n \in Nat
    PROVE  /\ Append(s, n) \in Seq(Nat) /\ Len(Append(s, n)) = Len(s) + 1 /\ Len(s) \in Nat
           /\ Append(s, n)[Len(s) + 1] = n
           /\ \A i \in 1..Len(s) : Append(s, n)[i] = s[i]
           /\ Of(Append(s, n)) = Of(s) \cup {n}
<1> DEFINE t == Append(s, n)
<1>1. /\ t \in Seq(Nat) /\ Len(t) = Len(s) + 1 /\ t[Len(s) + 1] = n
      /\ \A i \in 1..Len(s) : t[i] = s[i]
      /\ Len(s) \in Nat
  OBVIOUS
<1> HIDE DEF t
<1>2. ASSUME NEW e \in Of(t) PROVE e \in Of(s) \cup {n}
  <2>1. PICK i \in 1..Len(t) : e = t[i]  BY <1>2 DEF Of
  <2>2. CASE i = Len(s) + 1  BY <1>1, <2>1, <2>2
  <2>3. CASE i # Len(s) + 1
    <3>1. i \in 1..Len(s) /\ t[i] = s[i]  BY <1>1, <2>3
    <3> QED  BY <2>1, <3>1 DEF Of
  <2> QED  BY <2>2, <2>3
<1>3. n \in Of(t)  BY <1>1 DEF Of
<1>4. ASSUME NEW e \in Of(s) PROVE e \in Of(t)
  <2>1. PICK i \in 1..Len(s) : e = s[i]  BY <1>4 DEF Of
  <2>2. i \in 1..Len(t) /\ t[i] = e  BY <1>1, <2>1
  <2> QED  BY <2>2 DEF Of
<1>5. Of(t) = Of(s) \cup {n}  BY <1>2, <1>3, <1>4
<1> QED  BY <1>1, <1>5 DEF t

\* A later event goes to the end.
LEMMA OrderlyAppend ==
    ASSUME NEW s \in Seq(Nat), NEW a \in Nat, NEW b \in Nat, a <= b, Orderly(s, a, b),
           NEW n \in Nat, b < n
    PROVE  /\ Append(s, n) \in Seq(Nat) /\ Orderly(Append(s, n), a, n)
           /\ Of(Append(s, n)) = Of(s) \cup {n}
<1> DEFINE t == Append(s, n)
<1>1. /\ t \in Seq(Nat) /\ Len(t) = Len(s) + 1 /\ t[Len(s) + 1] = n
      /\ \A i \in 1..Len(s) : t[i] = s[i]
      /\ Len(s) \in Nat
  BY OfAppend
<1>2. \A i \in 1..Len(s) :
        /\ s[i] \in Nat /\ a < s[i] /\ s[i] <= b
        /\ \A j \in 1..Len(s) : i < j => s[i] < s[j]
  BY DEF Orderly
<1> HIDE DEF t
<1>3. Orderly(t, a, n)
  <2>1. ASSUME NEW i \in 1..Len(t) PROVE a < t[i] /\ t[i] <= n
    <3>1. CASE i = Len(s) + 1  BY <1>1, <3>1
    <3>2. CASE i \in 1..Len(s)
      <4>1. t[i] = s[i] /\ s[i] \in Nat /\ a < s[i] /\ s[i] <= b  BY <1>1, <1>2, <3>2
      <4> QED  BY <4>1
    <3> QED  BY <1>1, <3>1, <3>2
  <2>2. ASSUME NEW i \in 1..Len(t), NEW j \in 1..Len(t), i < j PROVE t[i] < t[j]
    <3>1. i \in 1..Len(s)  BY <1>1, <2>2
    <3>2. CASE j = Len(s) + 1
      <4>1. t[i] = s[i] /\ t[j] = n /\ s[i] \in Nat /\ s[i] <= b  BY <1>1, <1>2, <3>1, <3>2
      <4> QED  BY <4>1
    <3>3. CASE j \in 1..Len(s)  BY <1>1, <1>2, <2>2, <3>1, <3>3
    <3> QED  BY <1>1, <3>2, <3>3
  <2> QED  BY <2>1, <2>2 DEF Orderly
<1>4. Of(t) = Of(s) \cup {n}  BY OfAppend DEF t
<1> QED  BY <1>1, <1>3, <1>4 DEF t

\* What follows the first event is after it; only the first event is missing.
LEMMA OrderlyTail ==
    ASSUME NEW s \in Seq(Nat), s # <<>>, NEW a, NEW b, Orderly(s, a, b)
    PROVE  /\ Tail(s) \in Seq(Nat) /\ Orderly(Tail(s), Head(s), b)
           /\ Head(s) \in Nat /\ a < Head(s) /\ Head(s) <= b
           /\ Of(s) = Of(Tail(s)) \cup {Head(s)}
<1> DEFINE t == Tail(s)
<1>1. /\ t \in Seq(Nat) /\ Len(s) \in Nat \ {0} /\ Len(t) = Len(s) - 1
      /\ \A i \in 1..Len(t) : t[i] = s[i + 1]
      /\ Head(s) = s[1] /\ s[1] \in Nat
  OBVIOUS
<1> HIDE DEF t
<1>2. Orderly(t, Head(s), b)
  <2>1. \A i \in 1..Len(t) : i + 1 \in 1..Len(s) /\ 1 \in 1..Len(s) /\ 1 < i + 1
    BY <1>1
  <2>2. ASSUME NEW i \in 1..Len(t)
        PROVE  Head(s) < t[i] /\ t[i] <= b
    BY <1>1, <2>1 DEF Orderly
  <2>3. ASSUME NEW i \in 1..Len(t), NEW j \in 1..Len(t), i < j
        PROVE  t[i] < t[j]
    <3>1. i + 1 < j + 1  BY <2>3
    <3> QED  BY <1>1, <2>1, <3>1 DEF Orderly
  <2> QED  BY <2>2, <2>3 DEF Orderly
<1>3. Of(s) = Of(t) \cup {Head(s)}
  <2>1. ASSUME NEW e \in Of(t) PROVE e \in Of(s)
    <3>1. PICK i \in 1..Len(t) : e = t[i]  BY DEF Of
    <3>2. i + 1 \in 1..Len(s) /\ s[i + 1] = e  BY <1>1, <3>1
    <3> QED  BY <3>2 DEF Of
  <2>2. Head(s) \in Of(s)  BY <1>1 DEF Of
  <2>3. ASSUME NEW e \in Of(s) PROVE e \in Of(t) \cup {Head(s)}
    <3>1. PICK i \in 1..Len(s) : e = s[i]  BY DEF Of
    <3>2. CASE i = 1  BY <1>1, <3>1, <3>2
    <3>3. CASE i # 1
      <4>1. i - 1 \in 1..Len(t) /\ t[i - 1] = s[i]  BY <1>1, <3>3
      <4> QED  BY <3>1, <4>1 DEF Of
    <3> QED  BY <3>2, <3>3
  <2> QED  BY <2>1, <2>2, <2>3
<1>4. a < Head(s) /\ Head(s) <= b
  <2>1. 1 \in 1..Len(s)  BY <1>1
  <2> QED  BY <1>1, <2>1 DEF Orderly
<1> QED  BY <1>1, <1>2, <1>3, <1>4 DEF t

\* The end of a sequence is in the same order.
LEMMA OrderlyEnd ==
    ASSUME NEW s \in Seq(Nat), NEW a, NEW b, Orderly(s, a, b),
           NEW k \in 0..Len(s), NEW n \in Nat,
           \A i \in 1..Len(s) : i > k => n < s[i]
    PROVE  /\ SubSeq(s, k + 1, Len(s)) \in Seq(Nat)
           /\ Orderly(SubSeq(s, k + 1, Len(s)), n, b)
           /\ Of(SubSeq(s, k + 1, Len(s))) = {s[i] : i \in (k + 1)..Len(s)}
<1> DEFINE t == SubSeq(s, k + 1, Len(s))
<1>1. /\ t \in Seq(Nat) /\ Len(s) \in Nat /\ Len(t) = Len(s) - k
      /\ \A i \in 1..Len(t) : t[i] = s[i + k]
  OBVIOUS
<1> HIDE DEF t
<1>2. \A i \in 1..Len(t) : i + k \in 1..Len(s) /\ i + k > k  BY <1>1
<1>3. Orderly(t, n, b)
  <2>1. ASSUME NEW i \in 1..Len(t) PROVE n < t[i] /\ t[i] <= b
    BY <1>1, <1>2 DEF Orderly
  <2>2. ASSUME NEW i \in 1..Len(t), NEW j \in 1..Len(t), i < j PROVE t[i] < t[j]
    <3>1. i + k < j + k  BY <2>2
    <3> QED  BY <1>1, <1>2, <3>1 DEF Orderly
  <2> QED  BY <2>1, <2>2 DEF Orderly
<1>4. Of(t) = {s[i] : i \in (k + 1)..Len(s)}
  <2>1. ASSUME NEW e \in Of(t) PROVE e \in {s[i] : i \in (k + 1)..Len(s)}
    <3>1. PICK i \in 1..Len(t) : e = t[i]  BY DEF Of
    <3>2. i + k \in (k + 1)..Len(s) /\ s[i + k] = e  BY <1>1, <3>1
    <3> QED  BY <3>2
  <2>2. ASSUME NEW i \in (k + 1)..Len(s) PROVE s[i] \in Of(t)
    <3>1. i - k \in 1..Len(t) /\ t[i - k] = s[i]  BY <1>1
    <3> QED  BY <3>1 DEF Of
  <2> QED  BY <2>1, <2>2
<1> QED  BY <1>1, <1>3, <1>4 DEF t

\* Joined sequences, at their ends.
LEMMA Joined ==
    ASSUME NEW b \in Seq(Nat), NEW q \in Seq(Nat)
    PROVE  /\ b \o q \in Seq(Nat)
           /\ \A n \in Nat : b \o Append(q, n) = Append(b \o q, n)
           /\ b # <<>> => Tail(b) \o q = Tail(b \o q) /\ b \o q # <<>>
           /\ b = <<>> => b \o q = q
<1>1. b \o q \in Seq(Nat)  OBVIOUS
<1>2. ASSUME NEW n \in Nat PROVE b \o Append(q, n) = Append(b \o q, n)
  OBVIOUS
<1>3. ASSUME b # <<>> PROVE Tail(b) \o q = Tail(b \o q) /\ b \o q # <<>>
  <2> DEFINE u == Tail(b) \o q
             v == Tail(b \o q)
  <2>1. Tail(b) \in Seq(Nat) /\ Len(Tail(b)) = Len(b) - 1 /\ Len(b) \in Nat \ {0}
        /\ \A i \in 1..Len(Tail(b)) : Tail(b)[i] = b[i + 1]
    BY <1>3
  <2>2. Len(b \o q) = Len(b) + Len(q) /\ Len(q) \in Nat /\ b \o q # <<>>
    BY <2>1, <1>1
  <2>3. u \in Seq(Nat) /\ v \in Seq(Nat)  BY <1>1, <2>1, <2>2
  <2>4. Len(u) = Len(b) + Len(q) - 1 /\ Len(v) = Len(b) + Len(q) - 1
    BY <1>1, <2>1, <2>2
  <2>5. ASSUME NEW i \in 1..Len(u) PROVE u[i] = v[i]
    <3>1. v[i] = (b \o q)[i + 1]  BY <1>1, <2>2, <2>4
    <3>2. CASE i <= Len(b) - 1
      BY <1>1, <2>1, <2>2, <2>4, <3>1, <3>2, ConcatProperties
    <3>3. CASE i > Len(b) - 1
      BY <1>1, <2>1, <2>2, <2>4, <3>1, <3>3, ConcatProperties
    <3> QED  BY <3>2, <3>3, <2>1
  <2> HIDE DEF u, v
  <2>6. u = v  BY <2>3, <2>4, <2>5, SeqEqual
  <2> QED  BY <2>2, <2>6 DEF u, v
<1>4. ASSUME b = <<>> PROVE b \o q = q
  BY <1>4, ConcatEmptySeq
<1> QED  BY <1>1, <1>2, <1>3, <1>4

(* ---- Streams --------------------------------------------------------------- *)

StreamType == [backlog : Seq(Nat), queue : Seq(Nat), reset : BOOLEAN]

EventTypes ==
    /\ counter \in [Processes -> Nat]
    /\ replay \in [Processes -> Seq(Nat)]
    /\ last \in [Clients -> Nat]
    /\ refused \in [Clients -> SUBSET Nat]
    /\ streams \in [Clients -> StreamType \cup {None}]

\* A buffer is in order, ends with the counter at most, and within its limit.
Buffered(p) == Orderly(replay[p], 0, counter[p]) /\ Len(replay[p]) <= ReplayLimit

\* What a client waits for is in order, beyond what it has, and includes what the
\* buffer has beyond it, but for the events its full queue refused.
Served(c) ==
    /\ Orderly(Pending(c), last[c], counter[Home[c]])
    /\ Len(streams[c].queue) <= QueueLimit
    /\ \A id \in Of(replay[Home[c]]) : id > last[c] => id \in refused[c] \cup Of(Pending(c))

EventInv ==
    /\ EventTypes
    /\ \A p \in Processes : Buffered(p)
    /\ \A c \in Clients :
        /\ last[c] <= counter[Home[c]] /\ refused[c] \subseteq 1..counter[Home[c]]
        /\ Connected(c) => Served(c)

\* No event, no client.
LEMMA EventsBegin == Init => EventInv
<1> SUFFICES ASSUME Init PROVE EventInv  OBVIOUS
<1>1. \A c \in Clients : Home[c] \in Processes  BY MonitorAssumption
<1>2. EventTypes  BY DEF Init, EventTypes
<1>3. \A p \in Processes : Buffered(p)
  BY MonitorAssumption DEF Init, Buffered, Orderly
<1>4. \A c \in Clients : last[c] = 0 /\ refused[c] = {} /\ ~Connected(c) /\ counter[Home[c]] = 0
  BY <1>1 DEF Init, Connected
<1> QED  BY <1>2, <1>3, <1>4 DEF EventInv

\* The backlog is the part of the buffer beyond what the client has: in order, all
\* of it and nothing else.
LEMMA BacklogOK ==
    ASSUME EventInv, NEW c \in Clients
    PROVE  /\ Backlog(c) \in Seq(Nat)
           /\ Orderly(Backlog(c), last[c], counter[Home[c]])
           /\ Of(Backlog(c)) = {id \in Of(replay[Home[c]]) : id > last[c]}
<1> DEFINE s == replay[Home[c]]
           old == {0} \cup {i \in DOMAIN s : s[i] <= last[c]}
           k == Max(old)
<1>1. Home[c] \in Processes  BY MonitorAssumption
<1>2. s \in Seq(Nat) /\ last[c] \in Nat /\ Orderly(s, 0, counter[Home[c]])
  BY <1>1 DEF EventInv, EventTypes, Buffered
<1>3. DOMAIN s = 1..Len(s) /\ Len(s) \in Nat /\ \A i \in 1..Len(s) : s[i] \in Nat
  BY <1>2
<1>4. k \in old /\ \A i \in old : i <= k
  <2>1. old \in SUBSET Nat /\ old # {} /\ \A i \in old : i <= Len(s)
    BY <1>3
  <2> HIDE DEF old
  <2> QED  BY <2>1, <1>3, MaxIsLargest
<1>5. k \in 0..Len(s)  BY <1>3, <1>4
<1>6. Backlog(c) = SubSeq(s, k + 1, Len(s))  BY DEF Backlog
<1> HIDE DEF s, k
<1>7. \A i \in 1..Len(s) : i > k => last[c] < s[i]
  BY <1>2, <1>3, <1>4, <1>5
<1>8. ASSUME NEW i \in 1..Len(s), i <= k PROVE s[i] <= last[c]
  <2>1. k \in 1..Len(s) /\ s[k] <= last[c]  BY <1>3, <1>4, <1>5, <1>8
  <2>2. CASE i = k  BY <2>1, <2>2
  <2>3. CASE i < k
    <3>1. s[i] < s[k]  BY <1>2, <2>1, <2>3 DEF Orderly
    <3> QED  BY <1>2, <1>3, <2>1, <3>1
  <2> QED  BY <1>5, <1>8, <2>2, <2>3
<1> HIDE DEF old
<1>9. /\ SubSeq(s, k + 1, Len(s)) \in Seq(Nat)
      /\ Orderly(SubSeq(s, k + 1, Len(s)), last[c], counter[Home[c]])
      /\ Of(SubSeq(s, k + 1, Len(s))) = {s[i] : i \in (k + 1)..Len(s)}
  BY <1>2, <1>5, <1>7, OrderlyEnd
<1>10. {s[i] : i \in (k + 1)..Len(s)} = {id \in Of(s) : id > last[c]}
  <2>1. ASSUME NEW i \in (k + 1)..Len(s) PROVE s[i] \in Of(s) /\ s[i] > last[c]
    <3>1. i \in 1..Len(s) /\ i > k  BY <1>3, <1>5
    <3> QED  BY <1>2, <1>3, <1>7, <3>1 DEF Of
  <2>2. ASSUME NEW id \in Of(s), id > last[c] PROVE id \in {s[i] : i \in (k + 1)..Len(s)}
    <3>1. PICK i \in 1..Len(s) : id = s[i]  BY DEF Of
    <3>2. i > k  BY <1>2, <1>3, <1>5, <1>8, <2>2, <3>1
    <3> QED  BY <1>5, <3>1, <3>2
  <2> QED  BY <2>1, <2>2
<1> QED  BY <1>6, <1>9, <1>10 DEF s

\* A buffer with one more event: in order, and it has nothing but what it had and
\* the new one.
LEMMA LatestOK ==
    ASSUME NEW s \in Seq(Nat), NEW b \in Nat, Orderly(s, 0, b), Len(s) <= ReplayLimit,
           NEW n \in Nat, b < n
    PROVE  LET t == Latest(Append(s, n))
           IN /\ t \in Seq(Nat) /\ Orderly(t, 0, n) /\ Len(t) <= ReplayLimit
              /\ Of(t) \subseteq Of(s) \cup {n}
<1> DEFINE a == Append(s, n)
<1>1. a \in Seq(Nat) /\ Orderly(a, 0, n) /\ Of(a) = Of(s) \cup {n}
  BY OrderlyAppend
<1>2. Len(a) = Len(s) + 1 /\ Len(s) \in Nat  OBVIOUS
<1> HIDE DEF a
<1>3. CASE Len(a) > ReplayLimit
  <2>1. a # <<>>  BY <1>1, <1>2
  <2>2. Tail(a) \in Seq(Nat) /\ Orderly(Tail(a), Head(a), n) /\ Head(a) \in Nat /\ 0 < Head(a)
        /\ Of(a) = Of(Tail(a)) \cup {Head(a)}
    BY <1>1, <2>1, OrderlyTail
  <2>3. Len(Tail(a)) = Len(a) - 1  BY <1>1, <2>1
  <2>4. Orderly(Tail(a), 0, n)
    <3>1. \A i \in 1..Len(Tail(a)) : Tail(a)[i] \in Nat  BY <2>2
    <3> QED  BY <2>2, <3>1 DEF Orderly
  <2>5. Latest(a) = Tail(a)  BY <1>3 DEF Latest
  <2> QED  BY <1>1, <1>2, <2>2, <2>3, <2>4, <2>5, MonitorAssumption DEF a
<1>4. CASE ~(Len(a) > ReplayLimit)
  <2>1. Latest(a) = a  BY <1>4 DEF Latest
  <2> QED  BY <1>1, <1>2, <1>4, <2>1, MonitorAssumption DEF a
<1> QED  BY <1>3, <1>4

\* A client that hears an event has it in the queue, or it is refused.
LEMMA HeardOK ==
    ASSUME EventInv, NEW p \in Processes, Publish(p), NEW c \in Clients
    PROVE  /\ streams'[c] \in StreamType \cup {None} /\ refused'[c] \in SUBSET Nat
           /\ last'[c] <= counter'[Home[c]] /\ refused'[c] \subseteq 1..counter'[Home[c]]
           /\ Connected(c)' => Served(c)'
<1> DEFINE h == Home[c]
           n == counter[p] + 1
           st == streams[c]
           Hears == Connected(c) /\ h = p
           Room == Len(st.queue) < QueueLimit
<1>1. h \in Processes  BY MonitorAssumption
<1>2. /\ counter' = [counter EXCEPT ![p] = n]
      /\ replay' = [replay EXCEPT ![p] = Latest(Append(replay[p], n))]
      /\ streams'[c] = IF Hears /\ Room THEN [st EXCEPT !.queue = Append(st.queue, n)] ELSE st
      /\ refused'[c] = IF Hears /\ ~Room THEN refused[c] \cup {n} ELSE refused[c]
      /\ last' = last
  BY DEF Publish
<1>3. /\ counter \in [Processes -> Nat] /\ replay \in [Processes -> Seq(Nat)]
      /\ last[c] \in Nat /\ last[c] <= counter[h] /\ st \in StreamType \cup {None}
      /\ refused[c] \in SUBSET Nat /\ refused[c] \subseteq 1..counter[h]
      /\ Connected(c) => st \in StreamType /\ Served(c)
  BY DEF EventInv, EventTypes, Connected
<1>4. CASE h # p
  <2>1. counter'[h] = counter[h] /\ replay'[h] = replay[h] /\ streams'[c] = st
        /\ refused'[c] = refused[c] /\ last'[c] = last[c]
    BY <1>1, <1>2, <1>3, <1>4
  <2> QED  BY <1>3, <2>1 DEF Served, Connected, Pending
<1>5. CASE h = p
  <2>1. /\ counter[h] \in Nat /\ counter'[h] = n /\ n \in Nat /\ n = counter[h] + 1
        /\ replay'[h] = Latest(Append(replay[h], n)) /\ last'[c] = last[c]
    BY <1>1, <1>2, <1>3, <1>5
  <2>2. replay[h] \in Seq(Nat) /\ Orderly(replay[h], 0, counter[h]) /\ Len(replay[h]) <= ReplayLimit
    BY <1>1, <1>3 DEF EventInv, Buffered
  <2>3. Of(replay'[h]) \subseteq Of(replay[h]) \cup {n}
    BY <2>1, <2>2, LatestOK
  <2>4. \A x \in 1..counter[h] : x \in 1..n  BY <2>1
  <2>5. last'[c] <= counter'[h]  BY <1>3, <2>1
  <2>6. CASE ~Connected(c)
    BY <1>2, <1>3, <2>1, <2>4, <2>5, <2>6 DEF Connected
  <2>7. CASE Connected(c) /\ Room
    <3>1. st \in StreamType /\ Served(c) /\ st.backlog \in Seq(Nat) /\ st.queue \in Seq(Nat)
      BY <1>3, <2>7 DEF StreamType
    <3>2. streams'[c] = [st EXCEPT !.queue = Append(st.queue, n)] /\ refused'[c] = refused[c]
      BY <1>2, <1>5, <2>7
    <3>3. /\ streams'[c] \in StreamType /\ streams'[c].backlog = st.backlog
          /\ streams'[c].queue = Append(st.queue, n)
      <4>1. Append(st.queue, n) \in Seq(Nat)  BY <2>1, <3>1
      <4> QED  BY <3>1, <3>2, <4>1, Zenon DEF StreamType
    <3>4. Len(streams'[c].queue) <= QueueLimit
      BY <2>7, <3>1, <3>3, MonitorAssumption
    <3>5. Pending(c)' = Append(Pending(c), n) /\ Pending(c) \in Seq(Nat)
      <4>1. st.backlog \o Append(st.queue, n) = Append(st.backlog \o st.queue, n)
            /\ st.backlog \o st.queue \in Seq(Nat)
        BY <2>1, <3>1, Joined
      <4> QED  BY <3>3, <4>1 DEF Pending
    <3>6. Orderly(Pending(c), last[c], counter[h])  BY <3>1 DEF Served
    <3>7. Orderly(Pending(c)', last'[c], counter'[h]) /\ Of(Pending(c)') = Of(Pending(c)) \cup {n}
      BY <1>3, <2>1, <3>5, <3>6, OrderlyAppend
    <3>8. ASSUME NEW id \in Of(replay'[h]), id > last'[c]
          PROVE  id \in refused'[c] \cup Of(Pending(c)')
      <4>1. CASE id = n  BY <3>7, <4>1
      <4>2. CASE id \in Of(replay[h])  BY <2>1, <3>1, <3>2, <3>7, <3>8, <4>2 DEF Served
      <4> QED  BY <2>3, <4>1, <4>2
    <3>9. Served(c)'  BY <3>4, <3>7, <3>8 DEF Served
    <3> QED  BY <1>3, <2>1, <2>4, <2>5, <3>2, <3>3, <3>9
  <2>8. CASE Connected(c) /\ ~Room
    <3>1. streams'[c] = st /\ refused'[c] = refused[c] \cup {n}
      BY <1>2, <1>5, <2>8
    <3>2. st \in StreamType /\ Served(c) /\ Pending(c)' = Pending(c)
          /\ Pending(c) \in Seq(Nat)
      BY <1>3, <2>8, <3>1, Joined DEF StreamType, Pending
    <3>3. Orderly(Pending(c)', last'[c], counter'[h])
      <4>1. \A i \in 1..Len(Pending(c)) : Pending(c)[i] \in Nat  BY <3>2
      <4> QED  BY <2>1, <3>2, <4>1 DEF Served, Orderly
    <3>4. ASSUME NEW id \in Of(replay'[h]), id > last'[c]
          PROVE  id \in refused'[c] \cup Of(Pending(c)')
      BY <2>1, <2>3, <3>1, <3>2, <3>4 DEF Served
    <3>5. Served(c)'  BY <3>1, <3>2, <3>3, <3>4 DEF Served
    <3>6. refused'[c] \in SUBSET Nat /\ refused'[c] \subseteq 1..n
      BY <1>3, <2>1, <2>4, <3>1
    <3> QED  BY <1>3, <2>1, <2>5, <3>1, <3>5, <3>6
  <2> QED  BY <2>6, <2>7, <2>8
<1> QED  BY <1>4, <1>5

\* An event is numbered after all others and goes to the buffer and the queues.
LEMMA PublishKeeps ==
    ASSUME EventInv, NEW p \in Processes, Publish(p)
    PROVE  EventInv'
<1> DEFINE n == counter[p] + 1
<1>1. /\ counter' = [counter EXCEPT ![p] = n]
      /\ replay' = [replay EXCEPT ![p] = Latest(Append(replay[p], n))]
      /\ last' = last
  BY DEF Publish
<1>2. /\ counter \in [Processes -> Nat] /\ replay \in [Processes -> Seq(Nat)] /\ n \in Nat
      /\ counter[p] < n /\ counter[p] \in Nat
  BY DEF EventInv, EventTypes
<1> DEFINE new == Latest(Append(replay[p], n))
<1>3. new \in Seq(Nat) /\ Orderly(new, 0, n) /\ Len(new) <= ReplayLimit
  BY <1>2, LatestOK DEF EventInv, Buffered
<1> HIDE DEF n, new
<1>4. counter' \in [Processes -> Nat] /\ replay' \in [Processes -> Seq(Nat)]
  BY <1>1, <1>2, <1>3 DEF new
<1>5. \A q \in Processes : Buffered(q)'
  <2> TAKE q \in Processes
  <2>1. CASE q = p
    BY <1>1, <1>2, <1>3, <2>1 DEF Buffered, new
  <2>2. CASE q # p
    BY <1>1, <1>2, <2>2 DEF Buffered, EventInv
  <2> QED  BY <2>1, <2>2
<1>6. streams' \in [Clients -> StreamType \cup {None}]
  <2>1. streams' = [c \in Clients |-> streams'[c]]  BY DEF Publish
  <2> QED  BY <2>1, HeardOK
<1>7. refused' \in [Clients -> SUBSET Nat]
  <2>1. refused' = [c \in Clients |-> refused'[c]]  BY DEF Publish
  <2> QED  BY <2>1, HeardOK
<1>8. EventTypes'  BY <1>1, <1>4, <1>6, <1>7 DEF EventTypes, EventInv
<1> QED  BY <1>5, <1>8, HeardOK DEF EventInv

\* A client takes what the buffer has for it and misses nothing from then on.
LEMMA ConnectKeeps ==
    ASSUME EventInv, NEW c \in Clients, Connect(c)
    PROVE  EventInv'
<1> DEFINE new == Stream(c)
<1>1. /\ streams' = [streams EXCEPT ![c] = new]
      /\ refused' = [refused EXCEPT ![c] = {}]
      /\ UNCHANGED <<counter, replay, last>>
  BY DEF Connect
<1>2. new \in StreamType /\ new.backlog = Backlog(c) /\ new.queue = <<>>
  <2>1. ResetDue(c) \in BOOLEAN  BY DEF ResetDue
  <2> QED  BY <2>1, BacklogOK DEF Stream, StreamType
<1> HIDE DEF new
<1>3. EventTypes'  BY <1>1, <1>2 DEF EventInv, EventTypes
<1>4. \A p \in Processes : Buffered(p)'  BY <1>1 DEF EventInv, Buffered
<1>5. ASSUME NEW d \in Clients
      PROVE  /\ last'[d] <= counter'[Home[d]] /\ refused'[d] \subseteq 1..counter'[Home[d]]
             /\ Connected(d)' => Served(d)'
  <2>1. CASE d = c
    <3>1. streams'[c] = new /\ refused'[c] = {}  BY <1>1 DEF EventInv, EventTypes
    <3>2. Pending(c)' = Backlog(c)
      <4>1. Backlog(c) \o <<>> = Backlog(c)  BY BacklogOK, ConcatEmptySeq
      <4> QED  BY <1>2, <3>1, <4>1 DEF Pending
    <3>3. Served(c)'
      BY <1>1, <1>2, <3>1, <3>2, BacklogOK, MonitorAssumption DEF Served
    <3> QED  BY <1>1, <2>1, <3>1, <3>3 DEF EventInv
  <2>2. CASE d # c
    <3>1. streams'[d] = streams[d] /\ refused'[d] = refused[d]
      BY <1>1, <2>2 DEF EventInv, EventTypes
    <3> QED  BY <1>1, <3>1 DEF EventInv, Connected, Served, Pending
  <2> QED  BY <2>1, <2>2
<1> QED  BY <1>3, <1>4, <1>5 DEF EventInv

\* The next event: the first of the backlog, or else of the queue.
LEMMA DeliverKeeps ==
    ASSUME EventInv, NEW c \in Clients, Deliver(c)
    PROVE  EventInv'
<1> DEFINE st == streams[c]
           new == IF st.backlog # <<>> THEN [st EXCEPT !.backlog = Tail(st.backlog)]
                  ELSE [st EXCEPT !.queue = Tail(st.queue)]
           n == Head(Pending(c))
           b == counter[Home[c]]
<1>1. /\ streams' = [streams EXCEPT ![c] = new]
      /\ last' = [last EXCEPT ![c] = n]
      /\ UNCHANGED <<counter, replay, refused>>
      /\ Connected(c) /\ Pending(c) # <<>>
  BY DEF Deliver
<1>2. /\ st \in StreamType /\ st.backlog \in Seq(Nat) /\ st.queue \in Seq(Nat)
      /\ Served(c)
  BY <1>1 DEF EventInv, EventTypes, Connected, StreamType
<1>3. Pending(c) \in Seq(Nat) /\ Orderly(Pending(c), last[c], b)
  BY <1>2, Joined DEF Pending, Served
<1>4. /\ Tail(Pending(c)) \in Seq(Nat) /\ Orderly(Tail(Pending(c)), n, b)
      /\ n \in Nat /\ last[c] < n /\ n <= b
      /\ Of(Pending(c)) = Of(Tail(Pending(c))) \cup {n}
  BY <1>1, <1>3, OrderlyTail
<1>5. /\ new \in StreamType /\ Len(new.queue) <= QueueLimit
      /\ new.backlog \o new.queue = Tail(Pending(c))
  <2>1. CASE st.backlog # <<>>
    <3>1. new = [st EXCEPT !.backlog = Tail(st.backlog)]  BY <2>1
    <3>2. Tail(st.backlog) \in Seq(Nat)  BY <1>2, <2>1
    <3>3. new \in StreamType /\ new.backlog = Tail(st.backlog) /\ new.queue = st.queue
      BY <1>2, <3>1, <3>2 DEF StreamType
    <3>4. Tail(st.backlog) \o st.queue = Tail(Pending(c))
      BY <1>2, <2>1, Joined DEF Pending
    <3> QED  BY <1>2, <3>3, <3>4 DEF Served
  <2>2. CASE st.backlog = <<>>
    <3>1. new = [st EXCEPT !.queue = Tail(st.queue)]  BY <2>2
    <3>2. Pending(c) = st.queue  BY <1>2, <2>2, Joined DEF Pending
    <3>3. Tail(st.queue) \in Seq(Nat) /\ Len(Tail(st.queue)) = Len(st.queue) - 1
          /\ Len(st.queue) \in Nat
      BY <1>1, <1>2, <3>2
    <3>4. new \in StreamType /\ new.backlog = <<>> /\ new.queue = Tail(st.queue)
      BY <1>2, <2>2, <3>1, <3>3 DEF StreamType
    <3>5. new.backlog \o new.queue = Tail(st.queue)
      BY <3>3, <3>4, ConcatEmptySeq
    <3>6. Len(new.queue) <= QueueLimit  BY <1>2, <3>3, <3>4, MonitorAssumption DEF Served
    <3> QED  BY <3>2, <3>4, <3>5, <3>6
  <2> QED  BY <2>1, <2>2
<1> HIDE DEF new, n, b, st
<1>6. EventTypes'  BY <1>1, <1>4, <1>5 DEF EventInv, EventTypes
<1>7. \A p \in Processes : Buffered(p)'  BY <1>1 DEF EventInv, Buffered
<1>8. ASSUME NEW d \in Clients
      PROVE  /\ last'[d] <= counter'[Home[d]] /\ refused'[d] \subseteq 1..counter'[Home[d]]
             /\ Connected(d)' => Served(d)'
  <2>1. CASE d = c
    <3>1. streams'[c] = new /\ last'[c] = n /\ last[c] \in Nat
      BY <1>1 DEF EventInv, EventTypes
    <3>2. Pending(c)' = Tail(Pending(c))  BY <1>5, <3>1 DEF Pending
    <3>3. ASSUME NEW id \in Of(replay[Home[c]]), id > n
          PROVE  id \in refused[c] \cup Of(Pending(c)')
      <4>1. id \in Nat
        <5>1. Home[c] \in Processes  BY MonitorAssumption
        <5>2. replay[Home[c]] \in Seq(Nat)  BY <5>1 DEF EventInv, EventTypes
        <5> QED  BY <5>2, <3>3 DEF Of
      <4>2. id > last[c] /\ id # n  BY <1>4, <3>1, <3>3, <4>1
      <4> QED  BY <1>2, <1>4, <3>2, <4>2 DEF Served
    <3>4. Served(c)'
      BY <1>1, <1>4, <1>5, <3>1, <3>2, <3>3 DEF Served, b
    <3> QED  BY <1>1, <1>4, <2>1, <3>1, <3>4 DEF EventInv, b
  <2>2. CASE d # c
    <3>1. streams'[d] = streams[d] /\ last'[d] = last[d]
      BY <1>1, <2>2 DEF EventInv, EventTypes
    <3> QED  BY <1>1, <3>1 DEF EventInv, Connected, Served, Pending
  <2> QED  BY <2>1, <2>2
<1> QED  BY <1>6, <1>7, <1>8 DEF EventInv

\* Who leaves waits for nothing.
LEMMA DisconnectKeeps ==
    ASSUME EventInv, NEW c \in Clients, Disconnect(c)
    PROVE  EventInv'
<1>1. streams' = [streams EXCEPT ![c] = None] /\ UNCHANGED <<counter, replay, last, refused>>
  BY DEF Disconnect
<1>2. EventTypes'  BY <1>1 DEF EventInv, EventTypes
<1>3. \A p \in Processes : Buffered(p)'  BY <1>1 DEF EventInv, Buffered
<1>4. ASSUME NEW d \in Clients PROVE Connected(d)' => Served(d)'
  <2>1. CASE d = c  BY <1>1, <2>1 DEF EventInv, EventTypes, Connected
  <2>2. CASE d # c
    <3>1. streams'[d] = streams[d]  BY <1>1, <2>2 DEF EventInv, EventTypes
    <3> QED  BY <1>1, <3>1 DEF EventInv, Connected, Served, Pending
  <2> QED  BY <2>1, <2>2
<1> QED  BY <1>1, <1>2, <1>3, <1>4 DEF EventInv

\* A process that starts has no stream and numbers its events beyond all before.
LEMMA RestartEvents ==
    ASSUME EventInv, NEW p \in Processes, Restart(p)
    PROVE  EventInv'
<1>1. /\ counter' = [counter EXCEPT ![p] = counter[p] + 1]
      /\ replay' = [replay EXCEPT ![p] = <<>>]
      /\ streams' = [c \in Clients |-> IF Home[c] = p THEN None ELSE streams[c]]
      /\ UNCHANGED <<last, refused>>
  BY DEF Restart, FirstCounter
<1>2. counter[p] \in Nat /\ \A q \in Processes : counter[q] \in Nat
  BY DEF EventInv, EventTypes
<1>3. EventTypes'  BY <1>1, <1>2 DEF EventInv, EventTypes
<1>4. \A q \in Processes : Buffered(q)'
  <2> TAKE q \in Processes
  <2>1. CASE q = p
    <3>1. replay'[p] = <<>>  BY <1>1 DEF EventInv, EventTypes
    <3> QED  BY <2>1, <3>1, MonitorAssumption DEF Buffered, Orderly
  <2>2. CASE q # p
    <3>1. replay'[q] = replay[q] /\ counter'[q] = counter[q]
      BY <1>1, <2>2 DEF EventInv, EventTypes
    <3> QED  BY <3>1 DEF EventInv, Buffered
  <2> QED  BY <2>1, <2>2
<1>5. ASSUME NEW d \in Clients
      PROVE  /\ last'[d] <= counter'[Home[d]] /\ refused'[d] \subseteq 1..counter'[Home[d]]
             /\ Connected(d)' => Served(d)'
  <2>1. Home[d] \in Processes /\ last[d] \in Nat /\ last[d] <= counter[Home[d]]
        /\ refused[d] \subseteq 1..counter[Home[d]]
    BY MonitorAssumption DEF EventInv, EventTypes
  <2>2. CASE Home[d] = p
    <3>1. ~Connected(d)' /\ counter'[p] = counter[p] + 1
      BY <1>1, <2>2 DEF Connected, EventInv, EventTypes
    <3>2. \A x \in 1..counter[p] : x \in 1..(counter[p] + 1)  BY <1>2
    <3> QED  BY <1>1, <1>2, <2>1, <2>2, <3>1, <3>2
  <2>3. CASE Home[d] # p
    <3>1. /\ streams'[d] = streams[d] /\ replay'[Home[d]] = replay[Home[d]]
          /\ counter'[Home[d]] = counter[Home[d]]
      BY <1>1, <2>1, <2>3 DEF EventInv, EventTypes
    <3> QED  BY <1>1, <2>1, <3>1 DEF EventInv, Connected, Served, Pending
  <2> QED  BY <2>2, <2>3
<1> QED  BY <1>3, <1>4, <1>5 DEF EventInv

(* ---- The table and the listing ------------------------------------------- *)

Stages == {"waiting", "skipped", "streamed", "begun", "writing", "stored",
           "failed", "reported", "lost"}

\* A conversation that is on its way to the table.
InFlight(r) == task[r].at \in {"begun", "writing"}

\* What a task carries; its number was given out, and its time is not aged out.
TaskTypes ==
    \A r \in Requests :
        /\ task[r].at \in Stages
        /\ InFlight(r) => task[r].id \in 1..counter["compat"] /\ task[r].capacity \in Nat \ {0}
        /\ task[r].at = "writing" => task[r].ts \in horizon..(clock - 1)

TableTypes ==
    /\ clock \in Nat \ {0} /\ horizon \in 0..clock /\ tip \in Nat
    /\ \A x \in records :
        /\ x.seq \in 1..tip /\ x.id \in 1..counter["compat"]
        /\ x.ts \in 0..(clock - 1) /\ x.request \in Requests

\* Numbers and times tell conversations apart, written or on their way.
Apart ==
    /\ \A r, q \in Requests : r # q =>
        /\ InFlight(r) /\ InFlight(q) => task[r].id # task[q].id
        /\ task[r].at = "writing" /\ task[q].at = "writing" => task[r].ts # task[q].ts
    /\ \A r \in Requests, x \in records :
        /\ InFlight(r) => x.id # task[r].id
        /\ task[r].at = "writing" => x.ts # task[r].ts
    /\ \A x, y \in records : x.id = y.id \/ x.ts = y.ts => x = y

Seen == Of(reader.seen)

ReaderType == [at : {"idle", "paging", "read"}, cursor : Nat, seen : Seq(Nat), want : SUBSET Nat]

\* What the reader has seen is not before the cursor and does not come again; what
\* it wants is seen or before the cursor.
Paging ==
    /\ reader \in ReaderType
    /\ IsInjective(reader.seen)
    /\ \A i \in Seen :
        /\ i <= counter["compat"]
        /\ \A r \in Requests : InFlight(r) => i # task[r].id
        /\ \A x \in records : reader.at = "paging" /\ x.ts < reader.cursor => i # x.id
    /\ reader.at = "paging" =>
        \A i \in reader.want : i \in Seen \/ \E x \in records : x.id = i /\ x.ts < reader.cursor
    /\ reader.at = "read" => \A i \in reader.want : i \in Seen

KeepInv == TaskInv /\ TaskTypes /\ TableTypes /\ Apart /\ Paging


\* The rows have what the model needs of a policy.
LEMMA RowsOK == \A x \in Rows : x.capacity \in Nat \ {0}
BY MonitorAssumption DEF Rows, Default, Numbered

RowInv == row \in Rows /\ cache \in [Processes -> Rows]

\* A write that ends well is in the table.
StoresWell ==
    \A r \in Requests : task[r].at = "writing" /\ task'[r].at = "stored"
        => \E x \in records' : x.request = r

\* Nothing is under way at first.
LEMMA KeepBegins == Init => KeepInv
<1> SUFFICES ASSUME Init PROVE KeepInv  OBVIOUS
<1>1. \A r \in Requests : task[r].at = "waiting"  BY DEF Init
<1>2. TaskInv /\ TaskTypes /\ TableTypes /\ Apart
  BY <1>1 DEF Init, TaskInv, TaskTypes, TableTypes, Apart, InFlight, Stages
<1>3. reader \in ReaderType /\ reader.seen = <<>> /\ reader.at = "idle"
  BY DEF Init, ReaderType
<1>4. Seen = {}  BY <1>3 DEF Seen, Of
<1>5. IsInjective(reader.seen)  BY <1>3 DEF IsInjective
<1> QED  BY <1>2, <1>3, <1>4, <1>5 DEF KeepInv, Paging

\* Numbers given out and conversations that end disturb nothing.
LEMMA EndsKeep ==
    ASSUME KeepInv, EventTypes, TaskInv', counter' \in [Processes -> Nat],
           counter'["compat"] >= counter["compat"],
           UNCHANGED <<records, tip, clock, horizon, reader>>,
           \A r \in Requests : \/ task'[r] = task[r]
                               \/ task'[r].at \in Stages \ {"begun", "writing", "stored"}
    PROVE  KeepInv' /\ StoresWell
<1> DEFINE n == counter["compat"]
           m == counter'["compat"]
<1>1. n \in Nat /\ m \in Nat /\ n <= m  BY DEF EventTypes, Processes
<1>2. \A i \in 1..n : i \in 1..m  BY <1>1
<1> HIDE DEF n, m
<1>3. \A r \in Requests : InFlight(r)' => InFlight(r) /\ task'[r] = task[r]
  BY DEF InFlight
<1>4. TaskTypes'
  <2> SUFFICES ASSUME NEW r \in Requests
               PROVE  /\ task'[r].at \in Stages
                      /\ InFlight(r)' => /\ task'[r].id \in 1..counter'["compat"]
                                         /\ task'[r].capacity \in Nat \ {0}
                      /\ task'[r].at = "writing" => task'[r].ts \in horizon..(clock - 1)
    BY DEF TaskTypes
  <2>1. CASE task'[r] = task[r]
    BY <1>2, <1>3, <2>1 DEF KeepInv, TaskTypes, InFlight, n, m
  <2>2. CASE task'[r].at \in Stages \ {"begun", "writing", "stored"}
    BY <2>2 DEF InFlight
  <2> QED  BY <2>1, <2>2
<1>5. TableTypes'
  BY <1>2 DEF KeepInv, TableTypes, n, m
<1>6. Apart'
  <2>1. \A r \in Requests : task'[r].at = "writing" => task[r].at = "writing" /\ task'[r] = task[r]
    OBVIOUS
  <2> QED  BY <1>3, <2>1 DEF KeepInv, Apart
<1>7. Paging'
  <2>1. Seen' = Seen  BY DEF Seen, Of
  <2>2. ASSUME NEW i \in Seen PROVE i <= m
    <3>1. i \in Nat  BY DEF KeepInv, Paging, ReaderType, Seen, Of
    <3> QED  BY <1>1, <3>1 DEF KeepInv, Paging, n
  <2> QED  BY <1>3, <2>1, <2>2 DEF KeepInv, Paging, m
<1>8. StoresWell  BY DEF StoresWell
<1> QED  BY <1>4, <1>5, <1>6, <1>7, <1>8 DEF KeepInv

\* A conversation that is to be kept gets a number nobody has.
LEMMA BegunKeeps ==
    ASSUME KeepInv, EventTypes, NEW r \in Requests, task[r].at = "waiting",
           NEW capacity \in Nat \ {0},
           task' = [task EXCEPT ![r] = [at |-> "begun", id |-> counter["compat"] + 1,
                                        capacity |-> capacity]],
           counter' = [counter EXCEPT !["compat"] = counter["compat"] + 1],
           UNCHANGED <<records, tip, clock, horizon, reader>>
    PROVE  KeepInv' /\ StoresWell
<1> DEFINE n == counter["compat"]
           t == [at |-> "begun", id |-> n + 1, capacity |-> capacity]
<1>1. n \in Nat /\ counter'["compat"] = n + 1  BY DEF EventTypes, Processes
<1>2. \A i \in 1..n : i \in 1..(n + 1) /\ i # n + 1  BY <1>1
<1>3. t.at = "begun" /\ t.id = n + 1 /\ t.capacity = capacity  OBVIOUS
<1>4. task'[r] = t /\ TaskInv' /\ \A q \in Requests : q # r => task'[q] = task[q]
  BY DEF KeepInv, TaskInv
<1> HIDE DEF n, t
<1>5. TaskTypes'
  <2> SUFFICES ASSUME NEW q \in Requests
               PROVE  /\ task'[q].at \in Stages
                      /\ InFlight(q)' => /\ task'[q].id \in 1..(n + 1)
                                         /\ task'[q].capacity \in Nat \ {0}
                      /\ task'[q].at = "writing" => task'[q].ts \in horizon..(clock - 1)
    BY <1>1 DEF TaskTypes
  <2>1. CASE q = r  BY <1>1, <1>3, <1>4, <2>1 DEF Stages
  <2>2. CASE q # r
    BY <1>2, <1>4, <2>2 DEF KeepInv, TaskTypes, InFlight, n
  <2> QED  BY <2>1, <2>2
<1>6. TableTypes'  BY <1>1, <1>2 DEF KeepInv, TableTypes, n
<1>7. Apart'
  <2>1. \A q \in Requests : q # r /\ InFlight(q) => task[q].id # n + 1
    BY <1>2 DEF KeepInv, TaskTypes, n
  <2>2. \A x \in records : x.id # n + 1
    BY <1>2 DEF KeepInv, TableTypes, n
  <2>3. \A q \in Requests : q # r => InFlight(q)' = InFlight(q)
    BY <1>4 DEF InFlight
  <2> QED  BY <1>3, <1>4, <2>1, <2>2, <2>3 DEF KeepInv, Apart
<1>8. Paging'
  <2>1. Seen' = Seen  BY DEF Seen, Of
  <2>2. ASSUME NEW i \in Seen PROVE i <= n + 1 /\ i # n + 1
    <3>1. i \in Nat  BY DEF KeepInv, Paging, ReaderType, Seen, Of
    <3>2. i <= n  BY DEF KeepInv, Paging, n
    <3> QED  BY <1>1, <3>1, <3>2
  <2>3. \A i \in Seen, q \in Requests : InFlight(q)' => i # task'[q].id
    BY <1>3, <1>4, <2>2 DEF KeepInv, Paging, InFlight
  <2> QED  BY <1>1, <2>1, <2>2, <2>3 DEF KeepInv, Paging
<1>9. StoresWell  BY <1>3, <1>4 DEF StoresWell
<1> QED  BY <1>4, <1>5, <1>6, <1>7, <1>8, <1>9 DEF KeepInv

\* Every write has a time of its own.
LEMMA StartPersistKeeps ==
    ASSUME KeepInv, NEW r \in Requests, StartPersist(r)
    PROVE  KeepInv' /\ StoresWell
<1> DEFINE t == [at |-> "writing", id |-> task[r].id, capacity |-> task[r].capacity, ts |-> clock]
<1>1. /\ task[r].at = "begun" /\ task' = [task EXCEPT ![r] = t] /\ clock' = clock + 1
      /\ UNCHANGED <<records, tip, horizon, reader, counter>>
  BY DEF StartPersist, eventVars
<1>2. t.at = "writing" /\ t.id = task[r].id /\ t.capacity = task[r].capacity /\ t.ts = clock
  OBVIOUS
<1> HIDE DEF t
<1>3. task'[r] = t /\ TaskInv' /\ \A q \in Requests : q # r => task'[q] = task[q]
  BY <1>1 DEF KeepInv, TaskInv
<1>4. clock \in Nat \ {0} /\ horizon \in 0..clock /\ clock \in horizon..(clock' - 1)
  BY <1>1 DEF KeepInv, TableTypes
<1>5. \A h \in {0, horizon} : \A i \in h..(clock - 1) : i \in h..(clock' - 1) /\ i # clock
  BY <1>1, <1>4
<1>6. TaskTypes'
  <2> SUFFICES ASSUME NEW q \in Requests
               PROVE  /\ task'[q].at \in Stages
                      /\ InFlight(q)' => /\ task'[q].id \in 1..counter["compat"]
                                         /\ task'[q].capacity \in Nat \ {0}
                      /\ task'[q].at = "writing" => task'[q].ts \in horizon..(clock' - 1)
    BY <1>1 DEF TaskTypes
  <2>1. CASE q = r
    BY <1>1, <1>2, <1>3, <1>4, <2>1 DEF Stages, KeepInv, TaskTypes, InFlight
  <2>2. CASE q # r
    BY <1>3, <1>5, <2>2 DEF KeepInv, TaskTypes, InFlight
  <2> QED  BY <2>1, <2>2
<1>7. TableTypes'
  BY <1>1, <1>4, <1>5 DEF KeepInv, TableTypes
<1>8. Apart'
  <2>1. \A q \in Requests : task[q].at = "writing" => task[q].ts # clock
    BY <1>5 DEF KeepInv, TaskTypes
  <2>2. \A x \in records : x.ts # clock  BY <1>5 DEF KeepInv, TableTypes
  <2>3. \A q \in Requests : InFlight(q)' => InFlight(q) /\ task'[q].id = task[q].id
    BY <1>1, <1>2, <1>3 DEF InFlight
  <2> QED  BY <1>1, <1>2, <1>3, <2>1, <2>2, <2>3 DEF KeepInv, Apart
<1>9. Paging'
  <2>1. Seen' = Seen  BY <1>1 DEF Seen, Of
  <2>2. \A q \in Requests : InFlight(q)' => InFlight(q) /\ task'[q].id = task[q].id
    BY <1>1, <1>2, <1>3 DEF InFlight
  <2> QED  BY <1>1, <2>1, <2>2 DEF KeepInv, Paging
<1>10. StoresWell  BY <1>1, <1>2, <1>3 DEF StoresWell
<1> QED  BY <1>3, <1>6, <1>7, <1>8, <1>9, <1>10 DEF KeepInv

\* What is written has a new number and the highest seq, so that neither the
\* INSERT nor the DELETEs of its transaction leave it out.
LEMMA StoreKeeps ==
    ASSUME KeepInv, NEW r \in Requests, Store(r)
    PROVE  KeepInv' /\ StoresWell
<1> DEFINE e == [seq |-> tip + 1, id |-> task[r].id, ts |-> task[r].ts, request |-> r]
           all == {x \in Inserted(e) : x.ts >= horizon}
<1>1. /\ task[r].at = "writing" /\ task' = [task EXCEPT ![r] = [at |-> "stored"]]
      /\ records' = Kept(all, task[r].capacity)
      /\ tip' = IF Known(e.id) THEN tip ELSE e.seq
      /\ reader' = Wanted(records')
      /\ UNCHANGED <<counter, clock, horizon>>
  BY DEF Store, eventVars
<1>2. e.seq = tip + 1 /\ e.id = task[r].id /\ e.ts = task[r].ts /\ e.request = r
  OBVIOUS
<1> HIDE DEF e
<1>3. /\ InFlight(r) /\ task[r].id \in 1..counter["compat"] /\ task[r].capacity \in Nat \ {0}
      /\ task[r].ts \in horizon..(clock - 1) /\ horizon \in Nat /\ clock \in Nat /\ tip \in Nat
  BY <1>1 DEF KeepInv, TaskTypes, TableTypes, InFlight
<1>4. ~Known(e.id)  BY <1>2, <1>3 DEF Known, KeepInv, Apart
<1>5. Inserted(e) = records \cup {e} /\ tip' = tip + 1
  BY <1>1, <1>2, <1>4 DEF Inserted
<1>6. records' \subseteq records \cup {e}  BY <1>1, <1>5 DEF Kept
<1>7. e \in records'
  <2>1. e \in all  BY <1>2, <1>3, <1>5
  <2>2. \A y \in all : ~(y.seq > e.seq)
    BY <1>2, <1>3, <1>5 DEF KeepInv, TableTypes
  <2>3. {y \in all : y.seq > e.seq} = {}  BY <2>2
  <2>4. Cardinality({y \in all : y.seq > e.seq}) < task[r].capacity
    <3>1. Cardinality({y \in all : y.seq > e.seq}) = 0  BY <2>3, FS_EmptySet, Zenon
    <3> HIDE DEF all
    <3> QED  BY <1>3, <3>1
  <2> HIDE DEF all
  <2> QED  BY <1>1, <2>1, <2>4 DEF Kept
<1> HIDE DEF all
<1>8. /\ task'[r] = [at |-> "stored"] /\ TaskInv'
      /\ \A q \in Requests : q # r => task'[q] = task[q]
  BY <1>1 DEF KeepInv, TaskInv
<1>9. \A q \in Requests : InFlight(q)' => InFlight(q) /\ q # r /\ task'[q] = task[q]
  BY <1>8 DEF InFlight
<1>10. TaskTypes'
  <2>1. \A q \in Requests : task'[q].at = "writing" => q # r  BY <1>8
  <2>2. \A q \in Requests : task'[q].at \in Stages
    BY <1>8 DEF KeepInv, TaskTypes, Stages
  <2> QED  BY <1>1, <1>8, <1>9, <2>1, <2>2 DEF KeepInv, TaskTypes
<1>11. TableTypes'
  <2>1. \A x \in records : x.seq \in 1..(tip + 1)
    BY <1>3 DEF KeepInv, TableTypes
  <2>2. e.seq \in 1..(tip + 1) /\ e.ts \in 0..(clock - 1)  BY <1>2, <1>3
  <2> QED
    BY <1>1, <1>2, <1>3, <1>5, <1>6, <2>1, <2>2 DEF KeepInv, TableTypes
<1>12. Apart'
  <2>1. \A q \in Requests : task'[q].at = "writing" => task[q].at = "writing" /\ q # r
    BY <1>8
  <2>2. \A x \in records : x.id # e.id /\ x.ts # e.ts
    BY <1>1, <1>2, <1>3 DEF KeepInv, Apart
  <2>3. \A q \in Requests : q # r /\ InFlight(q) => e.id # task[q].id
    BY <1>2, <1>3 DEF KeepInv, Apart
  <2>4. \A q \in Requests : q # r /\ task[q].at = "writing" => e.ts # task[q].ts
    BY <1>1, <1>2 DEF KeepInv, Apart
  <2>5. \A q, p \in Requests : q # p =>
          /\ InFlight(q)' /\ InFlight(p)' => task'[q].id # task'[p].id
          /\ task'[q].at = "writing" /\ task'[p].at = "writing" => task'[q].ts # task'[p].ts
    BY <1>8, <1>9, <2>1 DEF KeepInv, Apart
  <2>6. \A q \in Requests, x \in records' :
          /\ InFlight(q)' => x.id # task'[q].id
          /\ task'[q].at = "writing" => x.ts # task'[q].ts
    BY <1>6, <1>8, <1>9, <2>1, <2>3, <2>4 DEF KeepInv, Apart
  <2>7. \A x, y \in records' : x.id = y.id \/ x.ts = y.ts => x = y
    BY <1>6, <2>2 DEF KeepInv, Apart
  <2> QED  BY <2>5, <2>6, <2>7 DEF Apart
<1>13. Paging'
  <2> DEFINE want == {i \in reader.want : \E x \in records' : x.id = i}
  <2>1. reader' = [reader EXCEPT !.want = want] /\ reader \in ReaderType
    BY <1>1 DEF Wanted, KeepInv, Paging
  <2>2. want \in SUBSET Nat  BY <2>1 DEF ReaderType
  <2>3. /\ reader' \in ReaderType /\ reader'.at = reader.at /\ reader'.cursor = reader.cursor
        /\ reader'.seen = reader.seen /\ reader'.want = want
    <3> HIDE DEF want
    <3> QED  BY <2>1, <2>2 DEF ReaderType
  <2>4. Seen' = Seen  BY <2>3 DEF Seen, Of
  <2>5. ASSUME NEW i \in Seen
        PROVE  /\ i <= counter'["compat"]
               /\ \A q \in Requests : InFlight(q)' => i # task'[q].id
               /\ \A x \in records' : reader'.at = "paging" /\ x.ts < reader'.cursor => i # x.id
    <3>1. i # e.id  BY <1>2, <1>3 DEF KeepInv, Paging
    <3> QED  BY <1>1, <1>6, <1>9, <2>3, <3>1 DEF KeepInv, Paging
  <2>6. ASSUME reader.at = "paging", NEW i \in want
        PROVE  i \in Seen \/ \E x \in records' : x.id = i /\ x.ts < reader.cursor
    <3>1. CASE i \in Seen  BY <3>1
    <3>2. CASE i \notin Seen
      <4>1. PICK x \in records : x.id = i /\ x.ts < reader.cursor
        BY <2>6, <3>2 DEF KeepInv, Paging
      <4>2. PICK y \in records' : y.id = i  BY <2>6
      <4>3. y # e  BY <1>2, <1>3, <4>1, <4>2 DEF KeepInv, Apart
      <4>4. y \in records  BY <1>6, <4>3
      <4>5. y = x  BY <4>1, <4>2, <4>4 DEF KeepInv, Apart
      <4> QED  BY <4>1, <4>2, <4>5
    <3> QED  BY <3>1, <3>2
  <2>7. reader.at = "read" => \A i \in want : i \in Seen
    BY DEF KeepInv, Paging
  <2>8. IsInjective(reader.seen)  BY DEF KeepInv, Paging
  <2> HIDE DEF want
  <2> QED  BY <2>3, <2>4, <2>5, <2>6, <2>7, <2>8 DEF Paging
<1>14. StoresWell  BY <1>2, <1>7, <1>8 DEF StoresWell
<1> QED  BY <1>8, <1>10, <1>11, <1>12, <1>13, <1>14 DEF KeepInv

\* Nothing that is being written is over age.
LEMMA AgeKeeps == ASSUME KeepInv, Age PROVE KeepInv' /\ StoresWell
<1>1. /\ \A r \in Requests : task[r].at # "writing"
      /\ horizon' = clock
      /\ UNCHANGED <<task, records, tip, clock, reader, counter>>
  BY DEF Age, eventVars
<1>2. TaskTypes' /\ TableTypes' /\ Apart'
  BY <1>1 DEF KeepInv, TaskTypes, TableTypes, Apart, InFlight
<1>3. Paging'  BY <1>1 DEF KeepInv, Paging, Seen, Of, InFlight
<1> QED  BY <1>1, <1>2, <1>3 DEF KeepInv, TaskInv, StoresWell

\* A listing begins with everything before its cursor.
LEMMA StartListingKeeps == ASSUME KeepInv, StartListing PROVE KeepInv' /\ StoresWell
<1> DEFINE new == [at |-> "paging", cursor |-> clock, seen |-> <<>>,
                   want |-> {x.id : x \in records}]
<1>1. reader' = new /\ UNCHANGED <<task, records, tip, clock, horizon, counter>>
  BY DEF StartListing, eventVars, tableVars
<1>2. \A x \in records : x.id \in Nat /\ x.ts < clock
  BY DEF KeepInv, TableTypes
<1>3. new \in ReaderType
  BY <1>2 DEF KeepInv, TableTypes, ReaderType
<1>4. Seen' = {} /\ IsInjective(reader'.seen)
  BY <1>1 DEF Seen, Of, IsInjective
<1>5. Paging'  BY <1>1, <1>2, <1>3, <1>4 DEF Paging
<1>6. TaskTypes' /\ TableTypes' /\ Apart'
  BY <1>1 DEF KeepInv, TaskTypes, TableTypes, Apart, InFlight
<1> QED  BY <1>1, <1>5, <1>6 DEF KeepInv, TaskInv, StoresWell

\* A page is the latest record before the cursor, so nothing is passed over.
LEMMA NextPageKeeps == ASSUME KeepInv, NextPage PROVE KeepInv' /\ StoresWell
<1> DEFINE rest == After(reader.cursor)
           e == CHOOSE x \in rest : \A y \in rest : PageOrder(x) >= PageOrder(y)
           new == [reader EXCEPT !.seen = Append(@, e.id), !.cursor = e.ts,
                                 !.at = IF rest = {e} THEN "read" ELSE "paging"]
<1>1. /\ reader.at = "paging"
      /\ IF rest = {} THEN reader' = [reader EXCEPT !.at = "read"] ELSE reader' = new
      /\ UNCHANGED <<task, records, tip, clock, horizon, counter>>
  BY DEF NextPage, eventVars, tableVars
<1>2. TaskTypes' /\ TableTypes' /\ Apart' /\ TaskInv' /\ StoresWell
  BY <1>1 DEF KeepInv, TaskTypes, TableTypes, Apart, InFlight, TaskInv, StoresWell
<1>3. reader \in ReaderType  BY DEF KeepInv, Paging
<1>4. \A q \in Requests : InFlight(q)' = InFlight(q)  BY <1>1 DEF InFlight
<1>5. CASE rest = {}
  <2>1. /\ reader' \in ReaderType /\ reader'.at = "read" /\ reader'.seen = reader.seen
        /\ reader'.want = reader.want
    BY <1>1, <1>3, <1>5 DEF ReaderType
  <2>2. Seen' = Seen  BY <2>1 DEF Seen, Of
  <2>3. \A i \in reader.want : i \in Seen
    BY <1>1, <1>5 DEF After, KeepInv, Paging
  <2> QED  BY <1>1, <1>2, <1>4, <2>1, <2>2, <2>3 DEF KeepInv, Paging
<1>6. CASE rest # {}
  <2>1. rest \subseteq records /\ \A x \in rest : x.ts < reader.cursor
    BY DEF After
  <2>2. \A x \in rest : x.ts \in Nat /\ x.ts <= clock /\ x.id \in Nat
    BY <2>1 DEF KeepInv, TableTypes
  <2>3. \E x \in rest : \A y \in rest : x.ts >= y.ts
    <3> DEFINE T == {x.ts : x \in rest}
    <3>1. T \in SUBSET Nat /\ T # {} /\ (\A i \in T : i <= clock) /\ clock \in Nat
      BY <1>6, <2>2 DEF KeepInv, TableTypes
    <3>2. Max(T) \in T /\ \A i \in T : i <= Max(T)
      <4> HIDE DEF T
      <4> QED  BY <3>1, MaxIsLargest
    <3>3. PICK x \in rest : x.ts = Max(T)  BY <3>2
    <3>4. \A y \in rest : y.ts \in T  OBVIOUS
    <3> HIDE DEF T
    <3>5. \A y \in rest : y.ts <= x.ts  BY <3>2, <3>3, <3>4
    <3> QED  BY <2>2, <3>5
  <2>4. e \in rest /\ \A y \in rest : e.ts >= y.ts
    BY <2>3 DEF PageOrder
  <2> DEFINE at == IF rest = {e} THEN "read" ELSE "paging"
             seen == Append(reader.seen, e.id)
  <2>5. reader' = [reader EXCEPT !.seen = seen, !.cursor = e.ts, !.at = at]
    BY <1>1, <1>6
  <2>6. at \in {"paging", "read"} /\ (at = "read" => rest = {e}) OBVIOUS
  <2> HIDE DEF rest, e, at
  <2>7. /\ e.id \in Nat /\ e.ts \in Nat /\ e.ts < reader.cursor /\ e \in records
        /\ reader.seen \in Seq(Nat) /\ reader.cursor \in Nat
    BY <1>3, <2>1, <2>2, <2>4 DEF ReaderType
  <2>8. /\ seen \in Seq(Nat) /\ Len(seen) = Len(reader.seen) + 1 /\ Len(reader.seen) \in Nat
        /\ seen[Len(reader.seen) + 1] = e.id
        /\ \A i \in 1..Len(reader.seen) : seen[i] = reader.seen[i]
        /\ Of(seen) = Of(reader.seen) \cup {e.id}
    BY <2>7, OfAppend
  <2> HIDE DEF seen
  <2>9. /\ reader' \in ReaderType /\ reader'.at = at /\ reader'.seen = seen
        /\ reader'.cursor = e.ts /\ reader'.want = reader.want
    BY <1>3, <2>5, <2>6, <2>7, <2>8 DEF ReaderType
  <2>10. Seen' = Seen \cup {e.id}  BY <2>8, <2>9 DEF Seen
  <2>11. e.id \notin Seen  BY <1>1, <2>7 DEF KeepInv, Paging
  <2>12. IsInjective(seen)
    <3>1. DOMAIN seen = 1..(Len(reader.seen) + 1)  BY <2>8
    <3>2. \A i \in 1..Len(reader.seen) : seen[i] # e.id
      BY <2>8, <2>11 DEF Seen, Of
    <3>3. \A i, j \in 1..Len(reader.seen) : seen[i] = seen[j] => i = j
      <4>1. DOMAIN reader.seen = 1..Len(reader.seen)  BY <2>7
      <4>2. \A i, j \in 1..Len(reader.seen) : reader.seen[i] = reader.seen[j] => i = j
        BY <4>1 DEF KeepInv, Paging, IsInjective
      <4> QED  BY <2>8, <4>2
    <3>4. \A i \in DOMAIN seen : i \in 1..Len(reader.seen) \/ i = Len(reader.seen) + 1
      BY <2>8, <3>1
    <3> QED  BY <2>8, <3>2, <3>3, <3>4 DEF IsInjective
  <2>13. ASSUME NEW i \in Seen \cup {e.id}
         PROVE  /\ i <= counter["compat"]
                /\ \A q \in Requests : InFlight(q) => i # task[q].id
                /\ \A x \in records : x.ts < e.ts => i # x.id
    <3>1. CASE i \in Seen
      <4>1. \A x \in records : x.ts < e.ts => x.ts < reader.cursor
        BY <2>7 DEF KeepInv, TableTypes
      <4> QED  BY <1>1, <3>1, <4>1 DEF KeepInv, Paging
    <3>2. CASE i = e.id
      <4>1. e.id <= counter["compat"]
        <5>1. e.id \in 1..counter["compat"]  BY <2>7 DEF KeepInv, TableTypes
        <5> QED  BY <5>1
      <4>2. \A q \in Requests : InFlight(q) => e.id # task[q].id
        BY <2>7 DEF KeepInv, Apart
      <4>3. \A x \in records : x.ts < e.ts => x # e  BY <2>7
      <4>4. \A x \in records : x.id = e.id => x = e
        BY <2>7 DEF KeepInv, Apart
      <4> QED  BY <3>2, <4>1, <4>2, <4>3, <4>4
    <3> QED  BY <3>1, <3>2
  <2>14. ASSUME NEW i \in reader.want, i \notin Seen, i # e.id
         PROVE  \E x \in records : x \in rest /\ x # e /\ x.id = i /\ x.ts < e.ts
    <3>1. PICK x \in records : x.id = i /\ x.ts < reader.cursor
      BY <1>1, <2>14 DEF KeepInv, Paging
    <3>2. x \in rest /\ x # e  BY <2>14, <3>1 DEF rest, After
    <3>3. x.ts # e.ts  BY <2>7, <3>2 DEF KeepInv, Apart
    <3>4. x.ts < e.ts  BY <2>2, <2>4, <2>7, <3>2, <3>3
    <3> QED  BY <3>1, <3>2, <3>4
  <2>15. at = "paging" =>
           \A i \in reader.want :
             i \in Seen \cup {e.id} \/ \E x \in records : x.id = i /\ x.ts < e.ts
    BY <2>14
  <2>16. at = "read" => \A i \in reader.want : i \in Seen \cup {e.id}
    BY <2>6, <2>14
  <2>17. Paging'
    BY <1>1, <1>4, <2>9, <2>10, <2>12, <2>13, <2>15, <2>16 DEF Paging
  <2> QED  BY <1>2, <2>17 DEF KeepInv
<1> QED  BY <1>5, <1>6

\* The policies are those an administrator submitted, numbered in turn.
LEMMA RowsKeep ==
    ASSUME RowInv, PolicyInv, [Next]_vars
    PROVE  RowInv'
<1>1. ASSUME NEW b \in Bodies, UpdatePolicy(b) PROVE RowInv'
  <2>1. /\ row.version < MaxVersion /\ row' = NextPolicy(b)
        /\ cache' = [cache EXCEPT !["console"] = row']
    BY <1>1 DEF UpdatePolicy
  <2>2. row' = Numbered(b, row.version + 1)  BY <2>1 DEF NextPolicy, PolicyInv
  <2>3. row.version \in 1..MaxVersion
    BY MonitorAssumption DEF RowInv, Rows, Default, Numbered
  <2>4. row.version + 1 \in 1..MaxVersion  BY <2>1, <2>3, MonitorAssumption
  <2>5. row' \in Rows  BY <2>2, <2>4 DEF Rows
  <2> QED  BY <2>1, <2>5 DEF RowInv
<1>2. ASSUME NEW p \in Processes, ReadPolicy(p) PROVE RowInv'
  <2>1. row' = row /\ cache' = [cache EXCEPT ![p] = Refreshed(cache[p], TRUE)]
    BY <1>2 DEF ReadPolicy
  <2>2. Refreshed(cache[p], TRUE) \in Rows  BY DEF Refreshed, RowInv
  <2> QED  BY <2>1, <2>2 DEF RowInv
<1>3. ASSUME NEW p \in Processes, Restart(p) PROVE RowInv'
  BY <1>3 DEF Restart, RowInv
<1>4. ASSUME NEW r \in Requests, Capture(r) PROVE RowInv'
  <2>1. PICK ok \in Reads : cache' = [cache EXCEPT !["compat"] = Refreshed(cache["compat"], ok)]
    BY <1>4 DEF Capture
  <2>2. row' = row  BY <1>4 DEF Capture
  <2>3. Refreshed(cache["compat"], ok) \in Rows  BY DEF Refreshed, RowInv, Processes
  <2> QED  BY <2>1, <2>2, <2>3 DEF RowInv
<1>5. ASSUME NEW r \in Requests, StartPersist(r) \/ Store(r) \/ StoreFails(r) \/ Report(r)
      PROVE  UNCHANGED <<row, cache>>
  BY <1>5 DEF StartPersist, Store, StoreFails, Report
<1>6. ASSUME NEW c \in Clients, Connect(c) \/ Deliver(c) \/ Disconnect(c)
      PROVE  UNCHANGED <<row, cache>>
  BY <1>6 DEF Connect, Deliver, Disconnect
<1>7. ASSUME Age \/ StartListing \/ NextPage \/ UNCHANGED vars
      PROVE  UNCHANGED <<row, cache>>
  BY <1>7 DEF Age, StartListing, NextPage, vars
<1>8. ASSUME UNCHANGED <<row, cache>> PROVE RowInv'
  BY <1>8 DEF RowInv
<1> QED  BY <1>1, <1>2, <1>3, <1>4, <1>5, <1>6, <1>7, <1>8 DEF Next

FullInv == MonitorInv /\ RowInv /\ EventInv /\ KeepInv

\* Nothing of the streams is touched.
LEMMA EventsAlone == ASSUME EventInv, UNCHANGED eventVars PROVE EventInv'
<1>1. UNCHANGED <<counter, replay, streams, last, refused>>  BY DEF eventVars
<1> QED
  BY <1>1 DEF EventInv, EventTypes, Buffered, Served, Connected, Pending

\* Nothing of the conversations is touched.
LEMMA TableAlone ==
    ASSUME KeepInv, UNCHANGED <<task, records, tip, clock, horizon, reader, counter>>
    PROVE  KeepInv' /\ StoresWell
<1>1. TaskTypes' /\ TableTypes' /\ Apart'
  BY DEF KeepInv, TaskTypes, TableTypes, Apart, InFlight
<1>2. Seen' = Seen /\ \A r \in Requests : InFlight(r)' = InFlight(r)
  BY DEF Seen, Of, InFlight
<1>3. Paging'  BY <1>2 DEF KeepInv, Paging
<1> QED  BY <1>1, <1>3 DEF KeepInv, TaskInv, StoresWell

\* An event of p takes the next number of p and leaves the other's alone.
LEMMA NumbersGrow ==
    ASSUME EventTypes, NEW p \in Processes, Publish(p)
    PROVE  /\ counter' \in [Processes -> Nat] /\ counter'["compat"] >= counter["compat"]
           /\ p = "compat" => counter' = [counter EXCEPT !["compat"] = counter["compat"] + 1]
<1>1. counter' = [counter EXCEPT ![p] = counter[p] + 1]  BY DEF Publish
<1>2. counter \in [Processes -> Nat] /\ counter[p] \in Nat /\ counter["compat"] \in Nat
  BY DEF EventTypes, Processes
<1>3. counter' \in [Processes -> Nat]  BY <1>1, <1>2
<1>4. CASE p = "compat"
  <2>1. counter'["compat"] = counter["compat"] + 1  BY <1>1, <1>2, <1>4
  <2> QED  BY <1>1, <1>2, <1>3, <1>4, <2>1
<1>5. CASE p # "compat"
  <2>1. counter'["compat"] = counter["compat"]  BY <1>1, <1>2, <1>5 DEF Processes
  <2> QED  BY <1>2, <1>3, <1>5, <2>1
<1> QED  BY <1>4, <1>5

\* The end of an answer.
LEMMA CaptureKeeps ==
    ASSUME FullInv, NEW r \in Requests, Capture(r), TaskInv'
    PROVE  EventInv' /\ KeepInv' /\ StoresWell
<1> DEFINE Policy(ok) == Refreshed(cache["compat"], ok)
           Mode(ok) == Decision(Policy(ok), KeyOf[r])
           Begun(ok) == [at |-> "begun", id |-> counter["compat"] + 1,
                         capacity |-> Policy(ok).capacity]
<1>1. PICK ok \in Reads :
        \/ /\ task' = [task EXCEPT ![r] = [at |-> "skipped"]]
           /\ UNCHANGED eventVars
        \/ /\ task' = [task EXCEPT ![r] = [at |-> "streamed"]]
           /\ Publish("compat")
        \/ /\ task' = [task EXCEPT ![r] = Begun(ok)]
           /\ Publish("compat")
  BY DEF Capture
<1>2. task[r].at = "waiting" /\ UNCHANGED <<records, tip, clock, horizon, reader>>
  BY DEF Capture, tableVars
<1>3. Policy(ok).capacity \in Nat \ {0}
  BY RowsOK DEF FullInv, RowInv, Refreshed, Processes
<1>4. EventTypes /\ EventInv /\ KeepInv /\ "compat" \in Processes /\ counter \in [Processes -> Nat]
      /\ TaskInv
  BY DEF FullInv, EventInv, EventTypes, Processes, KeepInv
<1> HIDE DEF Policy, Mode
<1>5. CASE task' = [task EXCEPT ![r] = [at |-> "skipped"]] /\ UNCHANGED eventVars
  <2>1. counter' = counter /\ counter["compat"] \in Nat  BY <1>4, <1>5 DEF eventVars
  <2>2. \A q \in Requests :
          task'[q] = task[q] \/ task'[q].at \in Stages \ {"begun", "writing", "stored"}
    BY <1>4, <1>5 DEF TaskInv, Stages
  <2>3. KeepInv' /\ StoresWell
    <3>1. counter'["compat"] >= counter["compat"] /\ counter' \in [Processes -> Nat]
      BY <1>4, <2>1
    <3> QED  BY <1>2, <1>4, <2>2, <3>1, EndsKeep
  <2> QED  BY <1>4, <1>5, <2>3, EventsAlone
<1>6. CASE task' = [task EXCEPT ![r] = [at |-> "streamed"]] /\ Publish("compat")
  <2>1. \A q \in Requests :
          task'[q] = task[q] \/ task'[q].at \in Stages \ {"begun", "writing", "stored"}
    BY <1>4, <1>6 DEF TaskInv, Stages
  <2>2. counter'["compat"] >= counter["compat"] /\ counter' \in [Processes -> Nat]
    BY <1>4, <1>6, NumbersGrow
  <2>3. KeepInv' /\ StoresWell  BY <1>2, <1>4, <2>1, <2>2, EndsKeep
  <2> QED  BY <1>4, <1>6, <2>3, PublishKeeps
<1>7. CASE task' = [task EXCEPT ![r] = Begun(ok)] /\ Publish("compat")
  <2>1. counter' = [counter EXCEPT !["compat"] = counter["compat"] + 1]
    BY <1>4, <1>7, NumbersGrow
  <2> DEFINE n == Policy(ok).capacity
  <2>2. task' = [task EXCEPT ![r] = [at |-> "begun", id |-> counter["compat"] + 1,
                                     capacity |-> n]]
    BY <1>7
  <2>3. n \in Nat \ {0}  BY <1>3
  <2> HIDE DEF n, Begun
  <2>4. KeepInv' /\ StoresWell  BY <1>2, <1>4, <2>1, <2>2, <2>3, BegunKeeps
  <2> QED  BY <1>4, <1>7, <2>4, PublishKeeps
<1> QED  BY <1>1, <1>5, <1>6, <1>7

\* The end of a write that failed.
LEMMA FailureKeeps ==
    ASSUME FullInv, NEW r \in Requests, StoreFails(r) \/ Report(r), TaskInv'
    PROVE  EventInv' /\ KeepInv' /\ StoresWell
<1>1. EventTypes /\ EventInv /\ KeepInv /\ "compat" \in Processes /\ counter \in [Processes -> Nat]
      /\ TaskInv
  BY DEF FullInv, EventInv, EventTypes, Processes, KeepInv
<1>2. UNCHANGED <<records, tip, clock, horizon, reader>>
  BY DEF StoreFails, Report, tableVars
<1>3. \A q \in Requests :
        task'[q] = task[q] \/ task'[q].at \in Stages \ {"begun", "writing", "stored"}
  BY <1>1 DEF TaskInv, Stages, StoreFails, Report, Failed
<1>4. CASE StoreFails(r)
  <2>1. UNCHANGED eventVars  BY <1>4 DEF StoreFails
  <2>2. counter'["compat"] >= counter["compat"] /\ counter' \in [Processes -> Nat]
    <3>1. counter' = counter /\ counter["compat"] \in Nat  BY <1>1, <2>1 DEF eventVars
    <3> QED  BY <1>1, <3>1
  <2> QED  BY <1>1, <1>2, <1>3, <2>1, <2>2, EndsKeep, EventsAlone
<1>5. CASE Report(r)
  <2>1. Publish("compat")  BY <1>5 DEF Report
  <2>2. counter'["compat"] >= counter["compat"] /\ counter' \in [Processes -> Nat]
    BY <1>1, <2>1, NumbersGrow
  <2> QED  BY <1>1, <1>2, <1>3, <2>1, <2>2, EndsKeep, PublishKeeps
<1> QED  BY <1>4, <1>5

\* A restart gives up what was on its way.
LEMMA RestartKeepsAll ==
    ASSUME FullInv, NEW p \in Processes, Restart(p), TaskInv'
    PROVE  EventInv' /\ KeepInv' /\ StoresWell
<1>1. EventTypes /\ EventInv /\ KeepInv /\ counter \in [Processes -> Nat]
  BY DEF FullInv, EventInv, EventTypes
<1>2. UNCHANGED <<records, tip, clock, horizon, reader>>
  BY DEF Restart, tableVars
<1>3. \A q \in Requests :
        task'[q] = task[q] \/ task'[q].at \in Stages \ {"begun", "writing", "stored"}
  BY DEF Restart, Stages
<1>4. counter'["compat"] >= counter["compat"] /\ counter' \in [Processes -> Nat]
  BY <1>1 DEF Restart, FirstCounter, Processes
<1> QED  BY <1>1, <1>2, <1>3, <1>4, EndsKeep, RestartEvents

\* Every step keeps the whole invariant, and what is written is kept.
LEMMA FullStep == ASSUME FullInv, [Next]_vars PROVE FullInv' /\ StoresWell
<1>1. MonitorInv' /\ TaskInv'  BY StepOK DEF FullInv, MonitorInv
<1>2. RowInv'  BY RowsKeep DEF FullInv, MonitorInv
<1>3. EventInv /\ KeepInv  BY DEF FullInv
<1>4. ASSUME NEW b \in Bodies, UpdatePolicy(b)
      PROVE  EventInv' /\ KeepInv' /\ StoresWell
  <2>1. Publish("console") /\ UNCHANGED <<task, records, tip, clock, horizon, reader>>
    BY <1>4 DEF UpdatePolicy, tableVars
  <2>2. "console" \in Processes /\ EventTypes  BY <1>3 DEF Processes, EventInv
  <2>3. EventInv'  BY <1>3, <2>1, <2>2, PublishKeeps
  <2>4. counter'["compat"] >= counter["compat"] /\ counter' \in [Processes -> Nat]
    BY <2>1, <2>2, NumbersGrow
  <2>5. \A q \in Requests : task'[q] = task[q]  BY <2>1
  <2>6. KeepInv' /\ StoresWell  BY <1>1, <1>3, <2>1, <2>2, <2>4, <2>5, EndsKeep
  <2> QED  BY <2>3, <2>6
<1>5. ASSUME NEW p \in Processes, ReadPolicy(p)
      PROVE  EventInv' /\ KeepInv' /\ StoresWell
  <2>1. UNCHANGED eventVars /\ UNCHANGED <<task, records, tip, clock, horizon, reader, counter>>
    BY <1>5 DEF ReadPolicy, eventVars, tableVars
  <2> QED  BY <1>3, <2>1, EventsAlone, TableAlone
<1>6. ASSUME NEW p \in Processes, Restart(p)
      PROVE  EventInv' /\ KeepInv' /\ StoresWell
  BY <1>1, <1>6, RestartKeepsAll
<1>7. ASSUME NEW r \in Requests, Capture(r)
      PROVE  EventInv' /\ KeepInv' /\ StoresWell
  BY <1>1, <1>7, CaptureKeeps
<1>8. ASSUME NEW r \in Requests, StartPersist(r)
      PROVE  EventInv' /\ KeepInv' /\ StoresWell
  <2>1. UNCHANGED eventVars  BY <1>8 DEF StartPersist
  <2> QED  BY <1>3, <1>8, <2>1, EventsAlone, StartPersistKeeps
<1>9. ASSUME NEW r \in Requests, Store(r)
      PROVE  EventInv' /\ KeepInv' /\ StoresWell
  <2>1. UNCHANGED eventVars  BY <1>9 DEF Store
  <2> QED  BY <1>3, <1>9, <2>1, EventsAlone, StoreKeeps
<1>10. ASSUME NEW r \in Requests, StoreFails(r) \/ Report(r)
       PROVE  EventInv' /\ KeepInv' /\ StoresWell
  BY <1>1, <1>10, FailureKeeps
<1>11. ASSUME NEW c \in Clients, Connect(c) \/ Deliver(c) \/ Disconnect(c)
       PROVE  EventInv' /\ KeepInv' /\ StoresWell
  <2>1. UNCHANGED <<task, records, tip, clock, horizon, reader, counter>>
    BY <1>11 DEF Connect, Deliver, Disconnect, tableVars
  <2>2. EventInv'  BY <1>3, <1>11, ConnectKeeps, DeliverKeeps, DisconnectKeeps
  <2> QED  BY <1>3, <2>1, <2>2, TableAlone
<1>12. ASSUME Age \/ StartListing \/ NextPage
       PROVE  EventInv' /\ KeepInv' /\ StoresWell
  <2>1. UNCHANGED eventVars  BY <1>12 DEF Age, StartListing, NextPage
  <2> QED  BY <1>3, <1>12, <2>1, EventsAlone, AgeKeeps, StartListingKeeps, NextPageKeeps
<1>13. ASSUME UNCHANGED vars
       PROVE  EventInv' /\ KeepInv' /\ StoresWell
  <2>1. UNCHANGED eventVars /\ UNCHANGED <<task, records, tip, clock, horizon, reader, counter>>
    BY <1>13 DEF vars, eventVars
  <2> QED  BY <1>3, <2>1, EventsAlone, TableAlone
<1> QED
  BY <1>1, <1>2, <1>4, <1>5, <1>6, <1>7, <1>8, <1>9, <1>10, <1>11, <1>12, <1>13
  DEF Next, FullInv

\* It holds at first.
LEMMA FullBegins == Init => FullInv
<1>1. Init => RowInv
  BY DEF Init, RowInv, Rows
<1> QED  BY <1>1, InitOK, EventsBegin, KeepBegins DEF FullInv

\* And always.
LEMMA FullAlways == Spec => []FullInv
<1>1. FullInv /\ [Next]_vars => FullInv'  BY FullStep
<1> QED  BY FullBegins, <1>1, PTL DEF Spec

\* The invariant implies the types.
LEMMA FullTypes == FullInv => TypeOK
<1> SUFFICES ASSUME FullInv PROVE TypeOK  OBVIOUS
<1>1. row \in Rows /\ cache \in [Processes -> Rows] /\ counter \in [Processes -> Nat]
  BY DEF FullInv, RowInv, EventInv, EventTypes
<1>2. ASSUME NEW s \in Seq(Nat), NEW a \in Nat, NEW b \in Nat, Orderly(s, a, b)
      PROVE  s \in Seq(1..b)
  <2>1. \A i \in 1..Len(s) : s[i] \in 1..b  BY <1>2 DEF Orderly
  <2>2. s = [i \in 1..Len(s) |-> s[i]] /\ Len(s) \in Nat  OBVIOUS
  <2> QED  BY <2>1, <2>2
<1>3. \A p \in Processes : replay[p] \in Seq(1..counter[p]) /\ Len(replay[p]) <= ReplayLimit
  <2> TAKE p \in Processes
  <2>1. replay[p] \in Seq(Nat) /\ Orderly(replay[p], 0, counter[p]) /\ counter[p] \in Nat
        /\ Len(replay[p]) <= ReplayLimit
    BY DEF FullInv, EventInv, EventTypes, Buffered
  <2> QED  BY <1>2, <2>1
<1>4. ASSUME NEW c \in Clients
      PROVE  /\ last[c] \in 0..counter[Home[c]] /\ refused[c] \subseteq 1..counter[Home[c]]
             /\ Connected(c) => /\ Pending(c) \in Seq(1..counter[Home[c]])
                                /\ Len(streams[c].queue) <= QueueLimit
                                /\ streams[c].reset \in BOOLEAN
  <2>1. Home[c] \in Processes /\ counter[Home[c]] \in Nat
    BY MonitorAssumption DEF FullInv, EventInv, EventTypes
  <2>2. /\ last[c] \in Nat /\ last[c] <= counter[Home[c]]
        /\ refused[c] \subseteq 1..counter[Home[c]]
        /\ Connected(c) => Served(c) /\ streams[c] \in StreamType
    BY DEF FullInv, EventInv, EventTypes, Connected
  <2>3. ASSUME Connected(c)
        PROVE  /\ Pending(c) \in Seq(1..counter[Home[c]])
               /\ Len(streams[c].queue) <= QueueLimit
               /\ streams[c].reset \in BOOLEAN
    <3>1. streams[c].backlog \in Seq(Nat) /\ streams[c].queue \in Seq(Nat)
          /\ streams[c].reset \in BOOLEAN /\ Served(c)
      BY <2>2, <2>3 DEF StreamType
    <3>2. Pending(c) \in Seq(Nat)  BY <3>1, Joined DEF Pending
    <3>3. Pending(c) \in Seq(1..counter[Home[c]])
      BY <1>2, <2>1, <2>2, <3>1, <3>2 DEF Served
    <3> QED  BY <3>1, <3>3 DEF Served
  <2> QED  BY <2>1, <2>2, <2>3
<1>5. ASSUME NEW r \in Requests
      PROVE  /\ task[r].at \in {"waiting", "skipped", "streamed", "begun", "writing", "stored",
                               "failed", "reported", "lost"}
             /\ task[r].at \in {"begun", "writing"} => task[r].capacity \in Nat \ {0}
  BY DEF FullInv, KeepInv, TaskTypes, Stages, InFlight
<1>6. /\ \A x \in records : x.seq \in 1..tip /\ x.ts < clock /\ x.request \in Requests
      /\ horizon \in 0..clock
  BY DEF FullInv, KeepInv, TableTypes
<1>7. reader.at \in {"idle", "paging", "read"}
  BY DEF FullInv, KeepInv, Paging, ReaderType
<1> QED  BY <1>1, <1>3, <1>4, <1>5, <1>6, <1>7 DEF TypeOK

\* The invariant implies that streams are complete.
LEMMA FullStreams == FullInv => StreamComplete
<1> SUFFICES ASSUME FullInv, NEW c \in Clients, Connected(c)
             PROVE  /\ Rising(<<last[c]>> \o Pending(c))
                    /\ \A i \in DOMAIN replay[Home[c]] :
                         replay[Home[c]][i] > last[c] =>
                           replay[Home[c]][i] \in
                             refused[c] \cup {Pending(c)[k] : k \in DOMAIN Pending(c)}
  BY Zenon DEF StreamComplete
<1>1. Home[c] \in Processes /\ replay[Home[c]] \in Seq(Nat)
  BY MonitorAssumption DEF FullInv, EventInv, EventTypes
<1>2. /\ last[c] \in Nat /\ Served(c) /\ streams[c] \in StreamType
  BY DEF FullInv, EventInv, EventTypes, Connected
<1>3. Pending(c) \in Seq(Nat)
  BY <1>2, Joined DEF Pending, StreamType
<1> DEFINE s == Pending(c)
           l == last[c]
           t == <<l>> \o s
<1>4. s \in Seq(Nat) /\ l \in Nat /\ Orderly(s, l, counter[Home[c]]) /\ Len(s) \in Nat
      /\ DOMAIN s = 1..Len(s)
  BY <1>2, <1>3 DEF Served
<1> HIDE DEF s, l
<1>5. /\ Len(t) = Len(s) + 1 /\ DOMAIN t = 1..(Len(s) + 1) /\ t[1] = l
      /\ \A i \in 1..Len(s) : t[i + 1] = s[i]
  BY <1>4
<1>6. ASSUME NEW i \in DOMAIN t, NEW j \in DOMAIN t, i < j PROVE t[i] < t[j]
  <2>1. j - 1 \in 1..Len(s) /\ t[j] = s[j - 1]  BY <1>4, <1>5, <1>6
  <2>2. CASE i = 1  BY <1>4, <1>5, <2>1, <2>2 DEF Orderly
  <2>3. CASE i # 1
    <3>1. i - 1 \in 1..Len(s) /\ t[i] = s[i - 1] /\ i - 1 < j - 1
      BY <1>4, <1>5, <1>6, <2>3
    <3> QED  BY <1>4, <2>1, <3>1 DEF Orderly
  <2> QED  BY <2>2, <2>3
<1>7. Rising(t)  BY <1>6 DEF Rising
<1>8. ASSUME NEW i \in DOMAIN replay[Home[c]], replay[Home[c]][i] > last[c]
      PROVE  replay[Home[c]][i] \in refused[c] \cup {Pending(c)[k] : k \in DOMAIN Pending(c)}
  <2>1. i \in 1..Len(replay[Home[c]])  BY <1>1
  <2>2. replay[Home[c]][i] \in Of(replay[Home[c]])  BY <2>1 DEF Of
  <2>3. replay[Home[c]][i] \in refused[c] \cup Of(Pending(c))
    BY <1>2, <1>8, <2>2 DEF Served
  <2> QED  BY <1>4, <2>3 DEF Of, s
<1> QED  BY <1>7, <1>8 DEF s, l, t

\* The invariant implies that a listing is complete.
LEMMA FullListings == FullInv => ListingComplete
<1> SUFFICES ASSUME FullInv PROVE ListingComplete  OBVIOUS
<1>1. reader.seen \in Seq(Nat) /\ IsInjective(reader.seen)
      /\ (reader.at = "read" => \A i \in reader.want : i \in Of(reader.seen))
  BY DEF FullInv, KeepInv, Paging, ReaderType, Seen
<1>2. DOMAIN reader.seen = 1..Len(reader.seen)  BY <1>1
<1> QED  BY <1>1, <1>2 DEF ListingComplete, Of

\* Types (ConversationMonitor.__init__, _init_db): buffers and queues stay within
\* their limits for any number of answers, clients, changes and restarts.
THEOREM TypeCorrect == Spec => []TypeOK
BY FullAlways, FullTypes, PTL

\* No client ever misses an event or has one twice, except what its full queue
\* refused: between backlog and queue, over reconnects and restarts (sse,
\* _publish, deque(maxlen)).
THEOREM StreamsAreComplete == Spec => []StreamComplete
BY FullAlways, FullStreams, PTL

\* Who follows next_cursor to the end has seen every record that stayed, once,
\* however many conversations are written and deleted meanwhile (list_records).
THEOREM ListingsAreComplete == Spec => []ListingComplete
BY FullAlways, FullListings, PTL

\* A conversation whose write succeeds is in the table after its transaction: its
\* number is new and its seq the highest, across restarts (_persist, __init__).
THEOREM WhatIsStoredIsKept == Spec => StoredIsKept
<1>1. FullInv /\ [Next]_vars
        => [\A r \in Requests : task[r].at = "writing" /\ task'[r].at = "stored"
              => \E x \in records' : x.request = r]_vars
  BY FullStep DEF StoresWell
<1> QED  BY FullAlways, <1>1, PTL DEF Spec, StoredIsKept
===============================================================================
