-------------------------- MODULE CompatProxy_proof --------------------------
(***************************************************************************)
(* What becomes of requests, answers and tool results: proved for every    *)
(* conversation, policy and set of lines, every length of an answer and of *)
(* its chunks, and every limit.                                            *)
(*                                                                         *)
(* Requests: the body is what the rules make of a beginning of the         *)
(* conversation, and the plan of an eviction is counted: the images before *)
(* one of a set number its place in it, so the n oldest are n, and what is *)
(* evicted are the oldest ones, more of them as the conversation goes on.  *)
(* Normal forms: each step of the recursion keeps what is defined.         *)
(*                                                                         *)
(* Answers: the invariant says where the bytes of an answer are: what went *)
(* out, the buffered line, the chunk and the rest are, in this order, the  *)
(* whole.                                                                  *)
(*                                                                         *)
(* Tool results: after each round of the loop the pairs stand for the      *)
(* lines before its index, in no more bytes than these.                    *)
(*                                                                         *)
(* The provers have no induction over recursive definitions. Recursions    *)
(* are shown to have solutions (Recursion, NormalizedRuns), and inductions *)
(* go up the numbers to the first counterexample (Upward).                 *)
(***************************************************************************)
EXTENDS ContextPolicy_proof, FiniteSetTheorems

(* ---- The oldest images -------------------------------------------------- *)

(* The images of a set before one of them.                                 *)
Ahead(ats, x) == {y \in ats : Older(y, x)}

\* Places are in a strict total order.
LEMMA OlderOrders ==
    ASSUME NEW x \in Nat \X Nat, NEW y \in Nat \X Nat
    PROVE  /\ ~Older(x, x)
           /\ x # y => Older(x, y) \/ Older(y, x)
           /\ \A z \in Nat \X Nat : Older(x, y) /\ Older(y, z) => Older(x, z)
<1>1. /\ x = <<x[1], x[2]>> /\ x[1] \in Nat /\ x[2] \in Nat
      /\ y = <<y[1], y[2]>> /\ y[1] \in Nat /\ y[2] \in Nat
  OBVIOUS
<1>2. ~Older(x, x)
  BY <1>1 DEF Older
<1>3. x # y => Older(x, y) \/ Older(y, x)
  <2>1. x # y => x[1] # y[1] \/ x[2] # y[2]
    BY <1>1
  <2>. QED BY <1>1, <2>1 DEF Older
<1>4. ASSUME NEW z \in Nat \X Nat, Older(x, y), Older(y, z) PROVE Older(x, z)
  <2>1. z[1] \in Nat /\ z[2] \in Nat
    OBVIOUS
  <2>. QED BY <1>1, <1>4, <2>1 DEF Older
<1>. QED BY <1>2, <1>3, <1>4

\* The number of images before one tells its place among all: 0, 1, ...
LEMMA Ranks ==
    ASSUME NEW ats, ats \subseteq Nat \X Nat, IsFiniteSet(ats)
    PROVE  LET rank == [x \in ats |-> Cardinality(Ahead(ats, x))]
           IN rank \in Bijection(ats, 0..Cardinality(ats) - 1)
<1>. DEFINE N == Cardinality(ats)
            rank == [x \in ats |-> Cardinality(Ahead(ats, x))]
<1>1. N \in Nat
  BY FS_CardinalityType
<1>2. ASSUME NEW x \in ats
      PROVE  /\ IsFiniteSet(Ahead(ats, x)) /\ rank[x] \in Nat /\ rank[x] < N
             /\ x \notin Ahead(ats, x)
  <2>1. Ahead(ats, x) \in SUBSET ats /\ x \notin Ahead(ats, x)
    BY OlderOrders DEF Ahead
  <2>2. IsFiniteSet(Ahead(ats, x)) /\ Cardinality(Ahead(ats, x)) <= N
        /\ (N = Cardinality(Ahead(ats, x)) => ats = Ahead(ats, x))
    BY <2>1, FS_Subset
  <2>3. Cardinality(Ahead(ats, x)) \in Nat
    BY <2>2, FS_CardinalityType
  <2>4. N # Cardinality(Ahead(ats, x))
    BY <2>1, <2>2
  <2>. HIDE DEF N
  <2>. QED BY <1>1, <2>1, <2>2, <2>3, <2>4
<1>3. ASSUME NEW x \in ats, NEW y \in ats, Older(x, y)
      PROVE  rank[x] < rank[y]
  <2>1. Ahead(ats, x) \cup {x} \in SUBSET Ahead(ats, y)
    BY <1>3, OlderOrders DEF Ahead
  <2>2. Cardinality(Ahead(ats, x) \cup {x}) <= Cardinality(Ahead(ats, y))
    BY <1>2, <2>1, FS_Subset
  <2>3. Cardinality(Ahead(ats, x) \cup {x}) = Cardinality(Ahead(ats, x)) + 1
    BY <1>2, FS_AddElement
  <2>4. rank[x] = Cardinality(Ahead(ats, x)) /\ rank[y] = Cardinality(Ahead(ats, y))
    OBVIOUS
  <2>. HIDE DEF rank
  <2>. QED BY <1>2, <2>2, <2>3, <2>4
<1>4. ASSUME NEW x \in ats, NEW y \in ats, x # y
      PROVE  rank[x] # rank[y]
  <2>1. Older(x, y) \/ Older(y, x)
    BY <1>4, OlderOrders
  <2>2. rank[x] < rank[y] \/ rank[y] < rank[x]
    BY <1>3, <2>1
  <2>. HIDE DEF rank, N
  <2>. QED BY <1>2, <2>2
<1>5. rank \in [ats -> 0..N - 1]
  <2>1. \A x \in ats : rank[x] \in 0..N - 1
    <3>. HIDE DEF rank, N
    <3>. QED BY <1>1, <1>2
  <2>. QED BY <2>1
<1>6. rank \in Injection(ats, 0..N - 1)
  <2>. HIDE DEF rank, N
  <2>. QED BY <1>4, <1>5 DEF Injection, IsInjective
<1>7. IsFiniteSet(0..N - 1) /\ Cardinality(0..N - 1) = N
  <2>. HIDE DEF N
  <2>. QED BY <1>1, FS_Interval
<1>8. rank \in Surjection(ats, 0..N - 1)
  <2>. HIDE DEF rank
  <2>. QED BY <1>6, <1>7, FS_Injection
<1>. QED BY <1>6, <1>8 DEF Bijection

\* Oldest takes n of a set, none for a negative number, all if there are fewer.
LEMMA OldestCounts ==
    ASSUME NEW ats, ats \subseteq Nat \X Nat, IsFiniteSet(ats), NEW n \in Int
    PROVE  /\ Oldest(ats, n) \subseteq ats /\ IsFiniteSet(Oldest(ats, n))
           /\ n <= 0 => Oldest(ats, n) = {} /\ Cardinality(Oldest(ats, n)) = 0
           /\ n >= Cardinality(ats) =>
                Oldest(ats, n) = ats /\ Cardinality(Oldest(ats, n)) = Cardinality(ats)
           /\ 0 <= n /\ n <= Cardinality(ats) => Cardinality(Oldest(ats, n)) = n
<1>. DEFINE N == Cardinality(ats)
            rank == [x \in ats |-> Cardinality(Ahead(ats, x))]
            old == Oldest(ats, n)
<1>1. N \in Nat /\ rank \in Bijection(ats, 0..N - 1)
  BY FS_CardinalityType, Ranks
<1>2. old = {x \in ats : rank[x] < n}
  BY DEF Oldest, Ahead
<1>. HIDE DEF N, rank, old
<1>3. /\ \A x \in ats : rank[x] \in 0..N - 1
      /\ \A x, y \in ats : rank[x] = rank[y] => x = y
      /\ \A k \in 0..N - 1 : \E x \in ats : rank[x] = k
  BY <1>1 DEF Bijection, Injection, Surjection, IsInjective
<1>4. old \subseteq ats /\ IsFiniteSet(old)
  BY <1>2, FS_Subset
<1>5. n <= 0 => old = {} /\ Cardinality(old) = 0
  <2>1. n <= 0 => old = {}
    <3>1. \A x \in ats : rank[x] \in Nat
      BY <1>1, <1>3
    <3>. QED BY <1>2, <3>1
  <2>. QED BY <2>1, FS_EmptySet
<1>6. n >= N => old = ats
  BY <1>1, <1>2, <1>3
<1>7. ASSUME 0 <= n, n <= N PROVE Cardinality(old) = n
  <2>. DEFINE f == [x \in old |-> rank[x]]
  <2>1. \A x \in old : x \in ats /\ rank[x] \in 0..n - 1
    BY <1>1, <1>2, <1>3
  <2>2. ASSUME NEW k \in 0..n - 1 PROVE \E x \in old : rank[x] = k
    <3>1. k \in 0..N - 1 /\ k < n
      BY <1>1, <1>7
    <3>2. PICK x \in ats : rank[x] = k
      BY <1>3, <3>1
    <3>. QED BY <1>2, <3>1, <3>2
  <2>3. f \in [old -> 0..n - 1]
    BY <2>1
  <2>4. f \in Bijection(old, 0..n - 1)
    BY <1>3, <2>1, <2>2, <2>3 DEF Bijection, Injection, Surjection, IsInjective
  <2>5. ExistsBijection(old, 0..n - 1)
    BY <2>4 DEF ExistsBijection
  <2>6. Cardinality(0..n - 1) = Cardinality(old)
    BY <1>4, <2>5, FS_Bijection
  <2>. QED BY <1>7, <2>6, FS_Interval
<1>. QED BY <1>4, <1>5, <1>6, <1>7 DEF N, old

\* What Oldest leaves is later than what it takes.
LEMMA OldestFirst ==
    ASSUME NEW ats, ats \subseteq Nat \X Nat, IsFiniteSet(ats), NEW n \in Int,
           NEW x \in Oldest(ats, n), NEW y \in ats \ Oldest(ats, n)
    PROVE  Older(x, y)
<1>. SUFFICES ASSUME ~Older(x, y) PROVE FALSE
  OBVIOUS
<1>1. x \in ats /\ x # y /\ Cardinality(Ahead(ats, x)) < n
  BY DEF Oldest, Ahead
<1>2. Older(y, x)
  BY <1>1, OlderOrders
<1>3. Ahead(ats, y) \in SUBSET Ahead(ats, x)
  BY <1>1, <1>2, OlderOrders DEF Ahead
<1>4. IsFiniteSet(Ahead(ats, x))
  BY FS_Subset DEF Ahead
<1>5. /\ Cardinality(Ahead(ats, y)) <= Cardinality(Ahead(ats, x))
      /\ Cardinality(Ahead(ats, y)) \in Nat /\ Cardinality(Ahead(ats, x)) \in Nat
  BY <1>3, <1>4, FS_Subset, FS_CardinalityType
<1>6. ~(Cardinality(Ahead(ats, y)) < n)
  BY DEF Oldest, Ahead
<1>. QED BY <1>1, <1>5, <1>6

(* ---- Normal forms ------------------------------------------------------- *)

(* Messages of a conversation and of what becomes of it.                   *)
Part == [kind : Kinds \cup {"short", "placeholder"}, at : Nat \X Nat]
PartList == Seq(Part)
Roles == {m.role : m \in Remarks} \cup {"user"}
Message == [role : Roles, parts : PartList]
Talk == Seq(Message)

\* Every nonempty set of naturals has a least element.
LEMMA LeastNumber ==
    ASSUME NEW T \in SUBSET Nat, T # {}
    PROVE  \E m \in T : \A n \in T : m <= n
<1> DEFINE R == OpToRel(<, Nat)
<1>1. IsWellFoundedOn(R, Nat)  BY NatLessThanWellFounded
<1>2. \A x, y \in Nat : <<x, y>> \in R <=> x < y  BY DEF OpToRel
<1> HIDE DEF R
<1>3. PICK x \in T : \A y \in T : ~ (<<y, x>> \in R)  BY <1>1, WFMin, Zenon
<1>4. x \in Nat /\ \A y \in T : y \in Nat  OBVIOUS
<1>5. ASSUME NEW y \in T PROVE x <= y
  <2>1. ~(y < x)  BY <1>2, <1>3, <1>4, <1>5
  <2> QED  BY <2>1, <1>4
<1> QED  BY <1>5

\* So what holds of 0, and of a number if of the one before, holds up to n.
LEMMA Upward ==
    ASSUME NEW n \in Nat, NEW T, 0 \in T,
           \A k \in 0..n : k > 0 /\ k - 1 \in T => k \in T
    PROVE  0..n \subseteq T
<1>. DEFINE U == {k \in 0..n : k \notin T}
<1>. SUFFICES ASSUME U # {} PROVE FALSE
  OBVIOUS
<1>1. U \in SUBSET Nat
  OBVIOUS
<1>2. PICK k \in U : \A j \in U : k <= j
  <2>. HIDE DEF U
  <2>. QED BY <1>1, LeastNumber
<1>3. k \in 0..n /\ k \notin T /\ k # 0
  OBVIOUS
<1>4. k - 1 \in 0..n /\ ~(k <= k - 1)
  BY <1>3
<1>5. k - 1 \in T
  BY <1>2, <1>4
<1>. QED BY <1>3, <1>5

(* What a recursion from base makes of 0 to N.                             *)
Recurses(f, N, base, G) ==
    \A n \in 0..N : f[n] = IF n = 0 THEN base ELSE G[<<f[n - 1], n>>]

\* A recursion whose steps stay within a set has a solution.
LEMMA Recursion ==
    ASSUME NEW N \in Nat, NEW D, NEW base \in D, NEW G \in [D \X (1..N) -> D]
    PROVE  \E f \in [0..N -> D] : Recurses(f, N, base, G)
<1>. DEFINE Runs(f, n) == /\ f \in [0..n -> D] /\ f[0] = base
                          /\ \A k \in 1..n : f[k] = G[<<f[k - 1], k>>]
            T == {n \in 0..N : \E f : Runs(f, n)}
<1>1. 0 \in T
  <2>. DEFINE f == [k \in 0..0 |-> base]
  <2>1. f \in [0..0 -> D] /\ f[0] = base /\ \A k : k \notin 1..0
    OBVIOUS
  <2>. HIDE DEF f
  <2>2. Runs(f, 0)
    BY <2>1
  <2>. HIDE DEF Runs
  <2>. QED BY <2>2
<1>2. ASSUME NEW n \in 0..N, n > 0, n - 1 \in T PROVE n \in T
  <2>1. PICK f : Runs(f, n - 1)
    BY <1>2
  <2>. DEFINE x == G[<<f[n - 1], n>>]
              g == [k \in 0..n |-> IF k = n THEN x ELSE f[k]]
  <2>2. n - 1 \in 0..n - 1 /\ n \in 1..N /\ n \in 0..n
    BY <1>2
  <2>3. x \in D
    <3>1. f[n - 1] \in D
      BY <2>1, <2>2
    <3>. QED BY <2>2, <3>1
  <2>. HIDE DEF x
  <2>4. \A k \in 0..n : k # n => k \in 0..n - 1
    OBVIOUS
  <2>5. g \in [0..n -> D] /\ g[n] = x /\ \A k \in 0..n - 1 : g[k] = f[k]
    <3>1. \A k \in 0..n - 1 : k \in 0..n /\ k # n
      BY <1>2
    <3>. QED BY <2>1, <2>2, <2>3, <2>4, <3>1
  <2>. HIDE DEF g
  <2>6. ASSUME NEW k \in 1..n PROVE g[k] = G[<<g[k - 1], k>>]
    <3>1. k - 1 \in 0..n - 1
      BY <1>2
    <3>2. CASE k = n
      BY <2>5, <3>1, <3>2 DEF x
    <3>3. CASE k # n
      <4>1. k \in 0..n - 1 /\ k \in 1..n - 1
        BY <1>2, <3>3
      <4>. QED BY <2>1, <2>5, <3>1, <4>1
    <3>. QED BY <3>2, <3>3
  <2>7. g[0] = base
    <3>1. 0 \in 0..n - 1
      BY <1>2
    <3>. QED BY <2>1, <2>5, <3>1
  <2>8. Runs(g, n)
    BY <2>5, <2>6, <2>7
  <2>. HIDE DEF Runs
  <2>. QED BY <2>8
<1>. HIDE DEF T
<1>3. 0..N \subseteq T
  BY <1>1, <1>2, Upward
<1>4. N \in 0..N
  OBVIOUS
<1>5. N \in T
  BY <1>3, <1>4
<1>6. PICK f : Runs(f, N)
  BY <1>5 DEF T
<1>7. ASSUME NEW n \in 0..N PROVE f[n] = IF n = 0 THEN base ELSE G[<<f[n - 1], n>>]
  <2>1. n # 0 => n \in 1..N
    OBVIOUS
  <2>. QED BY <1>6, <2>1
<1>. QED BY <1>6, <1>7 DEF Recurses

\* What has been placed is messages.
LEMMA PlacedTyped ==
    ASSUME NEW out \in Talk, NEW msg \in Message
    PROVE  Placed(out, msg) \in Talk
<1>1. CASE msg.role # "system"
  BY <1>1 DEF Placed, Talk
<1>2. CASE msg.role = "system" /\ Target(out) > 0
  <2>. DEFINE t == Target(out)
              q == out[t].parts \o msg.parts
              res == [out EXCEPT ![t].parts = q]
  <2>1. Placed(out, msg) = res
    BY <1>2 DEF Placed
  <2>2. CASE t \in DOMAIN out
    <3>1. out[t] \in Message
      BY <2>2 DEF Talk
    <3>2. q \in PartList
      BY <3>1 DEF Message, PartList
    <3>. HIDE DEF q, t
    <3>. DEFINE e == [out[t] EXCEPT !.parts = q]
    <3>3. e \in Message
      BY <3>1, <3>2 DEF Message
    <3>4. res = [out EXCEPT ![t] = e]
      BY <2>2
    <3>. HIDE DEF res, e
    <3>5. out \in [1..Len(out) -> Message] /\ Len(out) \in Nat
      BY DEF Talk
    <3>6. res \in [1..Len(out) -> Message]
      BY <3>3, <3>4, <3>5
    <3>7. res \in Seq(Message)
      BY <3>5, <3>6
    <3>. QED BY <2>1, <3>7 DEF Talk
  <2>3. CASE t \notin DOMAIN out
    <3>. HIDE DEF q, t
    <3>1. res = out
      BY <2>3 DEF Talk
    <3>. QED BY <2>1, <3>1
  <2>. QED BY <2>2, <2>3
<1>3. CASE msg.role = "system" /\ ~(Target(out) > 0)
  <2>1. [role |-> "user", parts |-> msg.parts] \in Message
    BY DEF Message, Roles
  <2>. QED BY <1>3, <2>1 DEF Placed, Talk
<1>. QED BY <1>1, <1>2, <1>3

(* What the recursion over the first n messages makes of each beginning.   *)
Normalizes(f, msgs, n) ==
    f = [k \in 0..n |-> IF k = 0 THEN <<>> ELSE Placed(f[k - 1], msgs[k])]

\* The recursion has a solution.
LEMMA NormalizedRuns ==
    ASSUME NEW msgs \in Talk
    PROVE  \E f : Normalizes(f, msgs, Len(msgs)) /\ Normalized(msgs) = f[Len(msgs)]
<1>. DEFINE N == Len(msgs)
            none == <<>>
            G == [p \in Talk \X (1..N) |-> Placed(p[1], msgs[p[2]])]
            Runs(f) == f = [k \in 0..N |-> IF k = 0 THEN <<>> ELSE Placed(f[k - 1], msgs[k])]
            up == CHOOSE f : Runs(f)
<1>1. N \in Nat /\ none \in Talk /\ \A k \in 1..N : msgs[k] \in Message
  BY DEF Talk
<1>2. Normalized(msgs) = up[N]
  BY DEF Normalized
<1>3. \A p \in Talk \X (1..N) : Placed(p[1], msgs[p[2]]) \in Talk
  <2>1. \A p \in Talk \X (1..N) : p[1] \in Talk /\ p[2] \in 1..N
    OBVIOUS
  <2>. QED BY <1>1, <2>1, PlacedTyped
<1>. HIDE DEF N, none
<1>4. G \in [Talk \X (1..N) -> Talk]
      /\ \A x \in Talk, n \in 1..N : G[<<x, n>>] = Placed(x, msgs[n])
  BY <1>3
<1>. HIDE DEF G
<1>5. PICK f \in [0..N -> Talk] : Recurses(f, N, none, G)
  BY <1>1, <1>4, Recursion
<1>6. ASSUME NEW k \in 0..N
      PROVE  f[k] = IF k = 0 THEN none ELSE Placed(f[k - 1], msgs[k])
  <2>1. k # 0 => k \in 1..N /\ k - 1 \in 0..N
    BY <1>1
  <2>. QED BY <1>4, <1>5, <2>1 DEF Recurses
<1>7. Runs(f)
  BY <1>5, <1>6 DEF none
<1>8. Runs(up)
  <2>. HIDE DEF Runs
  <2>. QED BY <1>7
<1>. HIDE DEF up
<1>. QED BY <1>2, <1>8 DEF Normalizes, N

\* Each step places a message among messages.
LEMMA RunsTyped ==
    ASSUME NEW msgs \in Talk, NEW f, Normalizes(f, msgs, Len(msgs))
    PROVE  /\ f[0] = <<>>
           /\ \A k \in 0..Len(msgs) : f[k] \in Talk
           /\ \A k \in 1..Len(msgs) : msgs[k] \in Message /\ f[k] = Placed(f[k - 1], msgs[k])
<1>. DEFINE L == Len(msgs)
            T == {k \in 0..L : f[k] \in Talk}
<1>2. L \in Nat /\ 0 \in 0..L /\ \A k \in 1..L : msgs[k] \in Message
  BY DEF Talk
<1>3. \A k \in 0..L : f[k] = IF k = 0 THEN <<>> ELSE Placed(f[k - 1], msgs[k])
  BY DEF Normalizes
<1>4. 0 \in T
  <2>1. <<>> \in Talk
    BY DEF Talk
  <2>. QED BY <1>2, <1>3, <2>1
<1>5. ASSUME NEW k \in 0..L, k > 0, k - 1 \in T PROVE k \in T
  <2>1. k \in 1..L /\ msgs[k] \in Message
    BY <1>2, <1>5
  <2>2. f[k - 1] \in Talk
    BY <1>5
  <2>3. f[k] = Placed(f[k - 1], msgs[k])
    BY <1>2, <1>3, <1>5, <2>1
  <2>. QED BY <2>1, <2>2, <2>3, PlacedTyped
<1>. HIDE DEF T
<1>6. 0..L \subseteq T
  BY <1>2, <1>4, <1>5, Upward
<1>7. \A k \in 1..L : k \in 0..L /\ k # 0
  BY <1>2
<1>. QED BY <1>2, <1>3, <1>6, <1>7 DEF T

\* The normal form of a conversation is messages.
LEMMA NormalizedTyped ==
    ASSUME NEW msgs \in Talk
    PROVE  Normalized(msgs) \in Talk
<1>1. Len(msgs) \in 0..Len(msgs)
  BY DEF Talk
<1>. QED BY <1>1, NormalizedRuns, RunsTyped

(* ---- Images ------------------------------------------------------------- *)

\* What a conversation is made of.
LEMMA TalkTyped ==
    ASSUME NEW msgs \in Talk
    PROVE  /\ Len(msgs) \in Nat /\ DOMAIN msgs = 1..Len(msgs)
           /\ \A i \in DOMAIN msgs :
                /\ msgs[i] \in Message /\ msgs[i].parts \in PartList
                /\ Len(msgs[i].parts) \in Nat
                /\ DOMAIN msgs[i].parts = 1..Len(msgs[i].parts)
                /\ \A k \in DOMAIN msgs[i].parts : msgs[i].parts[k] \in Part
<1>1. Len(msgs) \in Nat /\ DOMAIN msgs = 1..Len(msgs)
  BY DEF Talk
<1>2. ASSUME NEW i \in DOMAIN msgs
      PROVE  msgs[i] \in Message /\ msgs[i].parts \in PartList
  <2>1. msgs[i] \in Message
    BY DEF Talk
  <2>. QED BY <2>1 DEF Message
<1>3. ASSUME NEW s \in PartList
      PROVE  Len(s) \in Nat /\ DOMAIN s = 1..Len(s) /\ \A k \in DOMAIN s : s[k] \in Part
  BY DEF PartList
<1>. QED BY <1>1, <1>2, <1>3

\* Where images are.
LEMMA ImagesAre ==
    ASSUME NEW msgs \in Talk
    PROVE  /\ \A i, k : <<i, k>> \in Images(msgs) <=>
                 /\ i \in DOMAIN msgs /\ k \in DOMAIN msgs[i].parts
                 /\ msgs[i].parts[k].kind = "image"
           /\ \A at \in Images(msgs) : at = <<at[1], at[2]>>
<1>. DEFINE In(i) == {i} \X DOMAIN msgs[i].parts
<1>1. \A at : at \in Images(msgs) <=>
         /\ \E i \in DOMAIN msgs : at \in In(i)
         /\ msgs[at[1]].parts[at[2]].kind = "image"
  BY DEF Images
<1>2. ASSUME NEW i, NEW k
      PROVE  <<i, k>> \in Images(msgs) <=>
                 /\ i \in DOMAIN msgs /\ k \in DOMAIN msgs[i].parts
                 /\ msgs[i].parts[k].kind = "image"
  <2>1. (\E j \in DOMAIN msgs : <<i, k>> \in In(j))
           <=> i \in DOMAIN msgs /\ k \in DOMAIN msgs[i].parts
    OBVIOUS
  <2>2. <<i, k>>[1] = i /\ <<i, k>>[2] = k
    OBVIOUS
  <2>. HIDE DEF In
  <2>. QED BY <1>1, <2>1, <2>2
<1>3. \A i : \A at \in In(i) : at = <<at[1], at[2]>>
  OBVIOUS
<1>. HIDE DEF In
<1>. QED BY <1>1, <1>2, <1>3

\* There are finitely many.
LEMMA ImagesFinite ==
    ASSUME NEW msgs \in Talk
    PROVE  Images(msgs) \subseteq Nat \X Nat /\ IsFiniteSet(Images(msgs))
<1>. DEFINE In(i) == {i} \X DOMAIN msgs[i].parts
            rows == {In(i) : i \in 1..Len(msgs)}
<1>1. Len(msgs) \in Nat /\ DOMAIN msgs = 1..Len(msgs)
  BY TalkTyped
<1>2. ASSUME NEW i \in 1..Len(msgs)
      PROVE  IsFiniteSet(In(i)) /\ In(i) \subseteq Nat \X Nat
  <2>. DEFINE m == Len(msgs[i].parts)
  <2>1. m \in Nat /\ DOMAIN msgs[i].parts = 1..m
    BY <1>1, TalkTyped
  <2>. HIDE DEF m
  <2>2. IsFiniteSet(1..m)
    <3>1. 1 \in Int /\ m \in Int
      BY <2>1
    <3>. QED BY <3>1, FS_Interval
  <2>3. IsFiniteSet({i})
    BY FS_Singleton
  <2>4. i \in Nat /\ 1..m \subseteq Nat
    BY <1>1, <2>1
  <2>. QED BY <2>1, <2>2, <2>3, <2>4, FS_Product
<1>3. IsFiniteSet(1..Len(msgs))
  BY <1>1, FS_Interval
<1>4. IsFiniteSet(rows)
  <2>. DEFINE f == [i \in 1..Len(msgs) |-> In(i)]
  <2>. HIDE DEF In
  <2>1. f \in Surjection(1..Len(msgs), rows)
    BY DEF Surjection
  <2>. HIDE DEF f, rows
  <2>. QED BY <1>3, <2>1, FS_Surjection
<1>5. IsFiniteSet(UNION rows)
  <2>1. \A r \in rows : IsFiniteSet(r)
    BY <1>2
  <2>. HIDE DEF rows
  <2>. QED BY <1>4, <2>1, FS_UNION
<1>6. UNION rows \subseteq Nat \X Nat
  <2>. HIDE DEF In
  <2>. QED BY <1>2
<1>7. Images(msgs) \in SUBSET UNION rows
  BY <1>1 DEF Images
<1>. HIDE DEF rows
<1>. QED BY <1>5, <1>6, <1>7, FS_Subset

(* The messages with other parts.                                          *)
With(msgs, new) == [i \in DOMAIN msgs |-> [msgs[i] EXCEPT !.parts = new[i]]]

\* Messages whose parts are replaced, one by one.
LEMMA Replaced ==
    ASSUME NEW msgs \in Talk, NEW new,
           \A i \in DOMAIN msgs : new[i] \in [DOMAIN msgs[i].parts -> Part]
    PROVE  LET out == With(msgs, new)
           IN /\ out \in Talk /\ DOMAIN out = DOMAIN msgs
              /\ \A i \in DOMAIN msgs :
                   /\ out[i].parts = new[i]
                   /\ DOMAIN out[i].parts = DOMAIN msgs[i].parts
<1>. DEFINE out == With(msgs, new)
<1>1. Len(msgs) \in Nat /\ DOMAIN msgs = 1..Len(msgs)
  BY DEF Talk
<1>2. ASSUME NEW i \in DOMAIN msgs
      PROVE  /\ out[i] \in Message
             /\ out[i].parts = new[i] /\ DOMAIN out[i].parts = DOMAIN msgs[i].parts
  <2>1. msgs[i] \in Message
    BY TalkTyped
  <2>2. Len(msgs[i].parts) \in Nat /\ DOMAIN msgs[i].parts = 1..Len(msgs[i].parts)
    BY TalkTyped
  <2>3. new[i] \in [1..Len(msgs[i].parts) -> Part] /\ DOMAIN new[i] = DOMAIN msgs[i].parts
    BY <2>2
  <2>4. new[i] \in PartList
    BY <2>2, <2>3 DEF PartList
  <2>. QED BY <2>1, <2>3, <2>4 DEF Message, With
<1>3. out \in [1..Len(msgs) -> Message] /\ DOMAIN out = DOMAIN msgs
  BY <1>1, <1>2 DEF With
<1>4. out \in Talk
  BY <1>1, <1>3 DEF Talk
<1>. QED BY <1>2, <1>3, <1>4

\* The text rules touch no image.
LEMMA ShortenedImages ==
    ASSUME NEW msgs \in Talk
    PROVE  Shortened(msgs) \in Talk /\ Images(Shortened(msgs)) = Images(msgs)
<1>. DEFINE P(i, k) == IF Shortens(msgs[i].role, msgs[i].parts[k].kind)
                       THEN [msgs[i].parts[k] EXCEPT !.kind = "short"] ELSE msgs[i].parts[k]
            new == [i \in DOMAIN msgs |-> [k \in DOMAIN msgs[i].parts |-> P(i, k)]]
            out == Shortened(msgs)
<1>1. ASSUME NEW i \in DOMAIN msgs, NEW k \in DOMAIN msgs[i].parts
      PROVE  P(i, k) \in Part /\ (P(i, k).kind = "image" <=> msgs[i].parts[k].kind = "image")
  <2>1. msgs[i].parts[k] \in Part
    BY TalkTyped
  <2>. QED BY <2>1 DEF Part, Shortens, Rewritable
<1>2. out = With(msgs, new)
  <2>1. \A i \in DOMAIN msgs : new[i] = [k \in DOMAIN msgs[i].parts |-> P(i, k)]
    OBVIOUS
  <2>. HIDE DEF new
  <2>. QED BY <2>1 DEF Shortened, With
<1>3. \A i \in DOMAIN msgs : /\ new[i] = [k \in DOMAIN msgs[i].parts |-> new[i][k]]
                             /\ \A k \in DOMAIN msgs[i].parts : new[i][k] = P(i, k)
  <2>. HIDE DEF P
  <2>. QED OBVIOUS
<1>. HIDE DEF P
<1>7. \A i \in DOMAIN msgs : new[i] \in [DOMAIN msgs[i].parts -> Part]
  <2>. HIDE DEF new
  <2>. QED BY <1>1, <1>3
<1>. HIDE DEF new, out
<1>4. /\ out \in Talk /\ DOMAIN out = DOMAIN msgs
      /\ \A i \in DOMAIN msgs : out[i].parts = new[i]
                                /\ DOMAIN out[i].parts = DOMAIN msgs[i].parts
  BY <1>2, <1>7, Replaced
<1>5. ASSUME NEW i, NEW k
      PROVE  <<i, k>> \in Images(out) <=> <<i, k>> \in Images(msgs)
  <2>1. <<i, k>> \in Images(out) <=> /\ i \in DOMAIN out /\ k \in DOMAIN out[i].parts
                                    /\ out[i].parts[k].kind = "image"
    BY <1>4, ImagesAre
  <2>2. <<i, k>> \in Images(msgs) <=> /\ i \in DOMAIN msgs /\ k \in DOMAIN msgs[i].parts
                                     /\ msgs[i].parts[k].kind = "image"
    BY ImagesAre
  <2>3. CASE i \in DOMAIN msgs /\ k \in DOMAIN msgs[i].parts
    <3>1. out[i].parts[k] = P(i, k)
      BY <1>3, <1>4, <2>3
    <3>2. i \in DOMAIN out /\ k \in DOMAIN out[i].parts
      BY <1>4, <2>3
    <3>. QED BY <1>1, <2>1, <2>2, <2>3, <3>1, <3>2
  <2>4. CASE ~(i \in DOMAIN msgs /\ k \in DOMAIN msgs[i].parts)
    <3>1. ~(i \in DOMAIN out /\ k \in DOMAIN out[i].parts)
      BY <1>4, <2>4
    <3>. QED BY <2>1, <2>2, <2>4, <3>1
  <2>. QED BY <2>3, <2>4
<1>6. Images(out) = Images(msgs)
  BY <1>4, <1>5, ImagesAre
<1>. QED BY <1>4, <1>6 DEF out

\* An eviction takes the images that are planned, and no others.
LEMMA EvictedImages ==
    ASSUME NEW msgs \in Talk, NEW plan
    PROVE  Evicted(msgs, plan) \in Talk /\ Images(Evicted(msgs, plan)) = Images(msgs) \ plan
<1>. DEFINE P(i, k) == IF <<i, k>> \in plan
                       THEN [msgs[i].parts[k] EXCEPT !.kind = "placeholder"]
                       ELSE msgs[i].parts[k]
            new == [i \in DOMAIN msgs |-> [k \in DOMAIN msgs[i].parts |-> P(i, k)]]
            out == Evicted(msgs, plan)
<1>1. ASSUME NEW i \in DOMAIN msgs, NEW k \in DOMAIN msgs[i].parts
      PROVE  /\ P(i, k) \in Part
             /\ P(i, k).kind = "image" <=>
                  msgs[i].parts[k].kind = "image" /\ <<i, k>> \notin plan
  <2>1. msgs[i].parts[k] \in Part
    BY TalkTyped
  <2>. QED BY <2>1 DEF Part
<1>2. out = With(msgs, new)
  <2>1. \A i \in DOMAIN msgs : new[i] = [k \in DOMAIN msgs[i].parts |-> P(i, k)]
    OBVIOUS
  <2>. HIDE DEF new
  <2>. QED BY <2>1 DEF Evicted, With
<1>3. \A i \in DOMAIN msgs : /\ new[i] = [k \in DOMAIN msgs[i].parts |-> new[i][k]]
                             /\ \A k \in DOMAIN msgs[i].parts : new[i][k] = P(i, k)
  <2>. HIDE DEF P
  <2>. QED OBVIOUS
<1>. HIDE DEF P
<1>7. \A i \in DOMAIN msgs : new[i] \in [DOMAIN msgs[i].parts -> Part]
  <2>. HIDE DEF new
  <2>. QED BY <1>1, <1>3
<1>. HIDE DEF new, out
<1>4. /\ out \in Talk /\ DOMAIN out = DOMAIN msgs
      /\ \A i \in DOMAIN msgs : out[i].parts = new[i]
                                /\ DOMAIN out[i].parts = DOMAIN msgs[i].parts
  BY <1>2, <1>7, Replaced
<1>5. ASSUME NEW i, NEW k
      PROVE  <<i, k>> \in Images(out) <=> <<i, k>> \in Images(msgs) /\ <<i, k>> \notin plan
  <2>1. <<i, k>> \in Images(out) <=> /\ i \in DOMAIN out /\ k \in DOMAIN out[i].parts
                                    /\ out[i].parts[k].kind = "image"
    BY <1>4, ImagesAre
  <2>2. <<i, k>> \in Images(msgs) <=> /\ i \in DOMAIN msgs /\ k \in DOMAIN msgs[i].parts
                                     /\ msgs[i].parts[k].kind = "image"
    BY ImagesAre
  <2>3. CASE i \in DOMAIN msgs /\ k \in DOMAIN msgs[i].parts
    <3>1. out[i].parts[k] = P(i, k)
      BY <1>3, <1>4, <2>3
    <3>2. i \in DOMAIN out /\ k \in DOMAIN out[i].parts
      BY <1>4, <2>3
    <3>. QED BY <1>1, <2>1, <2>2, <2>3, <3>1, <3>2
  <2>4. CASE ~(i \in DOMAIN msgs /\ k \in DOMAIN msgs[i].parts)
    <3>1. ~(i \in DOMAIN out /\ k \in DOMAIN out[i].parts)
      BY <1>4, <2>4
    <3>. QED BY <2>1, <2>2, <2>4, <3>1
  <2>. QED BY <2>3, <2>4
<1>6. Images(out) = Images(msgs) \ plan
  BY <1>4, <1>5, ImagesAre
<1>. QED BY <1>4, <1>6 DEF out

(* ---- The plan ----------------------------------------------------------- *)

(* What ImagesRight asks, of any set of images and any configuration:      *)
(* refs, those just shown among them, and those that are left.             *)
PlanRight(refs, shown, left, config) ==
    LET gone == refs \ left
    IN /\ left \subseteq refs
       /\ \A x \in gone, y \in left : (x \in shown <=> y \in shown) => Older(x, y)
       /\ IF config.limit = 0 \/ (~Canary(config) /\ ~config.guard) THEN gone = {}
          ELSE /\ Cardinality(left) <= config.limit
               /\ Canary(config) /\ gone # {} =>
                    left \subseteq shown \/ Cardinality(left) <= config.keep
               /\ gone \cap shown # {} =>
                    left \subseteq shown /\ Cardinality(left) = config.limit

\* How the two parts of a plan share what has to go: of U older images n1 at
\* most, and then of P that were just shown as many as are still too many.
LEMMA Shares ==
    ASSUME NEW U \in Nat, NEW P \in Nat, NEW limit \in Nat, NEW keep \in Nat,
           NEW target \in Nat, NEW c1 \in Nat, NEW c2 \in Nat,
           limit > 0, U + P > limit, target <= limit,
           U + P - target >= U => c1 = U, U + P - target <= U => c1 = U + P - target,
           ((U + P) - c1) - limit <= 0 => c2 = 0,
           ((U + P) - c1) - limit >= P => c2 = P,
           0 <= ((U + P) - c1) - limit /\ ((U + P) - c1) - limit <= P =>
               c2 = ((U + P) - c1) - limit
    PROVE  /\ (U + P) - (c1 + c2) <= limit
           /\ c1 # U => (U + P) - (c1 + c2) <= target
           /\ c2 # 0 => c1 = U /\ (U + P) - (c1 + c2) = limit
<1>1. CASE U + P - target >= U
  BY <1>1
<1>2. CASE U + P - target < U
  BY <1>2
<1>. QED BY <1>1, <1>2

\* The plan keeps the limits, and spares what was just shown as long as it can.
LEMMA PlanKeeps ==
    ASSUME NEW msgs \in Talk, NEW config, config.limit \in Nat, config.keep \in Nat,
           config.guard \in BOOLEAN
    PROVE  PlanRight(Images(msgs),
                     {at \in Images(msgs) : at[1] = LastOf("user", msgs)},
                     Images(msgs) \ Plan(msgs, config, Canary(config)), config)
<1>. DEFINE refs == Images(msgs)
            shown == {at \in refs : at[1] = LastOf("user", msgs)}
            older == refs \ shown
            canary == Canary(config)
            total == Cardinality(refs)
            target == IF canary /\ config.keep < config.limit THEN config.keep ELSE config.limit
            chosen == Oldest(older, total - target)
            more == Oldest(shown, StillOver(total, Cardinality(chosen), config.limit))
            plan == Plan(msgs, config, canary)
            left == refs \ plan
            idle == (~canary /\ ~config.guard) \/ config.limit = 0 \/ total <= config.limit
<1>1. plan = IF idle THEN {} ELSE chosen \cup more
  BY DEF Plan
<1>2. refs \subseteq Nat \X Nat /\ IsFiniteSet(refs)
  BY ImagesFinite
<1>3. shown \subseteq refs /\ older = refs \ shown /\ older \subseteq refs
  OBVIOUS
<1>4. target \in Nat /\ target <= config.limit /\ (canary => target <= config.keep)
  OBVIOUS
<1>. HIDE DEF refs, shown, older, target, plan
<1>5. /\ IsFiniteSet(shown) /\ IsFiniteSet(older) /\ Cardinality(shown) \in Nat
      /\ Cardinality(older) \in Nat /\ total \in Nat
      /\ total = Cardinality(older) + Cardinality(shown)
  <2>1. IsFiniteSet(shown) /\ IsFiniteSet(older)
    BY <1>2, <1>3, FS_Subset
  <2>2. Cardinality(older) = Cardinality(refs) - Cardinality(refs \cap shown)
    BY <1>2, <1>3, FS_Difference
  <2>3. refs \cap shown = shown
    BY <1>3
  <2>4. Cardinality(shown) \in Nat /\ Cardinality(older) \in Nat /\ total \in Nat
    BY <1>2, <2>1, FS_CardinalityType
  <2>5. Cardinality(older) = total - Cardinality(shown)
    BY <2>2, <2>3
  <2>. HIDE DEF total
  <2>6. total = Cardinality(older) + Cardinality(shown)
    BY <2>4, <2>5
  <2>. QED BY <2>1, <2>4, <2>6
<1>6. CASE idle
  <2>1. left = refs
    BY <1>1, <1>6
  <2>2. total <= config.limit \/ config.limit = 0 \/ (~canary /\ ~config.guard)
    BY <1>6
  <2>3. PlanRight(refs, shown, left, config)
    <3>1. refs \ left = {} /\ {} \cap shown = {} /\ left \subseteq refs
      BY <2>1
    <3>2. Cardinality(left) = total
      BY <2>1
    <3>. HIDE DEF left
    <3>. QED BY <2>2, <3>1, <3>2 DEF PlanRight
  <2>. QED BY <2>3 DEF refs, shown, plan
<1>7. CASE ~idle
  <2>. DEFINE U == Cardinality(older)
              P == Cardinality(shown)
              c1 == Cardinality(chosen)
              c2 == Cardinality(more)
              n1 == total - target
              n2 == (total - c1) - config.limit
  <2>1. /\ chosen \subseteq older /\ IsFiniteSet(chosen) /\ c1 \in Nat
        /\ n1 >= U => chosen = older /\ c1 = U
        /\ 0 <= n1 /\ n1 <= U => c1 = n1
    <3>1. n1 \in Int
      BY <1>4, <1>5
    <3>2. older \subseteq Nat \X Nat
      BY <1>2, <1>3
    <3>. HIDE DEF n1
    <3>3. /\ Oldest(older, n1) \subseteq older /\ IsFiniteSet(Oldest(older, n1))
          /\ n1 >= U => Oldest(older, n1) = older /\ Cardinality(Oldest(older, n1)) = U
          /\ 0 <= n1 /\ n1 <= U => Cardinality(Oldest(older, n1)) = n1
      BY <1>5, <3>1, <3>2, OldestCounts
    <3>4. chosen = Oldest(older, n1)
      BY DEF n1
    <3>. QED BY <3>3, <3>4, FS_CardinalityType
  <2>2. /\ more \subseteq shown /\ IsFiniteSet(more) /\ c2 \in Nat
        /\ n2 <= 0 => more = {} /\ c2 = 0
        /\ n2 >= P => c2 = P
        /\ 0 <= n2 /\ n2 <= P => c2 = n2
    <3>1. n2 \in Int
      BY <1>5, <2>1
    <3>2. shown \subseteq Nat \X Nat
      BY <1>2, <1>3
    <3>3. more = Oldest(shown, n2)
      BY DEF StillOver
    <3>. HIDE DEF n2, more
    <3>4. /\ Oldest(shown, n2) \subseteq shown /\ IsFiniteSet(Oldest(shown, n2))
          /\ n2 <= 0 => Oldest(shown, n2) = {} /\ Cardinality(Oldest(shown, n2)) = 0
          /\ n2 >= P => Cardinality(Oldest(shown, n2)) = P
          /\ 0 <= n2 /\ n2 <= P => Cardinality(Oldest(shown, n2)) = n2
      BY <1>5, <3>1, <3>2, OldestCounts
    <3>. QED BY <3>3, <3>4, FS_CardinalityType
  <2>3. plan = chosen \cup more
    BY <1>1, <1>7
  <2>. HIDE DEF chosen, more
  <2>4. Cardinality(left) = total - (c1 + c2) /\ left \subseteq refs /\ refs \ left = plan
    <3>1. chosen \cap more = {}
      BY <1>3, <2>1, <2>2
    <3>2. Cardinality(chosen \cup more) = c1 + c2
      <4>1. Cardinality(chosen \cup more) = c1 + c2 - Cardinality(chosen \cap more)
        BY <2>1, <2>2, FS_Union
      <4>2. Cardinality(chosen \cap more) = 0
        BY <3>1, FS_EmptySet
      <4>. QED BY <2>1, <2>2, <4>1, <4>2
    <3>3. plan \subseteq refs /\ refs \cap plan = plan
      BY <1>3, <2>1, <2>2, <2>3
    <3>4. Cardinality(refs \ plan) = Cardinality(refs) - Cardinality(refs \cap plan)
      BY <1>2, FS_Difference
    <3>. QED BY <2>3, <3>2, <3>3, <3>4
  <2>5. ~(config.limit = 0) /\ total > config.limit /\ (canary \/ config.guard)
    BY <1>5, <1>7
  <2>6. /\ total - (c1 + c2) <= config.limit
        /\ c1 # U => total - (c1 + c2) <= target
        /\ c2 # 0 => c1 = U /\ total - (c1 + c2) = config.limit
    <3>. HIDE DEF total, U, P, c1, c2
    <3>1. total = U + P /\ U \in Nat /\ P \in Nat
      BY <1>5 DEF U, P
    <3>2. U + P - target >= U => c1 = U
      BY <1>4, <2>1, <3>1
    <3>3. U + P - target <= U => c1 = U + P - target
      BY <1>4, <2>1, <2>5, <3>1
    <3>4. /\ ((U + P) - c1) - config.limit <= 0 => c2 = 0
          /\ ((U + P) - c1) - config.limit >= P => c2 = P
          /\ 0 <= ((U + P) - c1) - config.limit /\ ((U + P) - c1) - config.limit <= P =>
               c2 = ((U + P) - c1) - config.limit
      BY <2>2, <3>1
    <3>5. config.limit > 0 /\ U + P > config.limit /\ c1 \in Nat /\ c2 \in Nat
      BY <2>1, <2>2, <2>5, <3>1
    <3>. QED BY <1>4, <3>1, <3>2, <3>3, <3>4, <3>5, Shares
  <2>7. c1 = U => left \subseteq shown
    <3>1. c1 = U => chosen = older
      BY <1>5, <2>1, FS_Subset
    <3>2. chosen = older => left \subseteq shown
      BY <1>3, <2>3
    <3>. QED BY <3>1, <3>2
  <2>8. Cardinality(left) <= config.limit
    BY <2>4, <2>6
  <2>9. canary => left \subseteq shown \/ Cardinality(left) <= config.keep
    <3>. HIDE DEF total, U, c1, c2, left
    <3>. QED BY <1>4, <1>5, <2>1, <2>2, <2>4, <2>6, <2>7 DEF total
  <2>10. ASSUME plan \cap shown # {}
         PROVE  left \subseteq shown /\ Cardinality(left) = config.limit
    <3>1. more # {}
      BY <1>3, <2>1, <2>3, <2>10
    <3>2. c2 # 0
      BY <2>2, <3>1, FS_EmptySet
    <3>. QED BY <2>4, <2>6, <2>7, <3>2
  <2>12. ASSUME NEW x \in plan, NEW y \in left, x \in shown <=> y \in shown
         PROVE  Older(x, y)
    <3>1. n1 \in Int /\ n2 \in Int
      BY <1>4, <1>5, <2>1
    <3>2. shown \subseteq Nat \X Nat /\ older \subseteq Nat \X Nat
      BY <1>2, <1>3
    <3>3. chosen = Oldest(older, n1) /\ more = Oldest(shown, n2)
      BY DEF chosen, more, StillOver
    <3>. HIDE DEF n1, n2
    <3>4. CASE x \in shown
      <4>1. x \in more /\ y \in shown \ more
        BY <1>3, <2>1, <2>3, <2>12, <3>4
      <4>. QED BY <1>5, <3>1, <3>2, <3>3, <4>1, OldestFirst
    <3>5. CASE x \notin shown
      <4>1. x \in chosen /\ y \in older \ chosen
        BY <1>3, <2>2, <2>3, <2>12, <3>5
      <4>. QED BY <1>5, <3>1, <3>2, <3>3, <4>1, OldestFirst
    <3>. QED BY <3>4, <3>5
  <2>11. PlanRight(refs, shown, left, config)
    <3>. HIDE DEF left
    <3>. QED BY <2>4, <2>5, <2>8, <2>9, <2>10, <2>12 DEF PlanRight
  <2>. QED BY <2>11 DEF refs, shown, plan
<1>. QED BY <1>6, <1>7 DEF refs, shown, plan

(* ---- Requests ----------------------------------------------------------- *)

(* The request that was forwarded last is what the rules make of the       *)
(* messages it was sent with, which the conversation still begins with.    *)
RequestInv ==
    /\ talk \in Talk
    /\ sent # None =>
         /\ sent.upto \in 0..Len(talk) /\ sent.config \in Rows
         /\ sent.body = Forwarded(SubSeq(talk, 1, sent.upto), sent.config)

\* A message a client adds is one.
LEMMA SaysMessage ==
    ASSUME NEW m \in Remarks, NEW n \in Nat
    PROVE  [role |-> m.role,
            parts |-> [k \in DOMAIN m.kinds |-> [kind |-> m.kinds[k], at |-> <<n + 1, k>>]]]
              \in Message
<1>. DEFINE parts == [k \in DOMAIN m.kinds |-> [kind |-> m.kinds[k], at |-> <<n + 1, k>>]]
            N == Len(m.kinds)
<1>1. m.kinds \in Seq(Kinds)
  BY TalkAssumption
<1>2. N \in Nat /\ DOMAIN m.kinds = 1..N /\ \A k \in 1..N : m.kinds[k] \in Kinds
  BY <1>1
<1>3. ASSUME NEW k \in DOMAIN m.kinds PROVE parts[k] \in Part
  <2>1. m.kinds[k] \in Kinds /\ k \in Nat /\ n + 1 \in Nat
    <3>. HIDE DEF N
    <3>. QED BY <1>2
  <2>. QED BY <2>1 DEF Part
<1>4. parts \in PartList
  <2>1. parts \in [1..N -> Part]
    <3>1. parts = [k \in 1..N |-> parts[k]]
      BY <1>2
    <3>. HIDE DEF parts, N
    <3>. QED BY <1>2, <1>3, <3>1
  <2>. HIDE DEF parts, N
  <2>. QED BY <1>2, <2>1 DEF PartList
<1>5. m.role \in Roles
  BY DEF Roles
<1>. HIDE DEF parts
<1>6. [role |-> m.role, parts |-> parts] \in Message
  BY <1>4, <1>5 DEF Message
<1>. QED BY <1>6 DEF parts

\* What a conversation begins with stays when it goes on.
LEMMA Beginnings ==
    ASSUME NEW msgs \in Talk, NEW msg \in Message, NEW n \in 0..Len(msgs)
    PROVE  /\ Append(msgs, msg) \in Talk /\ Len(Append(msgs, msg)) = Len(msgs) + 1
           /\ SubSeq(Append(msgs, msg), 1, n) = SubSeq(msgs, 1, n)
           /\ SubSeq(msgs, 1, n) \in Talk
           /\ SubSeq(msgs, 1, Len(msgs)) = msgs
BY DEF Talk

\* A request that is forwarded keeps the limits.
LEMMA ForwardedKeeps ==
    ASSUME NEW msgs \in Talk, NEW config \in Rows
    PROVE  LET normal == Normalized(msgs)
           IN PlanRight(Images(normal),
                        {at \in Images(normal) : at[1] = LastOf("user", normal)},
                        Images(Forwarded(msgs, config)), config)
<1>. DEFINE normal == Normalized(msgs)
            text == IF Canary(config) THEN Shortened(normal) ELSE normal
            plan == Plan(normal, config, Canary(config))
<1>1. normal \in Talk
  BY NormalizedTyped
<1>2. config.limit \in Nat /\ config.keep \in Nat /\ config.guard \in BOOLEAN
  BY DEF Rows, Limits
<1>. HIDE DEF normal
<1>3. text \in Talk /\ Images(text) = Images(normal)
  BY <1>1, ShortenedImages
<1>4. Forwarded(msgs, config) = Evicted(text, plan)
  BY DEF Forwarded, normal
<1>5. Images(Forwarded(msgs, config)) = Images(normal) \ plan
  <2>. HIDE DEF text, plan
  <2>. QED BY <1>3, <1>4, EvictedImages
<1>6. PlanRight(Images(normal), {at \in Images(normal) : at[1] = LastOf("user", normal)},
                Images(normal) \ plan, config)
  BY <1>1, <1>2, PlanKeeps
<1>. QED BY <1>5, <1>6 DEF normal

\* At the start nothing has been said or sent.
LEMMA RequestInitial == ASSUME Init PROVE RequestInv
<1>1. <<>> \in Talk
  BY DEF Talk
<1>. QED BY <1>1 DEF Init, RequestInv

\* A request is sent with the conversation as it is and with the policy read.
LEMMA SendsRight ==
    ASSUME RequestInv, PolicyInv', Send
    PROVE  RequestInv'
<1>. DEFINE config == known'["compat"]
<1>1. /\ talk' = talk /\ sent'.upto = Len(talk) /\ sent'.config = config
      /\ sent'.body = Forwarded(talk, config)
  BY DEF Send
<1>2. config \in Rows
  BY DEF PolicyInv, ProcessOK, Processes
<1>3. Len(talk) \in 0..Len(talk)
  BY DEF RequestInv, Talk
<1>4. SubSeq(talk, 1, Len(talk)) = talk
  BY DEF RequestInv, Talk
<1>. HIDE DEF config
<1>. QED BY <1>1, <1>2, <1>3, <1>4 DEF RequestInv

\* The request that was sent began with messages that stay.
LEMMA SaysRight ==
    ASSUME RequestInv, NEW m \in Remarks, Say(m)
    PROVE  RequestInv'
<1>. DEFINE msg == [role |-> m.role,
                    parts |-> [k \in DOMAIN m.kinds |->
                                  [kind |-> m.kinds[k], at |-> <<Len(talk) + 1, k>>]]]
<1>1. talk' = Append(talk, msg) /\ sent' = sent
  BY DEF Say
<1>2. talk \in Talk /\ Len(talk) \in Nat
  BY DEF RequestInv, Talk
<1>3. msg \in Message
  BY <1>2, SaysMessage
<1>. HIDE DEF msg
<1>4. talk' \in Talk /\ Len(talk') = Len(talk) + 1
  BY <1>1, <1>2, <1>3 DEF Talk
<1>5. ASSUME sent # None
      PROVE  /\ sent.upto \in 0..Len(talk')
             /\ SubSeq(talk', 1, sent.upto) = SubSeq(talk, 1, sent.upto)
  <2>1. sent.upto \in 0..Len(talk)
    BY <1>5 DEF RequestInv
  <2>. QED BY <1>1, <1>2, <1>3, <1>4, <2>1, Beginnings
<1>. QED BY <1>1, <1>4, <1>5 DEF RequestInv

\* Only what is said changes the conversation, only sending the request, and
\* nothing the input of the text rules.
LEMMA Speaks ==
    ASSUME [Next]_vars
    PROVE  /\ talk' = talk \/ \E m \in Remarks : Say(m)
           /\ sent' = sent \/ Send
           /\ probe' = probe
<1>1. CASE PolicyNext /\ UNCHANGED <<traffic, proxyVars>>
  BY <1>1 DEF proxyVars
<1>2. CASE UNCHANGED vars
  BY <1>2 DEF vars, proxyVars
<1>3. CASE BreakJson \/ \E a \in Asks : Ask(a) \/ AnswerJson(a.calls)
  BY <1>3 DEF Ask, AnswerJson, BreakJson
<1>4. CASE \E s \in StreamsOf, ended \in BOOLEAN : AnswerStream(s, ended)
  BY <1>4 DEF AnswerStream
<1>5. CASE \E n \in 1..MaxChunk : Receive(n)
  BY <1>5 DEF Receive
<1>6. CASE Buffer \/ Yield \/ Finish \/ BreakOff
  BY <1>6 DEF Buffer, Yield, Finish, BreakOff
<1>7. CASE Send
  BY <1>7 DEF Send
<1>8. CASE \E m \in Remarks : Say(m)
  BY <1>8 DEF Say
<1>. QED BY <1>1, <1>2, <1>3, <1>4, <1>5, <1>6, <1>7, <1>8 DEF Next

\* No other step touches the conversation or the request.
LEMMA RequestSteps ==
    ASSUME RequestInv, PolicyInv', [Next]_vars
    PROVE  RequestInv'
<1>1. CASE talk' = talk /\ sent' = sent
  BY <1>1 DEF RequestInv
<1>2. CASE Send
  BY <1>2, SendsRight
<1>3. CASE \E m \in Remarks : Say(m)
  BY <1>3, SaysRight
<1>. QED BY <1>1, <1>2, <1>3, Speaks

\* No request that is forwarded exceeds the limit of its model while the rule is
\* on, a listed credential gets no more than keep_last beside the images just
\* shown, and those go last and only as many as it takes; of either kind the oldest
\* go first (plan_image_eviction, apply_image_evictions): for every conversation
\* and every policy.
THEOREM ImagesAreRight == Spec => []ImagesRight
<1>1. Init => PolicyInv /\ RequestInv
  BY PolicyInitial, RequestInitial
<1>2. PolicyInv /\ RequestInv /\ [Next]_vars => (PolicyInv /\ RequestInv)'
  <2>. SUFFICES ASSUME PolicyInv, RequestInv, [Next]_vars
                PROVE  PolicyInv' /\ RequestInv'
    OBVIOUS
  <2>1. PolicyInv'
    BY PolicySteps
  <2>. QED BY <2>1, RequestSteps
<1>3. ASSUME RequestInv PROVE ImagesRight
  <2>. SUFFICES ASSUME sent # None PROVE ImagesRight
    BY DEF ImagesRight
  <2>. DEFINE msgs == SubSeq(talk, 1, sent.upto)
              normal == Normalized(msgs)
              shown == {at \in Images(normal) : at[1] = LastOf("user", normal)}
  <2>1. msgs \in Talk
    <3>1. talk \in Talk /\ sent.upto \in 0..Len(talk)
      BY <1>3 DEF RequestInv
    <3>. QED BY <3>1 DEF Talk
  <2>2. sent.config \in Rows /\ sent.body = Forwarded(msgs, sent.config)
    BY <1>3 DEF RequestInv
  <2>. HIDE DEF msgs
  <2>3. PlanRight(Images(normal), shown, Images(sent.body), sent.config)
    BY <2>1, <2>2, ForwardedKeeps
  <2>. HIDE DEF normal, shown
  <2>. QED BY <2>3 DEF PlanRight, ImagesRight, msgs, normal, shown
<1>4. Spec => [](PolicyInv /\ RequestInv)
  BY <1>1, <1>2, PTL DEF Spec
<1>. QED BY <1>3, <1>4, PTL

(* ---- What stays gone ----------------------------------------------------- *)

\* The oldest of a set that begins with A and goes on with B.
LEMMA Segments ==
    ASSUME NEW A, NEW B, A \subseteq Nat \X Nat, B \subseteq Nat \X Nat,
           IsFiniteSet(A), IsFiniteSet(B),
           \A x \in A, y \in B : Older(x, y),
           NEW n \in Int
    PROVE  /\ n <= Cardinality(A) => Oldest(A \cup B, n) = Oldest(A, n)
           /\ n >= Cardinality(A) =>
                Oldest(A \cup B, n) = A \cup Oldest(B, n - Cardinality(A))
<1>. DEFINE a == Cardinality(A)
<1>1. a \in Nat
  BY FS_CardinalityType
<1>2. ASSUME NEW x \in A
      PROVE  /\ Ahead(A \cup B, x) = Ahead(A, x)
             /\ Cardinality(Ahead(A, x)) \in Nat /\ Cardinality(Ahead(A, x)) < a
  <2>1. \A y \in B : ~Older(y, x)
    BY OlderOrders
  <2>2. Ahead(A \cup B, x) = Ahead(A, x)
    BY <2>1 DEF Ahead
  <2>3. Cardinality(Ahead(A, x)) \in 0..a - 1
    <3>. DEFINE rank == [z \in A |-> Cardinality(Ahead(A, z))]
    <3>1. rank \in Bijection(A, 0..a - 1)
      BY Ranks
    <3>2. rank \in [A -> 0..a - 1]
      <4>. HIDE DEF rank
      <4>. QED BY <3>1 DEF Bijection, Injection
    <3>. QED BY <3>2
  <2>. HIDE DEF a
  <2>. QED BY <1>1, <2>2, <2>3
<1>3. ASSUME NEW y \in B
      PROVE  /\ Cardinality(Ahead(B, y)) \in Nat
             /\ Cardinality(Ahead(A \cup B, y)) = a + Cardinality(Ahead(B, y))
  <2>1. Ahead(A \cup B, y) = A \cup Ahead(B, y)
    BY DEF Ahead
  <2>2. A \cap Ahead(B, y) = {}
    BY OlderOrders DEF Ahead
  <2>3. IsFiniteSet(Ahead(B, y))
    BY FS_Subset DEF Ahead
  <2>4. Cardinality(A \cup Ahead(B, y)) = a + Cardinality(Ahead(B, y)) - Cardinality({})
    BY <2>2, <2>3, FS_Union
  <2>5. Cardinality(Ahead(B, y)) \in Nat /\ Cardinality({}) = 0
    BY <2>3, FS_CardinalityType, FS_EmptySet
  <2>. DEFINE b == Cardinality(Ahead(B, y))
  <2>6. a + b - Cardinality({}) = a + b
    <3>. HIDE DEF a, b
    <3>. QED BY <1>1, <2>5 DEF b
  <2>. QED BY <2>1, <2>4, <2>5, <2>6
<1>. HIDE DEF a
<1>4. \A S, k : Oldest(S, k) = {x \in S : Cardinality(Ahead(S, x)) < k}
  BY DEF Oldest, Ahead
<1>5. ASSUME n <= a PROVE Oldest(A \cup B, n) = Oldest(A, n)
  <2>1. ASSUME NEW y \in B PROVE ~(Cardinality(Ahead(A \cup B, y)) < n)
    <3>. DEFINE b == Cardinality(Ahead(B, y))
    <3>1. b \in Nat /\ Cardinality(Ahead(A \cup B, y)) = a + b
      BY <1>3
    <3>. HIDE DEF b
    <3>. QED BY <1>1, <1>5, <3>1
  <2>2. \A x \in A : Cardinality(Ahead(A \cup B, x)) < n <=> Cardinality(Ahead(A, x)) < n
    BY <1>2
  <2>. QED BY <1>4, <2>1, <2>2
<1>6. ASSUME n >= a PROVE Oldest(A \cup B, n) = A \cup Oldest(B, n - a)
  <2>1. \A x \in A : Cardinality(Ahead(A \cup B, x)) < n
    BY <1>1, <1>2, <1>6
  <2>2. ASSUME NEW y \in B
        PROVE  Cardinality(Ahead(A \cup B, y)) < n <=> Cardinality(Ahead(B, y)) < n - a
    <3>. DEFINE b == Cardinality(Ahead(B, y))
    <3>1. b \in Nat /\ Cardinality(Ahead(A \cup B, y)) = a + b
      BY <1>3
    <3>2. a + b < n <=> b < n - a
      <4>. HIDE DEF b
      <4>. QED BY <1>1, <3>1
    <3>. QED BY <3>1, <3>2
  <2>. QED BY <1>4, <2>1, <2>2
<1>. QED BY <1>5, <1>6 DEF a

\* More of a longer set has all that fewer of its beginning has.
LEMMA Lengthened ==
    ASSUME NEW A, NEW B, A \subseteq Nat \X Nat, B \subseteq Nat \X Nat,
           IsFiniteSet(A), IsFiniteSet(B),
           \A x \in A, y \in B : Older(x, y),
           NEW m \in Int, NEW n \in Int, m <= n
    PROVE  Oldest(A, m) \subseteq Oldest(A \cup B, n)
<1>. DEFINE a == Cardinality(A)
<1>1. a \in Nat
  BY FS_CardinalityType
<1>2. Oldest(A, m) \subseteq A
  BY DEF Oldest
<1>5. \A k \in Int : /\ k <= a => Oldest(A \cup B, k) = Oldest(A, k)
                     /\ k >= a => Oldest(A \cup B, k) = A \cup Oldest(B, k - a)
  BY Segments
<1>. HIDE DEF a
<1>3. CASE n <= a
  <2>1. Oldest(A \cup B, n) = Oldest(A, n)
    BY <1>3, <1>5
  <2>2. \A x \in A : Cardinality(Ahead(A, x)) \in Nat
    <3>1. \A x \in A : IsFiniteSet(Ahead(A, x))
      BY FS_Subset DEF Ahead
    <3>. QED BY <3>1, FS_CardinalityType
  <2>3. Oldest(A, m) \subseteq Oldest(A, n)
    BY <2>2 DEF Oldest, Ahead
  <2>. QED BY <2>1, <2>3
<1>4. CASE n >= a
  BY <1>2, <1>4, <1>5
<1>. QED BY <1>1, <1>3, <1>4

(* How many images go of total, older of which were not just shown.        *)
Quota(total, older, config) ==
    LET target == IF Canary(config) /\ config.keep < config.limit THEN config.keep
                  ELSE config.limit
    IN IF (~Canary(config) /\ ~config.guard) \/ config.limit = 0 \/ total <= config.limit THEN 0
       ELSE IF total - target < older THEN total - target
       ELSE IF total - config.limit > older THEN total - config.limit ELSE older

\* The longer a conversation the more of its images go.
LEMMA QuotaGrows ==
    ASSUME NEW total \in Nat, NEW older \in Nat, NEW more \in Nat, NEW elder \in Nat,
           total <= more, older <= elder,
           NEW config, config.limit \in Nat, config.keep \in Nat
    PROVE  /\ Quota(total, older, config) \in Int
           /\ Quota(total, older, config) <= Quota(more, elder, config)
<1>. DEFINE target == IF Canary(config) /\ config.keep < config.limit THEN config.keep
                      ELSE config.limit
            off == ~Canary(config) /\ ~config.guard
            limit == config.limit
<1>1. target \in Nat /\ target <= limit /\ limit \in Nat
  OBVIOUS
<1>2. \A t, o : Quota(t, o, config) =
         IF off \/ limit = 0 \/ t <= limit THEN 0
         ELSE IF t - target < o THEN t - target ELSE IF t - limit > o THEN t - limit ELSE o
  BY DEF Quota
<1>. HIDE DEF target, off, limit
<1>. QED BY <1>1, <1>2

\* When nothing is shown after what the user said last, the images that go are
\* the oldest of all.
LEMMA PlanIsOldest ==
    ASSUME NEW msgs \in Talk, NEW config, config.limit \in Nat, config.keep \in Nat,
           \A at \in Images(msgs) : at[1] <= LastOf("user", msgs),
           LastOf("user", msgs) \in Nat
    PROVE  LET refs == Images(msgs)
               older == {at \in refs : at[1] < LastOf("user", msgs)}
           IN Plan(msgs, config, Canary(config))
                = Oldest(refs, Quota(Cardinality(refs), Cardinality(older), config))
<1>. DEFINE refs == Images(msgs)
            last == LastOf("user", msgs)
            shown == {at \in refs : at[1] = last}
            older == {at \in refs : at[1] < last}
            canary == Canary(config)
            T == Cardinality(refs)
            target == IF canary /\ config.keep < config.limit THEN config.keep ELSE config.limit
            chosen == Oldest(older, T - target)
            more == Oldest(shown, (T - Cardinality(chosen)) - config.limit)
            plan == Plan(msgs, config, canary)
            idle == (~canary /\ ~config.guard) \/ config.limit = 0 \/ T <= config.limit
            u == Cardinality(older)
            p == Cardinality(shown)
            q == Quota(T, u, config)
<1>1. refs \subseteq Nat \X Nat /\ IsFiniteSet(refs)
  BY ImagesFinite
<1>2. refs \ shown = older /\ refs = older \cup shown /\ older \cap shown = {}
  BY <1>1
<1>3. \A x \in older, y \in shown : Older(x, y)
  BY <1>1 DEF Older
<1>4. plan = IF idle THEN {} ELSE chosen \cup more
  BY <1>2 DEF Plan, StillOver
<1>5. target \in Nat /\ target <= config.limit
  OBVIOUS
<1>. SUFFICES plan = Oldest(refs, q)
  OBVIOUS
<1>. HIDE DEF refs, shown, older, last, plan
<1>6. older \subseteq refs /\ shown \subseteq refs
  BY <1>2
<1>7. IsFiniteSet(older) /\ IsFiniteSet(shown) /\ u \in Nat /\ p \in Nat /\ T = u + p
  <2>1. IsFiniteSet(older) /\ IsFiniteSet(shown)
    BY <1>1, <1>6, FS_Subset
  <2>2. u \in Nat /\ p \in Nat
    BY <2>1, FS_CardinalityType
  <2>3. T = u + p - Cardinality({})
    BY <1>2, <2>1, FS_Union
  <2>4. Cardinality({}) = 0
    BY FS_EmptySet
  <2>. HIDE DEF T, u, p
  <2>. QED BY <2>1, <2>2, <2>3, <2>4
<1>8. \A n \in Int : /\ n <= u => Oldest(refs, n) = Oldest(older, n)
                     /\ n >= u => Oldest(refs, n) = older \cup Oldest(shown, n - u)
  BY <1>1, <1>2, <1>3, <1>6, <1>7, Segments
<1>9. older \subseteq Nat \X Nat /\ shown \subseteq Nat \X Nat
  BY <1>1, <1>6
<1>10. \A n \in Int : n <= 0 => Oldest(refs, n) = {} /\ Oldest(shown, n) = {}
  BY <1>1, <1>7, <1>9, OldestCounts
<1>11. \A n \in Int : /\ n >= u => Oldest(older, n) = older
                      /\ 0 <= n /\ n <= u => Cardinality(Oldest(older, n)) = n
  BY <1>7, <1>9, OldestCounts
<1>. HIDE DEF T, u, target, canary
<1>12. q = IF idle THEN 0
          ELSE IF T - target < u THEN T - target
          ELSE IF T - config.limit > u THEN T - config.limit ELSE u
  BY DEF Quota, target, canary
<1>. HIDE DEF q
<1>13. T \in Nat
  <2>. HIDE DEF p
  <2>. QED BY <1>7
<1>14. CASE idle
  <2>1. q = 0 /\ plan = {}
    BY <1>4, <1>12, <1>14
  <2>. QED BY <1>10, <2>1
<1>15. CASE ~idle
  <2>. DEFINE c == Cardinality(chosen)
  <2>1. plan = chosen \cup more /\ T > config.limit
    BY <1>4, <1>13, <1>15
  <2>2. CASE T - target < u
    <3>1. q = T - target /\ q \in Int /\ 0 <= q /\ q <= u
      BY <1>5, <1>7, <1>12, <1>13, <1>15, <2>1, <2>2
    <3>2. chosen = Oldest(older, q) /\ c = q
      BY <1>11, <3>1
    <3>3. (T - c) - config.limit <= 0 /\ (T - c) - config.limit \in Int
      <4>. HIDE DEF c
      <4>. QED BY <1>5, <1>13, <3>1, <3>2
    <3>4. more = {}
      BY <1>10, <3>3
    <3>. HIDE DEF chosen, more
    <3>. QED BY <1>8, <2>1, <3>1, <3>2, <3>4
  <2>3. CASE T - target >= u
    <3>1. chosen = older /\ c = u
      <4>1. T - target \in Int
        BY <1>5, <1>13
      <4>. QED BY <1>11, <2>3, <4>1 DEF u
    <3>2. more = Oldest(shown, (T - u) - config.limit)
      BY <3>1
    <3>3. q = IF T - config.limit > u THEN T - config.limit ELSE u
      BY <1>5, <1>7, <1>12, <1>13, <1>15, <2>3
    <3>. HIDE DEF chosen, more
    <3>4. CASE T - config.limit > u
      <4>1. q = T - config.limit /\ q \in Int /\ q >= u /\ (T - u) - config.limit = q - u
        BY <1>7, <1>13, <3>3, <3>4
      <4>. QED BY <1>8, <2>1, <3>1, <3>2, <4>1
    <3>5. CASE ~(T - config.limit > u)
      <4>1. q = u /\ q \in Int /\ q >= u /\ q - u = 0 /\ (T - u) - config.limit <= 0
            /\ (T - u) - config.limit \in Int /\ 0 \in Int /\ 0 <= 0
        BY <1>7, <1>13, <3>3, <3>5
      <4>2. more = {} /\ Oldest(shown, q - u) = {}
        BY <1>10, <3>2, <4>1
      <4>. QED BY <1>8, <2>1, <3>1, <4>1, <4>2
    <3>. QED BY <3>4, <3>5
  <2>. QED BY <1>5, <1>7, <1>13, <2>2, <2>3
<1>. QED BY <1>14, <1>15

\* The normal form of a beginning is what the recursion has made by then.
LEMMA NormalizedAt ==
    ASSUME NEW msgs \in Talk, NEW f, Normalizes(f, msgs, Len(msgs)), NEW n \in 0..Len(msgs)
    PROVE  Normalized(SubSeq(msgs, 1, n)) = f[n]
<1>. DEFINE s == SubSeq(msgs, 1, n)
<1>1. s \in Talk /\ Len(s) = n /\ n \in Nat /\ Len(msgs) \in Nat
      /\ \A k \in 1..n : s[k] = msgs[k]
  BY DEF Talk
<1>. HIDE DEF s
<1>2. PICK g : Normalizes(g, s, n) /\ Normalized(s) = g[n]
  BY <1>1, NormalizedRuns
<1>. DEFINE U == {k \in 0..n : g[k] = f[k]}
<1>3. /\ g[0] = <<>> /\ f[0] = <<>>
      /\ \A k \in 1..n : g[k] = Placed(g[k - 1], s[k])
      /\ \A k \in 1..n : f[k] = Placed(f[k - 1], msgs[k])
  <2>1. \A k \in 1..n : k \in 1..Len(msgs)
    BY <1>1
  <2>. QED BY <1>1, <1>2, <2>1, RunsTyped
<1>4. 0 \in U
  BY <1>1, <1>3
<1>5. ASSUME NEW k \in 0..n, k > 0, k - 1 \in U PROVE k \in U
  <2>1. k \in 1..n
    BY <1>1, <1>5
  <2>. QED BY <1>1, <1>3, <1>5, <2>1
<1>. HIDE DEF U
<1>6. n \in U
  <2>1. 0..n \subseteq U
    BY <1>1, <1>4, <1>5, Upward
  <2>. QED BY <1>1, <2>1
<1>. QED BY <1>2, <1>6 DEF U, s

\* The last message of a role is one, and 0 when there is none.
LEMMA LastOfRole ==
    ASSUME NEW msgs \in Talk, NEW role
    PROVE  /\ LastOf(role, msgs) \in 0..Len(msgs)
           /\ LastOf(role, msgs) > 0 => msgs[LastOf(role, msgs)].role = role
           /\ \A i \in 1..Len(msgs) : msgs[i].role = role => i <= LastOf(role, msgs)
<1>. DEFINE L == Len(msgs)
            ats == {i \in DOMAIN msgs : msgs[i].role = role}
<1>1. L \in Nat /\ DOMAIN msgs = 1..L
  BY TalkTyped
<1>2. CASE ats = {}
  BY <1>1, <1>2 DEF LastOf
<1>3. CASE ats # {}
  <2>. DEFINE D == {L - i : i \in ats}
  <2>1. \A i \in ats : i \in 1..L /\ L - i \in Nat
    BY <1>1
  <2>2. D \in SUBSET Nat /\ D # {}
    BY <1>3, <2>1
  <2>3. PICK d \in D : \A e \in D : d <= e
    <3>. HIDE DEF D
    <3>. QED BY <2>2, LeastNumber
  <2>4. PICK m \in ats : d = L - m
    OBVIOUS
  <2>5. ASSUME NEW j \in ats PROVE j <= m
    <3>1. L - m <= L - j
      BY <2>3, <2>4
    <3>. QED BY <1>1, <2>1, <3>1
  <2>6. LastOf(role, msgs) \in ats /\ \A j \in ats : j <= LastOf(role, msgs)
    BY <1>3, <2>5 DEF LastOf
  <2>. QED BY <1>1, <2>1, <2>6
<1>. QED BY <1>2, <1>3

(* b is a with more behind it: further messages, and further parts of the  *)
(* last user message and of those after it.                                *)
Continues(a, b) ==
    /\ Len(a) <= Len(b) /\ LastOf("user", a) <= LastOf("user", b)
    /\ \A i \in 1..Len(a) :
         /\ Len(a[i].parts) <= Len(b[i].parts)
         /\ \A k \in 1..Len(a[i].parts) : b[i].parts[k] = a[i].parts[k]
         /\ i < LastOf("user", a) => b[i].parts = a[i].parts

\* A message that is placed changes the last user message or comes last.
LEMMA PlacedContinues ==
    ASSUME NEW a \in Talk, NEW b \in Talk, NEW msg \in Message, Continues(a, b)
    PROVE  Continues(a, Placed(b, msg))
<1>. DEFINE c == Placed(b, msg)
            t == Target(b)
<1>1. c \in Talk
  BY PlacedTyped
<1>2. t \in 0..Len(b) /\ t = LastOf("user", b) /\ Len(b) \in Nat /\ Len(a) \in Nat
  BY LastOfRole, TalkTyped DEF Target
<1>3. LastOf("user", a) \in Nat /\ LastOf("user", c) \in Nat
  BY <1>1, LastOfRole, TalkTyped
<1>4. ASSUME NEW x \in Message, c = Append(b, x)
      PROVE  Continues(a, c)
  <2>1. Len(c) = Len(b) + 1 /\ \A i \in 1..Len(b) : c[i] = b[i]
    BY <1>4 DEF Talk
  <2>. HIDE DEF c, t
  <2>2. t <= LastOf("user", c)
    <3>1. CASE t > 0
      <4>1. b[t].role = "user" /\ t \in 1..Len(b) /\ t \in 1..Len(c)
        BY <1>2, <2>1, <3>1, LastOfRole
      <4>. QED BY <1>1, <2>1, <4>1, LastOfRole
    <3>. QED BY <1>2, <1>3, <3>1
  <2>3. \A i \in 1..Len(a) : i \in 1..Len(b)
    BY <1>2 DEF Continues
  <2>4. Len(a) <= Len(c) /\ LastOf("user", a) <= LastOf("user", c)
    BY <1>2, <1>3, <2>1, <2>2 DEF Continues
  <2>. QED BY <2>1, <2>3, <2>4 DEF Continues
<1>5. ASSUME c = [b EXCEPT ![t].parts = b[t].parts \o msg.parts], t > 0
      PROVE  Continues(a, c)
  <2>. DEFINE q == b[t].parts \o msg.parts
  <2>1. t \in 1..Len(b) /\ t \in DOMAIN b
    BY <1>2, <1>5, TalkTyped
  <2>2. /\ Len(q) = Len(b[t].parts) + Len(msg.parts) /\ Len(b[t].parts) \in Nat
        /\ Len(msg.parts) \in Nat /\ \A k \in 1..Len(b[t].parts) : q[k] = b[t].parts[k]
    <3>1. b[t].parts \in Seq(Part) /\ msg.parts \in Seq(Part)
      BY <2>1, TalkTyped DEF Message, PartList
    <3>2. \A x, y \in Seq(Part) :
            /\ Len(x \o y) = Len(x) + Len(y) /\ Len(x) \in Nat /\ Len(y) \in Nat
            /\ \A k \in 1..Len(x) : (x \o y)[k] = x[k]
      OBVIOUS
    <3>. QED BY <3>1, <3>2
  <2>. HIDE DEF q
  <2>. DEFINE e == [b[t] EXCEPT !.parts = q]
  <2>3. e.parts = q /\ e.role = b[t].role
    BY <2>1, TalkTyped DEF Message
  <2>4. c = [b EXCEPT ![t] = e]
    BY <1>5 DEF q
  <2>. HIDE DEF e, c, t
  <2>5. c[t] = e /\ Len(c) = Len(b) /\ \A i \in 1..Len(b) : i # t => c[i] = b[i]
    BY <2>1, <2>4 DEF Talk
  <2>6. t <= LastOf("user", c)
    <3>1. c[t].role = "user"
      BY <1>2, <1>5, <2>3, <2>5, LastOfRole
    <3>. QED BY <1>1, <2>1, <2>5, <3>1, LastOfRole
  <2>7. Len(a) <= Len(c) /\ LastOf("user", a) <= LastOf("user", c) /\ LastOf("user", a) <= t
    BY <1>2, <1>3, <2>5, <2>6 DEF Continues
  <2>8. ASSUME NEW i \in 1..Len(a)
        PROVE  /\ Len(a[i].parts) <= Len(c[i].parts)
               /\ \A k \in 1..Len(a[i].parts) : c[i].parts[k] = a[i].parts[k]
               /\ i < LastOf("user", a) => c[i].parts = a[i].parts
    <3>1. i \in 1..Len(b) /\ i \in DOMAIN a
      BY <1>2, TalkTyped DEF Continues
    <3>2. CASE i # t
      <4>1. c[i] = b[i]
        BY <2>5, <3>1, <3>2
      <4>2. /\ Len(a[i].parts) <= Len(b[i].parts)
            /\ \A k \in 1..Len(a[i].parts) : b[i].parts[k] = a[i].parts[k]
            /\ i < LastOf("user", a) => b[i].parts = a[i].parts
        BY DEF Continues
      <4>. QED BY <4>1, <4>2
    <3>3. CASE i = t
      <4>1. c[i].parts = q
        BY <2>3, <2>5, <3>3
      <4>2. Len(a[i].parts) \in Nat /\ Len(a[i].parts) <= Len(b[t].parts)
            /\ \A k \in 1..Len(a[i].parts) : b[t].parts[k] = a[i].parts[k]
        BY <3>1, <3>3, TalkTyped DEF Continues
      <4>3. ~(i < LastOf("user", a))
        BY <1>2, <1>3, <2>7, <3>3
      <4>. DEFINE x == Len(a[i].parts)
                  y == Len(b[t].parts)
      <4>4. x <= Len(q) /\ \A k \in 1..x : k \in 1..y
        <5>. DEFINE z == Len(msg.parts)
        <5>1. x \in Nat /\ y \in Nat /\ z \in Nat /\ x <= y /\ Len(q) = y + z
          BY <2>2, <4>2
        <5>. HIDE DEF x, y, z
        <5>. QED BY <5>1
      <4>5. \A k \in 1..x : q[k] = a[i].parts[k]
        BY <2>2, <4>2, <4>4
      <4>. QED BY <4>1, <4>3, <4>4, <4>5
    <3>. QED BY <3>2, <3>3
  <2>. QED BY <2>7, <2>8 DEF Continues
<1>6. [role |-> "user", parts |-> msg.parts] \in Message
  BY DEF Message, Roles
<1>. QED BY <1>4, <1>5, <1>6 DEF Placed

\* The normal form of a conversation goes on from that of a beginning.
LEMMA NormalizedContinues ==
    ASSUME NEW msgs \in Talk, NEW n \in 0..Len(msgs)
    PROVE  Continues(Normalized(SubSeq(msgs, 1, n)), Normalized(msgs))
<1>1. PICK f : Normalizes(f, msgs, Len(msgs)) /\ Normalized(msgs) = f[Len(msgs)]
  BY NormalizedRuns
<1>. DEFINE L == Len(msgs)
            T == {k \in 0..L : k >= n => Continues(f[n], f[k])}
<1>2. L \in Nat /\ n \in Nat /\ n <= L
  BY TalkTyped
<1>3. Normalized(SubSeq(msgs, 1, n)) = f[n]
  BY <1>1, NormalizedAt
<1>4. /\ \A k \in 0..L : f[k] \in Talk
      /\ \A k \in 1..L : msgs[k] \in Message /\ f[k] = Placed(f[k - 1], msgs[k])
  BY <1>1, RunsTyped
<1>5. Continues(f[n], f[n])
  <2>1. f[n] \in Talk
    BY <1>4
  <2>2. /\ Len(f[n]) \in Nat /\ LastOf("user", f[n]) \in Nat
        /\ \A i \in 1..Len(f[n]) : Len(f[n][i].parts) \in Nat
    BY <2>1, TalkTyped, LastOfRole
  <2>. QED BY <2>2 DEF Continues
<1>6. 0 \in T
  BY <1>2, <1>5
<1>7. ASSUME NEW k \in 0..L, k > 0, k - 1 \in T PROVE k \in T
  <2>1. CASE k < n
    BY <1>2, <2>1
  <2>2. CASE k = n
    BY <1>5, <2>2
  <2>3. CASE k > n
    <3>1. k \in 1..L /\ k - 1 \in 0..L /\ k - 1 >= n
      BY <1>2, <2>3
    <3>2. Continues(f[n], f[k - 1])
      BY <1>7, <3>1
    <3>3. Continues(f[n], f[k])
      BY <1>4, <3>1, <3>2, PlacedContinues
    <3>. QED BY <3>3
  <2>. QED BY <1>2, <2>1, <2>2, <2>3
<1>. HIDE DEF T
<1>8. L \in T
  <2>1. 0..L \subseteq T
    BY <1>2, <1>6, <1>7, Upward
  <2>. QED BY <1>2, <2>1
<1>. QED BY <1>1, <1>2, <1>3, <1>8 DEF T

(* Nothing of the messages has been replaced yet.                          *)
Unevicted(msgs) == \A i \in DOMAIN msgs : \A k \in DOMAIN msgs[i].parts :
                    msgs[i].parts[k].kind # "placeholder"

\* Placing a message replaces nothing.
LEMMA PlacedUnevicted ==
    ASSUME NEW out \in Talk, NEW msg \in Message, Unevicted(out),
           \A k \in DOMAIN msg.parts : msg.parts[k].kind # "placeholder"
    PROVE  Unevicted(Placed(out, msg))
<1>. DEFINE c == Placed(out, msg)
            t == Target(out)
<1>1. c \in Talk
  BY PlacedTyped
<1>2. t \in 0..Len(out) /\ Len(out) \in Nat
  BY LastOfRole, TalkTyped DEF Target
<1>3. ASSUME NEW x \in Message, x.parts = msg.parts, c = Append(out, x)
      PROVE  Unevicted(c)
  <2>1. /\ DOMAIN c = 1..(Len(out) + 1) /\ DOMAIN out = 1..Len(out)
        /\ c[Len(out) + 1] = x /\ \A i \in 1..Len(out) : c[i] = out[i]
    BY <1>3 DEF Talk
  <2>. HIDE DEF c
  <2>2. ASSUME NEW i \in DOMAIN c, NEW k \in DOMAIN c[i].parts
        PROVE  c[i].parts[k].kind # "placeholder"
    <3>1. i \in 1..Len(out) \/ i = Len(out) + 1
      BY <1>2, <2>1
    <3>2. CASE i \in 1..Len(out)
      BY <2>1, <2>2, <3>2 DEF Unevicted
    <3>3. CASE i = Len(out) + 1
      BY <1>3, <2>1, <2>2, <3>3
    <3>. QED BY <3>1, <3>2, <3>3
  <2>. QED BY <2>2 DEF Unevicted
<1>4. ASSUME c = [out EXCEPT ![t].parts = out[t].parts \o msg.parts], t > 0
      PROVE  Unevicted(c)
  <2>. DEFINE q == out[t].parts \o msg.parts
              e == [out[t] EXCEPT !.parts = q]
  <2>1. t \in DOMAIN out /\ DOMAIN out = 1..Len(out) /\ t \in 1..Len(out)
    BY <1>2, <1>4, TalkTyped
  <2>2. \A k \in DOMAIN q : q[k].kind # "placeholder"
    <3>1. out[t].parts \in Seq(Part) /\ msg.parts \in Seq(Part)
      BY <2>1, TalkTyped DEF Message, PartList
    <3>2. \A x, y \in Seq(Part) : \A k \in DOMAIN (x \o y) :
            \/ k \in DOMAIN x /\ (x \o y)[k] = x[k]
            \/ k - Len(x) \in DOMAIN y /\ (x \o y)[k] = y[k - Len(x)]
      OBVIOUS
    <3>3. \A k \in DOMAIN out[t].parts : out[t].parts[k].kind # "placeholder"
      BY <2>1 DEF Unevicted
    <3>. QED BY <3>1, <3>2, <3>3
  <2>. HIDE DEF q
  <2>3. e.parts = q
    BY <2>1, TalkTyped DEF Message
  <2>4. c = [out EXCEPT ![t] = e]
    BY <1>4 DEF q
  <2>. HIDE DEF e, c, t
  <2>5. c[t] = e /\ DOMAIN c = DOMAIN out /\ \A i \in DOMAIN out : i # t => c[i] = out[i]
    BY <2>1, <2>4 DEF Talk
  <2>6. ASSUME NEW i \in DOMAIN c, NEW k \in DOMAIN c[i].parts
        PROVE  c[i].parts[k].kind # "placeholder"
    <3>1. CASE i = t
      BY <2>2, <2>3, <2>5, <2>6, <3>1
    <3>2. CASE i # t
      BY <2>5, <2>6, <3>2 DEF Unevicted
    <3>. QED BY <3>1, <3>2
  <2>. QED BY <2>6 DEF Unevicted
<1>5. [role |-> "user", parts |-> msg.parts] \in Message
  BY DEF Message, Roles
<1>. QED BY <1>3, <1>4, <1>5 DEF Placed

\* So does normalising.
LEMMA NormalizedUnevicted ==
    ASSUME NEW msgs \in Talk, Unevicted(msgs)
    PROVE  Unevicted(Normalized(msgs))
<1>1. PICK f : Normalizes(f, msgs, Len(msgs)) /\ Normalized(msgs) = f[Len(msgs)]
  BY NormalizedRuns
<1>. DEFINE L == Len(msgs)
            T == {k \in 0..L : Unevicted(f[k])}
<1>2. L \in Nat /\ DOMAIN msgs = 1..L
  BY TalkTyped
<1>3. /\ f[0] = <<>> /\ \A k \in 0..L : f[k] \in Talk
      /\ \A k \in 1..L : msgs[k] \in Message /\ f[k] = Placed(f[k - 1], msgs[k])
  BY <1>1, RunsTyped
<1>4. 0 \in T
  BY <1>2, <1>3 DEF Unevicted
<1>5. ASSUME NEW k \in 0..L, k > 0, k - 1 \in T PROVE k \in T
  <2>1. k \in 1..L /\ k - 1 \in 0..L /\ Unevicted(f[k - 1])
    BY <1>2, <1>5
  <2>2. \A j \in DOMAIN msgs[k].parts : msgs[k].parts[j].kind # "placeholder"
    BY <1>2, <2>1 DEF Unevicted
  <2>. QED BY <1>3, <2>1, <2>2, PlacedUnevicted
<1>. HIDE DEF T
<1>6. L \in T
  <2>1. 0..L \subseteq T
    BY <1>2, <1>4, <1>5, Upward
  <2>. QED BY <1>2, <2>1
<1>. QED BY <1>1, <1>6 DEF T

(* The origins of what a body has lost.                                    *)
GoneFrom(body) == {part.at : part \in {x \in Parts(body) : x.kind = "placeholder"}}

\* A request has lost the images that were planned to go.
LEMMA GoneAre ==
    ASSUME NEW msgs \in Talk, Unevicted(msgs), NEW config
    PROVE  GoneFrom(Forwarded(msgs, config))
             = {Normalized(msgs)[at[1]].parts[at[2]].at :
                   at \in Plan(Normalized(msgs), config, Canary(config))}
<1>. DEFINE normal == Normalized(msgs)
            text == IF Canary(config) THEN Shortened(normal) ELSE normal
            plan == Plan(normal, config, Canary(config))
            body == Forwarded(msgs, config)
<1>1. normal \in Talk /\ Unevicted(normal)
  BY NormalizedTyped, NormalizedUnevicted
<1>2. body = Evicted(text, plan)
  BY DEF Forwarded
<1>3. plan \subseteq Images(normal)
  BY DEF Plan, Oldest
<1>. HIDE DEF normal
<1>4. \A at \in plan : /\ at = <<at[1], at[2]>> /\ at[1] \in DOMAIN normal
                       /\ at[2] \in DOMAIN normal[at[1]].parts
  <2>. HIDE DEF plan
  <2>. QED BY <1>1, <1>3, ImagesAre
<1>5. ASSUME NEW i \in DOMAIN normal
      PROVE  /\ DOMAIN text = DOMAIN normal
             /\ DOMAIN text[i].parts = DOMAIN normal[i].parts
             /\ \A k \in DOMAIN normal[i].parts :
                  /\ text[i].parts[k].at = normal[i].parts[k].at
                  /\ text[i].parts[k].kind # "placeholder"
                  /\ text[i].parts[k] \in Part
             /\ text[i] \in Message
  <2>1. normal[i] \in Message /\ \A k \in DOMAIN normal[i].parts : normal[i].parts[k] \in Part
                                     /\ normal[i].parts[k].kind # "placeholder"
    BY <1>1, TalkTyped DEF Unevicted
  <2>2. CASE ~Canary(config)
    BY <2>1, <2>2
  <2>3. CASE Canary(config)
    <3>1. text = Shortened(normal) /\ text \in Talk
      BY <1>1, <2>3, ShortenedImages
    <3>2. DOMAIN text = DOMAIN normal
      BY <3>1 DEF Shortened
    <3>3. text[i].parts = [k \in DOMAIN normal[i].parts |->
              IF Shortens(normal[i].role, normal[i].parts[k].kind)
              THEN [normal[i].parts[k] EXCEPT !.kind = "short"] ELSE normal[i].parts[k]]
      BY <2>1, <3>1 DEF Shortened, Message
    <3>. HIDE DEF text
    <3>4. ASSUME NEW k \in DOMAIN normal[i].parts
          PROVE  /\ text[i].parts[k].at = normal[i].parts[k].at
                 /\ text[i].parts[k].kind # "placeholder"
                 /\ text[i].parts[k] \in Part
      <4>1. CASE Shortens(normal[i].role, normal[i].parts[k].kind)
        <5>1. text[i].parts[k] = [normal[i].parts[k] EXCEPT !.kind = "short"]
          BY <3>3, <4>1
        <5>. QED BY <2>1, <5>1 DEF Part
      <4>2. CASE ~Shortens(normal[i].role, normal[i].parts[k].kind)
        <5>1. text[i].parts[k] = normal[i].parts[k]
          BY <3>3, <4>2
        <5>. QED BY <2>1, <5>1
      <4>. QED BY <4>1, <4>2
    <3>5. text[i] \in Message
      BY <3>1, <3>2, TalkTyped
    <3>. QED BY <3>2, <3>3, <3>4, <3>5
  <2>. QED BY <2>2, <2>3
<1>. HIDE DEF text, plan, body
<1>6. DOMAIN body = DOMAIN normal
  <2>1. DOMAIN text = DOMAIN normal
    BY <1>1, ShortenedImages DEF text, Shortened
  <2>. QED BY <1>2, <2>1 DEF Evicted
<1>7. ASSUME NEW i \in DOMAIN normal
      PROVE  /\ DOMAIN body[i].parts = DOMAIN normal[i].parts
             /\ \A k \in DOMAIN normal[i].parts :
                  /\ body[i].parts[k].at = normal[i].parts[k].at
                  /\ body[i].parts[k].kind = "placeholder" <=> <<i, k>> \in plan
  <2>1. body[i].parts = [k \in DOMAIN text[i].parts |->
            IF <<i, k>> \in plan THEN [text[i].parts[k] EXCEPT !.kind = "placeholder"]
            ELSE text[i].parts[k]]
    BY <1>2, <1>5 DEF Evicted, Message
  <2>2. ASSUME NEW k \in DOMAIN normal[i].parts
        PROVE  /\ body[i].parts[k].at = normal[i].parts[k].at
               /\ body[i].parts[k].kind = "placeholder" <=> <<i, k>> \in plan
    <3>1. /\ text[i].parts[k].at = normal[i].parts[k].at
          /\ text[i].parts[k].kind # "placeholder"
          /\ text[i].parts[k] \in Part /\ k \in DOMAIN text[i].parts
      BY <1>5
    <3>2. CASE <<i, k>> \in plan
      <4>1. body[i].parts[k] = [text[i].parts[k] EXCEPT !.kind = "placeholder"]
        BY <2>1, <3>1, <3>2
      <4>. QED BY <3>1, <3>2, <4>1 DEF Part
    <3>3. CASE <<i, k>> \notin plan
      <4>1. body[i].parts[k] = text[i].parts[k]
        BY <2>1, <3>1, <3>3
      <4>. QED BY <3>1, <3>3, <4>1
    <3>. QED BY <3>2, <3>3
  <2>. QED BY <1>5, <2>1, <2>2
<1>8. ASSUME NEW at, at \in GoneFrom(body)
      PROVE  \E p \in plan : at = normal[p[1]].parts[p[2]].at
  <2>1. PICK i \in DOMAIN body : \E k \in DOMAIN body[i].parts :
            at = body[i].parts[k].at /\ body[i].parts[k].kind = "placeholder"
    BY <1>8 DEF GoneFrom, Parts
  <2>2. PICK k \in DOMAIN body[i].parts :
            at = body[i].parts[k].at /\ body[i].parts[k].kind = "placeholder"
    BY <2>1
  <2>3. <<i, k>> \in plan /\ at = normal[i].parts[k].at
    BY <1>6, <1>7, <2>2
  <2>4. <<i, k>>[1] = i /\ <<i, k>>[2] = k
    OBVIOUS
  <2>. QED BY <2>3, <2>4
<1>9. ASSUME NEW p \in plan
      PROVE  normal[p[1]].parts[p[2]].at \in GoneFrom(body)
  <2>. DEFINE i == p[1]
              k == p[2]
  <2>1. i \in DOMAIN normal /\ k \in DOMAIN normal[i].parts /\ <<i, k>> \in plan
    BY <1>4
  <2>. HIDE DEF i, k
  <2>2. /\ i \in DOMAIN body /\ k \in DOMAIN body[i].parts
        /\ body[i].parts[k].kind = "placeholder"
        /\ body[i].parts[k].at = normal[i].parts[k].at
    BY <1>6, <1>7, <2>1
  <2>3. body[i].parts[k] \in Parts(body)
    BY <2>2 DEF Parts
  <2>4. normal[i].parts[k].at \in GoneFrom(body)
    BY <2>2, <2>3 DEF GoneFrom
  <2>. QED BY <2>4 DEF i, k
<1>10. GoneFrom(body) = {normal[at[1]].parts[at[2]].at : at \in plan}
  BY <1>8, <1>9
<1>. QED BY <1>10 DEF normal, plan, body

\* What a beginning has lost the whole has lost, under one policy.
LEMMA StaysGone ==
    ASSUME NEW msgs \in Talk, Unevicted(msgs), NEW n \in 0..Len(msgs), NEW config \in Rows,
           ShownLast(SubSeq(msgs, 1, n)), ShownLast(msgs)
    PROVE  GoneFrom(Forwarded(SubSeq(msgs, 1, n), config)) \subseteq
           GoneFrom(Forwarded(msgs, config))
<1>. DEFINE first == SubSeq(msgs, 1, n)
            a == Normalized(first)
            b == Normalized(msgs)
            A == Images(a)
            B == Images(b) \ A
            la == LastOf("user", a)
            lb == LastOf("user", b)
            olderA == {at \in A : at[1] < la}
            olderB == {at \in Images(b) : at[1] < lb}
            p == Plan(a, config, Canary(config))
            q == Plan(b, config, Canary(config))
<1>1. first \in Talk /\ Unevicted(first)
  <2>1. /\ first \in Talk /\ DOMAIN first = 1..n /\ 1..n \subseteq DOMAIN msgs
        /\ \A i \in 1..n : first[i] = msgs[i]
    BY DEF Talk
  <2>. HIDE DEF first
  <2>2. ASSUME NEW i \in DOMAIN first, NEW k \in DOMAIN first[i].parts
        PROVE  first[i].parts[k].kind # "placeholder"
    <3>1. first[i] = msgs[i] /\ i \in DOMAIN msgs
      BY <2>1
    <3>. QED BY <2>2, <3>1 DEF Unevicted
  <2>. QED BY <2>1, <2>2 DEF Unevicted
<1>2. Continues(a, b)
  BY NormalizedContinues
<1>3. /\ \A at \in Images(a) : at[1] <= LastOf("user", a)
      /\ \A at \in Images(b) : at[1] <= LastOf("user", b)
  BY DEF ShownLast
<1>4. config.limit \in Nat /\ config.keep \in Nat
  BY DEF Rows, Limits
<1>5. GoneFrom(Forwarded(first, config)) = {a[at[1]].parts[at[2]].at : at \in p}
  BY <1>1, GoneAre
<1>6. GoneFrom(Forwarded(msgs, config)) = {b[at[1]].parts[at[2]].at : at \in q}
  BY GoneAre
<1>. HIDE DEF first
<1>7. a \in Talk /\ b \in Talk
  BY <1>1, NormalizedTyped
<1>. HIDE DEF a, b
<1>8. /\ la \in Nat /\ lb \in Nat /\ la <= lb
      /\ Len(a) \in Nat /\ Len(b) \in Nat /\ Len(a) <= Len(b)
      /\ DOMAIN a = 1..Len(a) /\ DOMAIN b = 1..Len(b) /\ la <= Len(a)
  BY <1>2, <1>7, LastOfRole, TalkTyped DEF Continues
<1>9. ASSUME NEW i \in 1..Len(a), NEW k \in DOMAIN a[i].parts
      PROVE  /\ i \in DOMAIN a /\ i \in DOMAIN b /\ k \in DOMAIN b[i].parts
             /\ b[i].parts[k] = a[i].parts[k]
  <2>1. i \in DOMAIN a /\ i \in DOMAIN b
    BY <1>8
  <2>2. /\ Len(a[i].parts) \in Nat /\ DOMAIN a[i].parts = 1..Len(a[i].parts)
        /\ Len(b[i].parts) \in Nat /\ DOMAIN b[i].parts = 1..Len(b[i].parts)
    BY <1>7, <2>1, TalkTyped
  <2>3. Len(a[i].parts) <= Len(b[i].parts)
        /\ \A j \in 1..Len(a[i].parts) : b[i].parts[j] = a[i].parts[j]
    BY <1>2 DEF Continues
  <2>. QED BY <2>1, <2>2, <2>3
<1>10. /\ A \subseteq Nat \X Nat /\ IsFiniteSet(A)
       /\ Images(b) \subseteq Nat \X Nat /\ IsFiniteSet(Images(b))
  BY <1>7, ImagesFinite
<1>11. A \subseteq Images(b)
  <2>. SUFFICES ASSUME NEW at \in A PROVE at \in Images(b)
    OBVIOUS
  <2>. DEFINE i == at[1]
              k == at[2]
  <2>1. /\ at = <<i, k>> /\ i \in DOMAIN a /\ k \in DOMAIN a[i].parts
        /\ a[i].parts[k].kind = "image"
    BY <1>7, ImagesAre
  <2>. HIDE DEF i, k
  <2>2. i \in DOMAIN b /\ k \in DOMAIN b[i].parts /\ b[i].parts[k].kind = "image"
    BY <1>8, <1>9, <2>1
  <2>3. <<i, k>> \in Images(b)
    BY <1>7, <2>2, ImagesAre
  <2>. QED BY <2>1, <2>3
<1>12. ASSUME NEW x \in A, NEW y \in B PROVE Older(x, y)
  <2>. DEFINE i == y[1]
              k == y[2]
  <2>1. /\ y = <<i, k>> /\ i \in DOMAIN b /\ k \in DOMAIN b[i].parts
        /\ b[i].parts[k].kind = "image" /\ y \notin A
    BY <1>7, ImagesAre
  <2>2. /\ x[1] \in DOMAIN a /\ x[2] \in DOMAIN a[x[1]].parts
    BY <1>7, ImagesAre
  <2>3. x[1] \in Nat /\ x[2] \in Nat /\ i \in Nat /\ k \in Nat /\ x[1] <= la
    BY <1>3, <1>10
  <2>. HIDE DEF i, k
  <2>4. ~(i \in DOMAIN a /\ k \in DOMAIN a[i].parts)
    <3>. SUFFICES ASSUME i \in DOMAIN a, k \in DOMAIN a[i].parts PROVE FALSE
      OBVIOUS
    <3>1. a[i].parts[k].kind = "image"
      BY <1>8, <1>9, <2>1
    <3>. QED BY <1>7, <2>1, <3>1, ImagesAre
  <2>5. CASE i \notin DOMAIN a
    <3>1. i > Len(a)
      BY <1>8, <2>1, <2>5
    <3>2. x[1] < i
      BY <1>8, <2>3, <3>1
    <3>. QED BY <2>1, <3>2 DEF Older
  <2>6. CASE i \in DOMAIN a
    <3>1. ~(i < la)
      <4>1. i < la => b[i].parts = a[i].parts
        BY <1>2, <1>8, <2>6 DEF Continues
      <4>. QED BY <2>1, <2>4, <2>6, <4>1
    <3>2. CASE x[1] < i
      BY <2>1, <3>2 DEF Older
    <3>3. CASE x[1] = i
      <4>1. k \notin DOMAIN a[i].parts /\ x[2] \in DOMAIN a[i].parts
        BY <2>2, <2>4, <2>6, <3>3
      <4>2. DOMAIN a[i].parts = 1..Len(a[i].parts) /\ Len(a[i].parts) \in Nat
            /\ DOMAIN b[i].parts = 1..Len(b[i].parts) /\ Len(b[i].parts) \in Nat
        BY <1>7, <2>1, <2>6, TalkTyped
      <4>3. x[2] < k
        BY <2>1, <2>3, <4>1, <4>2
      <4>. QED BY <2>1, <3>3, <4>3 DEF Older
    <3>. QED BY <1>8, <2>3, <3>1, <3>2, <3>3
  <2>. QED BY <2>5, <2>6
<1>13. /\ p = Oldest(A, Quota(Cardinality(A), Cardinality(olderA), config))
       /\ q = Oldest(Images(b), Quota(Cardinality(Images(b)), Cardinality(olderB), config))
  BY <1>3, <1>4, <1>7, <1>8, PlanIsOldest
<1>14. olderA \subseteq olderB /\ olderA \subseteq A /\ olderB \subseteq Images(b)
  <2>1. \A at \in A : at[1] \in Nat
    BY <1>10
  <2>. QED BY <1>8, <1>11, <2>1
<1>15. /\ IsFiniteSet(olderA) /\ IsFiniteSet(olderB)
       /\ Cardinality(A) <= Cardinality(Images(b)) /\ Cardinality(olderA) <= Cardinality(olderB)
  <2>1. IsFiniteSet(olderA) /\ IsFiniteSet(olderB)
    BY <1>10, <1>14, FS_Subset
  <2>2. Cardinality(A) <= Cardinality(Images(b))
    BY <1>10, <1>11, FS_Subset
  <2>3. Cardinality(olderA) <= Cardinality(olderB)
    BY <1>14, <2>1, FS_Subset
  <2>. QED BY <2>1, <2>2, <2>3
<1>16. /\ Cardinality(A) \in Nat /\ Cardinality(Images(b)) \in Nat
       /\ Cardinality(olderA) \in Nat /\ Cardinality(olderB) \in Nat
  BY <1>10, <1>15, FS_CardinalityType
<1>. HIDE DEF olderA, olderB, p, q
<1>17. p \subseteq q
  <2>. DEFINE m == Quota(Cardinality(A), Cardinality(olderA), config)
              l == Quota(Cardinality(Images(b)), Cardinality(olderB), config)
  <2>1. m \in Int /\ l \in Int /\ m <= l
    <3>1. Cardinality(Images(b)) <= Cardinality(Images(b))
          /\ Cardinality(olderB) <= Cardinality(olderB)
      BY <1>16
    <3>. QED BY <1>4, <1>15, <1>16, <3>1, QuotaGrows
  <2>. HIDE DEF m, l
  <2>2. IsFiniteSet(B) /\ B \subseteq Nat \X Nat /\ Images(b) = A \cup B
    BY <1>10, <1>11, FS_Subset
  <2>. HIDE DEF A, B
  <2>3. Oldest(A, m) \subseteq Oldest(A \cup B, l)
    BY <1>10, <1>12, <2>1, <2>2, Lengthened
  <2>. QED BY <1>13, <2>2, <2>3 DEF m, l
<1>18. ASSUME NEW at \in p
       PROVE  a[at[1]].parts[at[2]] = b[at[1]].parts[at[2]]
  <2>1. at \in A
    BY <1>13 DEF Oldest
  <2>2. at[1] \in DOMAIN a /\ at[2] \in DOMAIN a[at[1]].parts
    BY <1>7, <2>1, ImagesAre
  <2>. QED BY <1>8, <1>9, <2>2
<1>19. {a[at[1]].parts[at[2]].at : at \in p} \subseteq {b[at[1]].parts[at[2]].at : at \in q}
  BY <1>17, <1>18
<1>. QED BY <1>5, <1>6, <1>19 DEF first

\* What clients say has nothing replaced in it.
LEMMA SaysUnevicted ==
    ASSUME RequestInv, Unevicted(talk), NEW m \in Remarks, Say(m)
    PROVE  Unevicted(talk')
<1>. DEFINE parts == [k \in DOMAIN m.kinds |->
                        [kind |-> m.kinds[k], at |-> <<Len(talk) + 1, k>>]]
            msg == [role |-> m.role, parts |-> parts]
<1>1. talk' = Append(talk, msg)
  BY DEF Say
<1>2. /\ DOMAIN talk' = 1..(Len(talk) + 1) /\ DOMAIN talk = 1..Len(talk) /\ Len(talk) \in Nat
      /\ talk'[Len(talk) + 1] = msg /\ \A i \in 1..Len(talk) : talk'[i] = talk[i]
  <2>. HIDE DEF msg
  <2>1. \A x \in Seq(Message) :
          /\ DOMAIN Append(x, msg) = 1..(Len(x) + 1) /\ DOMAIN x = 1..Len(x) /\ Len(x) \in Nat
          /\ Append(x, msg)[Len(x) + 1] = msg
          /\ \A i \in 1..Len(x) : Append(x, msg)[i] = x[i]
    OBVIOUS
  <2>. QED BY <1>1, <2>1 DEF RequestInv, Talk
<1>3. \A k \in DOMAIN parts : parts[k].kind # "placeholder"
  <2>1. \A k \in DOMAIN m.kinds : m.kinds[k] \in Kinds
    BY TalkAssumption
  <2>2. \A k \in DOMAIN parts : parts[k].kind = m.kinds[k] /\ k \in DOMAIN m.kinds
    OBVIOUS
  <2>. HIDE DEF parts
  <2>. QED BY <2>1, <2>2 DEF Kinds
<1>4. msg.parts = parts
  OBVIOUS
<1>. HIDE DEF msg, parts
<1>5. ASSUME NEW i \in DOMAIN talk', NEW k \in DOMAIN talk'[i].parts
      PROVE  talk'[i].parts[k].kind # "placeholder"
  <2>1. i \in 1..Len(talk) \/ i = Len(talk) + 1
    BY <1>2
  <2>2. CASE i \in 1..Len(talk)
    BY <1>2, <1>5, <2>2 DEF Unevicted
  <2>3. CASE i = Len(talk) + 1
    BY <1>2, <1>3, <1>4, <1>5, <2>3
  <2>. QED BY <2>1, <2>2, <2>3
<1>. QED BY <1>5 DEF Unevicted

\* As a conversation goes on under one policy, an image that was replaced stays
\* replaced, however messages and policies alternate, as long as nothing is shown
\* after what the user said last: the evicted images are the oldest, and with
\* every message as many or more.
THEOREM EvictionsAreMonotone == Spec => EvictionMonotone
<1>. DEFINE Inv == PolicyInv /\ RequestInv /\ Unevicted(talk)
<1>1. Init => Inv
  BY PolicyInitial, RequestInitial DEF Init, Unevicted
<1>2. Inv /\ [Next]_vars => Inv'
  <2>. SUFFICES ASSUME PolicyInv, RequestInv, Unevicted(talk), [Next]_vars PROVE Inv'
    OBVIOUS
  <2>1. PolicyInv'
    BY PolicySteps
  <2>2. RequestInv'
    BY <2>1, RequestSteps
  <2>3. Unevicted(talk')
    BY Speaks, SaysUnevicted
  <2>4. Unevicted(talk)'
    BY <2>3 DEF Unevicted
  <2>. QED BY <2>1, <2>2, <2>4
<1>3. ASSUME Inv, Inv', [Next]_vars, sent # None, sent' # None, sent.config = sent'.config,
             ShownLast(SubSeq(talk, 1, sent.upto)), ShownLast(SubSeq(talk, 1, sent'.upto))
      PROVE  Gone \subseteq Gone'
  <2>1. Gone = GoneFrom(sent.body) /\ Gone' = GoneFrom(sent'.body)
    BY DEF Gone, GoneFrom, Parts
  <2>2. CASE sent' = sent
    BY <2>1, <2>2
  <2>3. CASE Send
    <3>1. talk' = talk /\ sent'.upto = Len(talk)
      BY <2>3 DEF Send
    <3>2. /\ talk \in Talk /\ sent.upto \in 0..Len(talk) /\ sent.config \in Rows
          /\ sent.body = Forwarded(SubSeq(talk, 1, sent.upto), sent.config)
          /\ sent'.body = Forwarded(SubSeq(talk, 1, sent'.upto), sent.config)
      BY <1>3, <3>1 DEF RequestInv
    <3>3. SubSeq(talk, 1, sent'.upto) = talk
      BY <3>1, <3>2 DEF Talk
    <3>4. sent'.body = Forwarded(talk, sent.config) /\ ShownLast(talk) /\ Unevicted(talk)
      BY <1>3, <3>2, <3>3
    <3>5. GoneFrom(sent.body) \subseteq GoneFrom(sent'.body)
      BY <1>3, <3>2, <3>4, StaysGone
    <3>. QED BY <2>1, <3>5
  <2>. QED BY <1>3, <2>2, <2>3, Speaks
<1>. HIDE DEF Inv
<1>4. Inv /\ Inv' /\ [Next]_vars =>
        [sent # None /\ sent' # None /\ sent.config = sent'.config
         /\ ShownLast(SubSeq(talk, 1, sent.upto)) /\ ShownLast(SubSeq(talk, 1, sent'.upto))
            => Gone \subseteq Gone']_vars
  BY <1>3
<1>5. Spec => []Inv
  BY <1>1, <1>2, PTL DEF Spec
<1>. QED BY <1>4, <1>5, PTL DEF Spec, EvictionMonotone

(* ---- Normal forms and their definition ----------------------------------- *)

IsUsers(msg) == msg.role \in {"user", "system"}

(* Which of the first n messages begin a message of the normal form, which *)
(* place it has there, and what joins it.                                  *)
Heads(msgs, n) == {i \in 1..n : msgs[i].role # "system"
                                  \/ \A j \in 1..i - 1 : ~IsUsers(msgs[j])}
Nth(msgs, i) == Cardinality(Heads(msgs, i))
Joins(msgs, n, i) ==
    {i} \cup {j \in 1..n : /\ IsUsers(msgs[i]) /\ j > i /\ msgs[j].role = "system"
                           /\ \A k \in i + 1..j : msgs[k].role # "user"}
Role(msg) == IF msg.role = "system" THEN "user" ELSE msg.role

(* What a message of the normal form is that begins with message i.        *)
Carries(msg, msgs, n, i) ==
    /\ msg.role = Role(msgs[i])
    /\ Range(msg.parts) = UNION {Range(msgs[j].parts) : j \in Joins(msgs, n, i)}
    /\ \A k, l \in DOMAIN msg.parts : k < l => Older(msg.parts[k].at, msg.parts[l].at)

Normal(out, msgs, n) ==
    /\ Len(out) = Cardinality(Heads(msgs, n))
    /\ \A i \in Heads(msgs, n) : Carries(out[Nth(msgs, i)], msgs, n, i)
    /\ \A p \in 1..Len(out) : \E i \in Heads(msgs, n) : p = Nth(msgs, i)

(* The parts of a conversation tell where they are from.                   *)
Original(msgs) == \A i \in DOMAIN msgs : \A k \in DOMAIN msgs[i].parts :
                     msgs[i].parts[k].at = <<i, k>>

\* Heads are numbered in their order.
LEMMA HeadsCount ==
    ASSUME NEW msgs \in Talk, NEW n \in 0..Len(msgs)
    PROVE  /\ IsFiniteSet(Heads(msgs, n)) /\ Cardinality(Heads(msgs, n)) \in Nat
           /\ n = 0 => Cardinality(Heads(msgs, n)) = 0
           /\ \A i \in Heads(msgs, n) : /\ i \in 1..n /\ i \in Heads(msgs, i)
                                        /\ Nth(msgs, i) \in 1..Cardinality(Heads(msgs, n))
           /\ \A i, j \in Heads(msgs, n) : i < j => Nth(msgs, i) < Nth(msgs, j)
<1>1. n \in Nat
  BY TalkTyped
<1>2. ASSUME NEW m \in 0..n
      PROVE  IsFiniteSet(Heads(msgs, m)) /\ Cardinality(Heads(msgs, m)) \in Nat
  <2>1. IsFiniteSet(1..m)
    BY <1>1, FS_Interval
  <2>2. Heads(msgs, m) \in SUBSET (1..m)
    BY DEF Heads
  <2>. QED BY <2>1, <2>2, FS_Subset, FS_CardinalityType
<1>3. n = 0 => Cardinality(Heads(msgs, n)) = 0
  <2>1. n = 0 => Heads(msgs, n) = {}
    BY DEF Heads
  <2>. QED BY <2>1, FS_EmptySet
<1>4. ASSUME NEW i \in Heads(msgs, n)
      PROVE  i \in 1..n /\ i \in 0..n /\ i \in Nat /\ i \in Heads(msgs, i)
             /\ Heads(msgs, i) \subseteq Heads(msgs, n)
  BY <1>1 DEF Heads
<1>5. ASSUME NEW i \in Heads(msgs, n)
      PROVE  Nth(msgs, i) \in 1..Cardinality(Heads(msgs, n))
  <2>1. Cardinality(Heads(msgs, i)) <= Cardinality(Heads(msgs, n))
    BY <1>1, <1>2, <1>4, FS_Subset
  <2>2. Cardinality(Heads(msgs, i)) # 0
    BY <1>2, <1>4, FS_EmptySet
  <2>. QED BY <1>2, <1>4, <2>1, <2>2 DEF Nth
<1>6. ASSUME NEW i \in Heads(msgs, n), NEW j \in Heads(msgs, n), i < j
      PROVE  Nth(msgs, i) < Nth(msgs, j)
  <2>1. Heads(msgs, i) \in SUBSET Heads(msgs, j) /\ j \notin Heads(msgs, i)
    BY <1>4, <1>6 DEF Heads
  <2>2. /\ Cardinality(Heads(msgs, i)) <= Cardinality(Heads(msgs, j))
        /\ Cardinality(Heads(msgs, i)) # Cardinality(Heads(msgs, j))
    BY <1>2, <1>4, <2>1, FS_Subset
  <2>. QED BY <1>2, <1>4, <2>2 DEF Nth
<1>7. Cardinality(Heads(msgs, n)) \in Nat /\ IsFiniteSet(Heads(msgs, n))
  BY <1>1, <1>2
<1>. QED BY <1>3, <1>4, <1>5, <1>6, <1>7

\* A message that is no head leaves the heads as they were.
LEMMA HeadsStep ==
    ASSUME NEW msgs \in Talk, NEW n \in 1..Len(msgs)
    PROVE  /\ n \in Heads(msgs, n) =>
                /\ Heads(msgs, n) = Heads(msgs, n - 1) \cup {n}
                /\ Cardinality(Heads(msgs, n)) = Cardinality(Heads(msgs, n - 1)) + 1
           /\ n \notin Heads(msgs, n) => Heads(msgs, n) = Heads(msgs, n - 1)
           /\ n \notin Heads(msgs, n - 1)
           /\ n \in Heads(msgs, n) <=> \/ msgs[n].role # "system"
                                       \/ \A j \in 1..n - 1 : ~IsUsers(msgs[j])
<1>1. n \in Nat /\ n > 0 /\ n - 1 \in 0..Len(msgs)
  BY TalkTyped
<1>2. \A i : i \in 1..n <=> i \in 1..n - 1 \/ i = n
  BY <1>1
<1>3. n \notin 1..n - 1 /\ n \in 1..n
  BY <1>1
<1>4. n \in Heads(msgs, n) => Heads(msgs, n) = Heads(msgs, n - 1) \cup {n}
  BY <1>2, <1>3 DEF Heads
<1>5. n \notin Heads(msgs, n) => Heads(msgs, n) = Heads(msgs, n - 1)
  BY <1>2, <1>3 DEF Heads
<1>6. n \notin Heads(msgs, n - 1)
  BY <1>3 DEF Heads
<1>7. n \in Heads(msgs, n) =>
        Cardinality(Heads(msgs, n)) = Cardinality(Heads(msgs, n - 1)) + 1
  BY <1>1, <1>4, <1>6, HeadsCount, FS_AddElement
<1>8. n \in Heads(msgs, n) <=> \/ msgs[n].role # "system"
                               \/ \A j \in 1..n - 1 : ~IsUsers(msgs[j])
  BY <1>3 DEF Heads
<1>. QED BY <1>4, <1>5, <1>6, <1>7, <1>8

\* A user's message or a system message among the first n: some head is one.
LEMMA UsersHead ==
    ASSUME NEW msgs \in Talk, NEW n \in 0..Len(msgs), NEW j \in 1..n, IsUsers(msgs[j])
    PROVE  \E i \in Heads(msgs, n) : IsUsers(msgs[i])
<1>1. n \in Nat /\ j \in Nat
  BY TalkTyped
<1>. DEFINE T == {k \in 1..n : IsUsers(msgs[k])}
<1>2. T \in SUBSET Nat /\ T # {}
  BY <1>1
<1>3. PICK i \in T : \A k \in T : i <= k
  <2>. HIDE DEF T
  <2>. QED BY <1>2, LeastNumber
<1>4. \A k \in 1..i - 1 : k \in 1..n /\ ~(i <= k)
  BY <1>1
<1>5. \A k \in 1..i - 1 : ~IsUsers(msgs[k])
  BY <1>3, <1>4
<1>6. i \in Heads(msgs, n)
  BY <1>5 DEF Heads
<1>. QED BY <1>6

\* A message that nothing has joined yet carries its own parts.
LEMMA CarriesItself ==
    ASSUME NEW msgs \in Talk, Original(msgs), NEW n \in 1..Len(msgs), NEW x,
           x.role = Role(msgs[n]), x.parts = msgs[n].parts
    PROVE  Carries(x, msgs, n, n)
<1>1. n \in Nat /\ n \in DOMAIN msgs
  BY TalkTyped
<1>2. Joins(msgs, n, n) = {n}
  <2>1. \A j \in 1..n : ~(j > n)
    BY <1>1
  <2>. QED BY <2>1 DEF Joins
<1>3. Range(x.parts) = UNION {Range(msgs[j].parts) : j \in Joins(msgs, n, n)}
  BY <1>2
<1>4. ASSUME NEW k \in DOMAIN x.parts, NEW l \in DOMAIN x.parts, k < l
      PROVE  Older(x.parts[k].at, x.parts[l].at)
  <2>1. x.parts[k].at = <<n, k>> /\ x.parts[l].at = <<n, l>>
    BY <1>1 DEF Original
  <2>. QED BY <1>4, <2>1 DEF Older
<1>. QED BY <1>3, <1>4 DEF Carries

\* What carries the messages before carries one that joins, its parts being last.
LEMMA CarriesMore ==
    ASSUME NEW msgs \in Talk, Original(msgs), NEW n \in 1..Len(msgs),
           NEW i \in Heads(msgs, n - 1), NEW msg \in Message, NEW e,
           Carries(msg, msgs, n - 1, i),
           Joins(msgs, n, i) = Joins(msgs, n - 1, i) \cup {n},
           e.role = msg.role, e.parts = msg.parts \o msgs[n].parts
    PROVE  Carries(e, msgs, n, i)
<1>. DEFINE a == msg.parts
            b == msgs[n].parts
<1>1. n \in Nat /\ n \in DOMAIN msgs /\ n > 0 /\ n - 1 \in Nat
  BY TalkTyped
<1>2. a \in Seq(Part) /\ b \in Seq(Part)
  BY <1>1, TalkTyped DEF Message, PartList
<1>3. \A x, y \in Seq(Part) :
        /\ Len(x) \in Nat /\ DOMAIN x = 1..Len(x) /\ Len(y) \in Nat /\ DOMAIN y = 1..Len(y)
        /\ DOMAIN (x \o y) = 1..(Len(x) + Len(y))
        /\ \A k \in 1..Len(x) : (x \o y)[k] = x[k]
        /\ \A k \in 1..Len(y) : (x \o y)[Len(x) + k] = y[k]
  OBVIOUS
<1>4. /\ Len(a) \in Nat /\ DOMAIN a = 1..Len(a) /\ Len(b) \in Nat /\ DOMAIN b = 1..Len(b)
      /\ DOMAIN e.parts = 1..(Len(a) + Len(b))
      /\ \A k \in 1..Len(a) : e.parts[k] = a[k]
      /\ \A k \in 1..Len(b) : e.parts[Len(a) + k] = b[k]
  <2>1. e.parts = a \o b
    OBVIOUS
  <2>. HIDE DEF a, b
  <2>. QED BY <1>2, <1>3, <2>1
<1>5. \A k \in 1..Len(b) : b[k].at = <<n, k>>
  BY <1>1, <1>4 DEF Original
<1>6. \A k \in 1..Len(a) : a[k].at[1] \in 1..n - 1
  <2>. SUFFICES ASSUME NEW k \in 1..Len(a) PROVE a[k].at[1] \in 1..n - 1
    OBVIOUS
  <2>1. a[k] \in Range(a)
    BY <1>4 DEF Range
  <2>2. PICK j \in Joins(msgs, n - 1, i) : a[k] \in Range(msgs[j].parts)
    BY <2>1 DEF Carries
  <2>3. j \in 1..n - 1 /\ j \in DOMAIN msgs
    <3>1. i \in 1..n - 1
      BY DEF Heads
    <3>2. j \in 1..n - 1
      BY <3>1 DEF Joins
    <3>. QED BY <1>1, <3>2, TalkTyped
  <2>4. PICK l \in DOMAIN msgs[j].parts : a[k] = msgs[j].parts[l]
    BY <2>2 DEF Range
  <2>5. a[k].at = <<j, l>>
    BY <2>3, <2>4 DEF Original
  <2>. QED BY <2>3, <2>5
<1>. DEFINE p == e.parts
            na == Len(a)
            nb == Len(b)
<1>. HIDE DEF p, a, b, na, nb
<1>7. Range(p) = Range(a) \cup Range(b)
  <2>1. \A k \in DOMAIN p : \/ k \in 1..na /\ p[k] = a[k]
                            \/ k - na \in 1..nb /\ p[k] = b[k - na]
    <3>. SUFFICES ASSUME NEW k \in 1..(na + nb)
                  PROVE  \/ k \in 1..na /\ p[k] = a[k]
                         \/ k - na \in 1..nb /\ p[k] = b[k - na]
      BY <1>4 DEF p, na, nb
    <3>1. k \in 1..na \/ (k - na \in 1..nb /\ na + (k - na) = k)
      BY <1>4 DEF na, nb
    <3>. QED BY <1>4, <3>1 DEF p, na, nb
  <2>0. na \in Nat /\ nb \in Nat /\ DOMAIN p = 1..(na + nb)
    BY <1>4 DEF na, nb, p
  <2>2. \A k \in 1..na : k \in DOMAIN p /\ p[k] = a[k]
    <3>1. \A k \in 1..na : k \in 1..(na + nb)
      BY <2>0
    <3>. QED BY <1>4, <2>0, <3>1 DEF p, na
  <2>3. \A k \in 1..nb : na + k \in DOMAIN p /\ p[na + k] = b[k]
    <3>1. \A k \in 1..nb : na + k \in 1..(na + nb)
      BY <2>0
    <3>. QED BY <1>4, <2>0, <3>1 DEF p, na, nb
  <2>4. DOMAIN a = 1..na /\ DOMAIN b = 1..nb
    BY <1>4 DEF na, nb
  <2>. QED BY <2>1, <2>2, <2>3, <2>4 DEF Range
<1>8. Range(p) = UNION {Range(msgs[j].parts) : j \in Joins(msgs, n, i)}
  <2>1. Range(a) = UNION {Range(msgs[j].parts) : j \in Joins(msgs, n - 1, i)}
    BY DEF Carries, a
  <2>2. Range(b) = Range(msgs[n].parts)
    BY DEF b
  <2>. QED BY <1>7, <2>1, <2>2
<1>9. ASSUME NEW k \in DOMAIN p, NEW l \in DOMAIN p, k < l
      PROVE  Older(p[k].at, p[l].at)
  <2>0. na \in Nat /\ nb \in Nat /\ DOMAIN p = 1..(na + nb)
    BY <1>4 DEF na, nb, p
  <2>1. CASE k \in 1..na /\ l \in 1..na
    <3>1. p[k] = a[k] /\ p[l] = a[l] /\ k \in DOMAIN a /\ l \in DOMAIN a
      BY <1>4, <2>1 DEF p, na
    <3>. QED BY <1>9, <3>1 DEF Carries, a
  <2>2. CASE k \in 1..na /\ l \notin 1..na
    <3>1. l - na \in 1..nb /\ na + (l - na) = l
      BY <2>0, <2>2
    <3>2. p[l] = b[l - na] /\ p[k] = a[k]
      BY <1>4, <2>2, <3>1 DEF p, na, nb
    <3>3. p[l].at[1] = n
      BY <1>5, <3>1, <3>2 DEF nb
    <3>4. p[k].at[1] \in 1..n - 1
      BY <1>6, <2>2, <3>2 DEF na
    <3>. QED BY <1>1, <3>3, <3>4 DEF Older
  <2>3. CASE k \notin 1..na
    <3>1. /\ l - na \in 1..nb /\ na + (l - na) = l
          /\ k - na \in 1..nb /\ na + (k - na) = k /\ k - na < l - na
      BY <1>9, <2>0, <2>3
    <3>2. p[l] = b[l - na] /\ p[k] = b[k - na]
      BY <1>4, <3>1 DEF p, na, nb
    <3>3. p[l].at = <<n, l - na>> /\ p[k].at = <<n, k - na>>
      BY <1>5, <3>1, <3>2 DEF nb
    <3>. QED BY <3>1, <3>3 DEF Older
  <2>. QED BY <2>1, <2>2, <2>3
<1>10. e.role = Role(msgs[i])
  BY DEF Carries
<1>. QED BY <1>8, <1>9, <1>10 DEF Carries, p

\* A head comes last.
LEMMA HeadPlaced ==
    ASSUME NEW msgs \in Talk, Original(msgs), NEW n \in 1..Len(msgs), NEW out \in Talk,
           Normal(out, msgs, n - 1), n \in Heads(msgs, n),
           \A i \in Heads(msgs, n - 1) : Joins(msgs, n, i) = Joins(msgs, n - 1, i),
           NEW x \in Message, x.role = Role(msgs[n]), x.parts = msgs[n].parts
    PROVE  Normal(Append(out, x), msgs, n)
<1>. DEFINE c == Append(out, x)
            old == Heads(msgs, n - 1)
            new == Heads(msgs, n)
            N == Cardinality(old)
<1>1. n \in Nat /\ n > 0 /\ n - 1 \in 0..Len(msgs) /\ n \in 0..Len(msgs)
  BY TalkTyped
<1>2. new = old \cup {n} /\ Cardinality(new) = N + 1 /\ N \in Nat
  BY <1>1, HeadsStep, HeadsCount
<1>3. Nth(msgs, n) = N + 1
  BY <1>2 DEF Nth
<1>4. Len(c) = Len(out) + 1 /\ c[Len(out) + 1] = x /\ \A p \in 1..Len(out) : c[p] = out[p]
  BY DEF Talk
<1>5. Len(out) = N
  BY DEF Normal
<1>. HIDE DEF c, old, new
<1>6. \A i \in old : Nth(msgs, i) \in 1..N
  BY <1>1, HeadsCount DEF old
<1>7. ASSUME NEW i \in old PROVE Carries(c[Nth(msgs, i)], msgs, n, i)
  <2>1. c[Nth(msgs, i)] = out[Nth(msgs, i)]
    BY <1>4, <1>5, <1>6
  <2>2. Carries(out[Nth(msgs, i)], msgs, n - 1, i) /\ Joins(msgs, n, i) = Joins(msgs, n - 1, i)
    BY DEF Normal, old
  <2>3. Carries(out[Nth(msgs, i)], msgs, n, i)
    BY <2>2 DEF Carries
  <2>. QED BY <2>1, <2>3
<1>8. Carries(c[Nth(msgs, n)], msgs, n, n)
  BY <1>3, <1>4, <1>5, CarriesItself
<1>9. ASSUME NEW p \in 1..Len(c) PROVE \E i \in new : p = Nth(msgs, i)
  <2>1. p \in 1..Len(out) \/ p = N + 1
    <3>. HIDE DEF N
    <3>. QED BY <1>2, <1>4, <1>5
  <2>2. CASE p \in 1..Len(out)
    <3>1. \E i \in old : p = Nth(msgs, i)
      BY <2>2 DEF Normal, old
    <3>. QED BY <1>2, <3>1
  <2>3. CASE p = N + 1
    BY <1>2, <1>3, <2>3
  <2>. QED BY <2>1, <2>2, <2>3
<1>10. Len(c) = Cardinality(new)
  BY <1>2, <1>4, <1>5
<1>11. \A i \in new : Carries(c[Nth(msgs, i)], msgs, n, i)
  BY <1>2, <1>7, <1>8
<1>. QED BY <1>9, <1>10, <1>11 DEF Normal, c, new

\* What joins a head changes with a system message only, and by no more than that.
LEMMA JoinsStep ==
    ASSUME NEW msgs \in Talk, NEW n \in 1..Len(msgs), NEW i \in Heads(msgs, n - 1)
    PROVE  /\ n \notin Joins(msgs, n, i) => Joins(msgs, n, i) = Joins(msgs, n - 1, i)
           /\ n \in Joins(msgs, n, i) =>
                /\ Joins(msgs, n, i) = Joins(msgs, n - 1, i) \cup {n}
           /\ n \in Joins(msgs, n, i) <=>
                /\ IsUsers(msgs[i]) /\ msgs[n].role = "system"
                /\ \A k \in i + 1..n : msgs[k].role # "user"
<1>1. n \in Nat /\ n > 0 /\ i \in 1..n - 1
  BY TalkTyped DEF Heads
<1>2. /\ \A j : j \in 1..n <=> j \in 1..n - 1 \/ j = n
      /\ n \in 1..n /\ n \notin 1..n - 1 /\ i # n /\ n > i
  BY <1>1
<1>3. n \notin Joins(msgs, n, i) => Joins(msgs, n, i) = Joins(msgs, n - 1, i)
  BY <1>2 DEF Joins
<1>4. n \in Joins(msgs, n, i) => Joins(msgs, n, i) = Joins(msgs, n - 1, i) \cup {n}
  BY <1>2 DEF Joins
<1>5. n \in Joins(msgs, n, i) <=>
        /\ IsUsers(msgs[i]) /\ msgs[n].role = "system"
        /\ \A k \in i + 1..n : msgs[k].role # "user"
  BY <1>2 DEF Joins
<1>. QED BY <1>3, <1>4, <1>5

\* A system message goes to the user message before it.
LEMMA JoinPlaced ==
    ASSUME NEW msgs \in Talk, Original(msgs), NEW n \in 1..Len(msgs), NEW out \in Talk,
           Normal(out, msgs, n - 1), msgs[n].role = "system", Target(out) > 0
    PROVE  Normal([out EXCEPT ![Target(out)].parts = out[Target(out)].parts \o msgs[n].parts],
                  msgs, n)
<1>. DEFINE t == Target(out)
            q == out[t].parts \o msgs[n].parts
            e == [out[t] EXCEPT !.parts = q]
            c == [out EXCEPT ![t].parts = q]
            old == Heads(msgs, n - 1)
<1>1. n \in Nat /\ n > 0 /\ n - 1 \in 0..Len(msgs) /\ Len(msgs) \in Nat
  BY TalkTyped
<1>2. /\ t \in 1..Len(out) /\ out[t].role = "user" /\ Len(out) \in Nat
      /\ \A p \in 1..Len(out) : out[p].role = "user" => p <= t
  BY LastOfRole, TalkTyped DEF Target
<1>3. PICK h \in old : t = Nth(msgs, h)
  BY <1>2 DEF Normal
<1>4. \A i \in old : /\ i \in 1..n - 1 /\ Nth(msgs, i) \in 1..Len(out)
                     /\ Carries(out[Nth(msgs, i)], msgs, n - 1, i)
  BY <1>1, HeadsCount DEF Normal
<1>5. \A i \in old : IsUsers(msgs[i]) <=> out[Nth(msgs, i)].role = "user"
  BY <1>4 DEF Carries, Role, IsUsers
<1>6. IsUsers(msgs[h])
  BY <1>2, <1>3, <1>5
<1>7. ASSUME NEW i \in old, i > h PROVE ~IsUsers(msgs[i])
  <2>1. Nth(msgs, i) > t
    BY <1>1, <1>3, <1>4, <1>7, HeadsCount
  <2>. QED BY <1>2, <1>4, <1>5, <2>1
<1>8. h \in 1..n - 1 /\ n \notin Heads(msgs, n)
  BY <1>1, <1>4, <1>6, HeadsStep DEF IsUsers
<1>9. Heads(msgs, n) = old
  BY <1>8, HeadsStep
<1>10. n \in Joins(msgs, n, h)
  <2>. SUFFICES ASSUME NEW k \in h + 1..n, msgs[k].role = "user" PROVE FALSE
    BY <1>6, JoinsStep
  <2>1. k # n
    OBVIOUS
  <2>2. k \in 1..n - 1 /\ k > h
    BY <1>1, <1>8, <2>1
  <2>3. k \in old
    BY <2>2 DEF Heads
  <2>. QED BY <1>7, <2>2, <2>3 DEF IsUsers
<1>11. Joins(msgs, n, h) = Joins(msgs, n - 1, h) \cup {n}
  BY <1>10, JoinsStep
<1>12. ASSUME NEW i \in old, i # h
       PROVE  Joins(msgs, n, i) = Joins(msgs, n - 1, i)
  <2>. SUFFICES ASSUME n \in Joins(msgs, n, i) PROVE FALSE
    BY JoinsStep
  <2>1. IsUsers(msgs[i]) /\ \A k \in i + 1..n : msgs[k].role # "user"
    BY JoinsStep
  <2>2. i \in Nat /\ h \in Nat /\ i < h /\ h \in i + 1..n
    BY <1>1, <1>4, <1>7, <1>8, <1>12, <2>1
  <2>3. msgs[h].role = "system" /\ i \in 1..h - 1
    BY <1>4, <1>6, <2>1, <2>2 DEF IsUsers
  <2>. QED BY <2>1, <2>3 DEF Heads
<1>13. out[t] \in Message /\ msgs[n] \in Message /\ t \in DOMAIN out
  BY <1>1, <1>2, TalkTyped
<1>14. e.role = out[t].role /\ e.parts = q
  BY <1>13 DEF Message
<1>15. c = [out EXCEPT ![t] = e]
  OBVIOUS
<1>16. Carries(e, msgs, n, h)
  <2>1. Carries(out[t], msgs, n - 1, h)
    BY <1>3, <1>4
  <2>. HIDE DEF t, e
  <2>. QED BY <1>11, <1>13, <1>14, <2>1, CarriesMore
<1>. HIDE DEF c, e, t
<1>17. c[t] = e /\ Len(c) = Len(out) /\ \A p \in 1..Len(out) : p # t => c[p] = out[p]
  BY <1>2, <1>15 DEF Talk
<1>18. ASSUME NEW i \in old PROVE Carries(c[Nth(msgs, i)], msgs, n, i)
  <2>1. CASE i = h
    BY <1>3, <1>16, <1>17, <2>1
  <2>2. CASE i # h
    <3>1. Nth(msgs, i) # t
      <4>1. i < h \/ h < i
        BY <1>1, <1>4, <1>8, <2>2
      <4>2. Nth(msgs, i) \in Nat /\ Nth(msgs, h) \in Nat
        BY <1>2, <1>4
      <4>3. Nth(msgs, i) < Nth(msgs, h) \/ Nth(msgs, h) < Nth(msgs, i)
        BY <1>1, <4>1, HeadsCount
      <4>. QED BY <1>3, <4>2, <4>3
    <3>2. c[Nth(msgs, i)] = out[Nth(msgs, i)]
      BY <1>4, <1>17, <3>1
    <3>3. Joins(msgs, n, i) = Joins(msgs, n - 1, i)
      BY <1>12, <2>2
    <3>. QED BY <1>4, <3>2, <3>3 DEF Carries
  <2>. QED BY <2>1, <2>2
<1>19. Len(c) = Cardinality(old) /\ \A p \in 1..Len(c) : \E i \in old : p = Nth(msgs, i)
  BY <1>17 DEF Normal
<1>20. Normal(c, msgs, n)
  BY <1>9, <1>18, <1>19 DEF Normal
<1>. QED BY <1>20 DEF c, t

\* One step of the recursion keeps the normal form of what has been said by then.
LEMMA NormalPlaced ==
    ASSUME NEW msgs \in Talk, Original(msgs), NEW n \in 1..Len(msgs), NEW out \in Talk,
           Normal(out, msgs, n - 1)
    PROVE  Normal(Placed(out, msgs[n]), msgs, n)
<1>1. n \in Nat /\ n > 0 /\ n - 1 \in 0..Len(msgs) /\ Len(msgs) \in Nat /\ msgs[n] \in Message
  BY TalkTyped
<1>2. CASE msgs[n].role # "system"
  <2>1. \A i \in Heads(msgs, n - 1) : Joins(msgs, n, i) = Joins(msgs, n - 1, i)
    BY <1>2, JoinsStep
  <2>2. n \in Heads(msgs, n) /\ msgs[n].role = Role(msgs[n])
    BY <1>2, HeadsStep DEF Role
  <2>3. Normal(Append(out, msgs[n]), msgs, n)
    BY <1>1, <2>1, <2>2, HeadPlaced
  <2>. QED BY <1>2, <2>3 DEF Placed
<1>3. CASE msgs[n].role = "system" /\ Target(out) > 0
  BY <1>3, JoinPlaced DEF Placed
<1>4. CASE msgs[n].role = "system" /\ ~(Target(out) > 0)
  <2>. DEFINE x == [role |-> "user", parts |-> msgs[n].parts]
  <2>1. ASSUME NEW i \in Heads(msgs, n - 1) PROVE ~IsUsers(msgs[i])
    <3>1. Nth(msgs, i) \in 1..Len(out) /\ Carries(out[Nth(msgs, i)], msgs, n - 1, i)
      BY <1>1, HeadsCount DEF Normal
    <3>2. LastOf("user", out) \in Nat
      BY LastOfRole, TalkTyped
    <3>3. out[Nth(msgs, i)].role # "user"
      BY <1>4, <3>1, <3>2, LastOfRole DEF Target
    <3>. QED BY <3>1, <3>3 DEF Carries, Role, IsUsers
  <2>2. \A j \in 1..n - 1 : ~IsUsers(msgs[j])
    BY <1>1, <2>1, UsersHead
  <2>3. n \in Heads(msgs, n)
    BY <2>2, HeadsStep
  <2>4. \A i \in Heads(msgs, n - 1) : Joins(msgs, n, i) = Joins(msgs, n - 1, i)
    BY <2>1, JoinsStep
  <2>5. x \in Message /\ x.role = Role(msgs[n]) /\ x.parts = msgs[n].parts
    BY <1>1, <1>4 DEF Message, Roles, Role
  <2>. HIDE DEF x
  <2>6. Normal(Append(out, x), msgs, n)
    BY <2>3, <2>4, <2>5, HeadPlaced
  <2>. QED BY <1>4, <2>6 DEF Placed, x
<1>. QED BY <1>2, <1>3, <1>4

\* And so the recursion yields the normal form.
LEMMA NormalizedNormal ==
    ASSUME NEW msgs \in Talk, Original(msgs)
    PROVE  Normal(Normalized(msgs), msgs, Len(msgs))
<1>1. PICK f : Normalizes(f, msgs, Len(msgs)) /\ Normalized(msgs) = f[Len(msgs)]
  BY NormalizedRuns
<1>. DEFINE L == Len(msgs)
            T == {k \in 0..L : Normal(f[k], msgs, k)}
<1>2. L \in Nat
  BY TalkTyped
<1>3. /\ f[0] = <<>> /\ \A k \in 0..L : f[k] \in Talk
      /\ \A k \in 1..L : f[k] = Placed(f[k - 1], msgs[k])
  BY <1>1, RunsTyped
<1>4. 0 \in T
  <2>1. Heads(msgs, 0) = {} /\ Cardinality(Heads(msgs, 0)) = 0
    <3>1. 0 \in 0..Len(msgs) /\ \A i : i \notin 1..0
      BY <1>2
    <3>. QED BY <3>1, HeadsCount DEF Heads
  <2>2. Len(<<>>) = 0 /\ \A p : p \notin 1..0
    OBVIOUS
  <2>3. Normal(f[0], msgs, 0)
    BY <1>3, <2>1, <2>2 DEF Normal
  <2>. QED BY <1>2, <2>3
<1>5. ASSUME NEW k \in 0..L, k > 0, k - 1 \in T PROVE k \in T
  <2>1. k \in 1..L /\ k - 1 \in 0..L
    BY <1>2, <1>5
  <2>2. Normal(Placed(f[k - 1], msgs[k]), msgs, k)
    BY <1>3, <1>5, <2>1, NormalPlaced
  <2>. QED BY <1>3, <2>1, <2>2
<1>. HIDE DEF T
<1>6. L \in T
  <2>1. 0..L \subseteq T
    BY <1>2, <1>4, <1>5, Upward
  <2>. QED BY <1>2, <2>1
<1>. QED BY <1>1, <1>6 DEF T

\* What clients say tells where it is from.
LEMMA SaysOriginal ==
    ASSUME RequestInv, Original(talk), NEW m \in Remarks, Say(m)
    PROVE  Original(talk')
<1>. DEFINE parts == [k \in DOMAIN m.kinds |->
                        [kind |-> m.kinds[k], at |-> <<Len(talk) + 1, k>>]]
            msg == [role |-> m.role, parts |-> parts]
<1>1. talk' = Append(talk, msg)
  BY DEF Say
<1>2. /\ DOMAIN talk' = 1..(Len(talk) + 1) /\ DOMAIN talk = 1..Len(talk) /\ Len(talk) \in Nat
      /\ talk'[Len(talk) + 1] = msg /\ \A i \in 1..Len(talk) : talk'[i] = talk[i]
  <2>. HIDE DEF msg
  <2>1. \A x \in Seq(Message) :
          /\ DOMAIN Append(x, msg) = 1..(Len(x) + 1) /\ DOMAIN x = 1..Len(x) /\ Len(x) \in Nat
          /\ Append(x, msg)[Len(x) + 1] = msg
          /\ \A i \in 1..Len(x) : Append(x, msg)[i] = x[i]
    OBVIOUS
  <2>. QED BY <1>1, <2>1 DEF RequestInv, Talk
<1>3. \A k \in DOMAIN parts : parts[k].at = <<Len(talk) + 1, k>>
  OBVIOUS
<1>4. msg.parts = parts
  OBVIOUS
<1>. HIDE DEF msg, parts
<1>5. ASSUME NEW i \in DOMAIN talk', NEW k \in DOMAIN talk'[i].parts
      PROVE  talk'[i].parts[k].at = <<i, k>>
  <2>1. i \in 1..Len(talk) \/ i = Len(talk) + 1
    BY <1>2
  <2>2. CASE i \in 1..Len(talk)
    BY <1>2, <1>5, <2>2 DEF Original
  <2>3. CASE i = Len(talk) + 1
    BY <1>2, <1>3, <1>4, <1>5, <2>3
  <2>. QED BY <2>1, <2>2, <2>3
<1>. QED BY <1>5 DEF Original

\* Whatever a client sends, normalisation yields what its definition says: every
\* message that is not a system's keeps its place among the others, each system
\* message is with the user message before it, and the parts of both are all there,
\* in their order.
THEOREM NormalizedIsRight == Spec => []NormalizedRight
<1>. DEFINE Inv == PolicyInv /\ RequestInv /\ Original(talk)
<1>1. Init => Inv
  BY PolicyInitial, RequestInitial DEF Init, Original
<1>2. Inv /\ [Next]_vars => Inv'
  <2>. SUFFICES ASSUME PolicyInv, RequestInv, Original(talk), [Next]_vars PROVE Inv'
    OBVIOUS
  <2>1. PolicyInv'
    BY PolicySteps
  <2>2. RequestInv'
    BY <2>1, RequestSteps
  <2>3. Original(talk')
    BY Speaks, SaysOriginal
  <2>4. Original(talk)'
    BY <2>3 DEF Original
  <2>. QED BY <2>1, <2>2, <2>4
<1>3. Inv => NormalizedRight
  <2>. SUFFICES ASSUME RequestInv, Original(talk) PROVE NormalizedRight
    OBVIOUS
  <2>. DEFINE out == Normalized(talk)
              L == Len(talk)
  <2>1. talk \in Talk /\ L \in Nat /\ L \in 0..Len(talk) /\ DOMAIN talk = 1..L
    BY TalkTyped DEF RequestInv
  <2>2. Normal(out, talk, L)
    BY <2>1, NormalizedNormal
  <2>. DEFINE IsUser(i) == talk[i].role \in {"user", "system"}
              heads == {i \in DOMAIN talk : talk[i].role # "system"
                                              \/ \A j \in 1..i - 1 : ~IsUser(j)}
              Joined(i) == {i} \cup {j \in DOMAIN talk : IsUser(i) /\ j > i
                                       /\ talk[j].role = "system"
                                       /\ \A k \in i + 1..j : talk[k].role # "user"}
  <2>3. heads = Heads(talk, L)
    BY <2>1 DEF Heads, IsUsers
  <2>4. ASSUME NEW i \in heads
        PROVE  Cardinality({h \in heads : h <= i}) = Nth(talk, i)
    <3>1. i \in 1..L /\ \A h : h \in 1..L /\ h <= i <=> h \in 1..i
      BY <2>1
    <3>2. {h \in Heads(talk, L) : h <= i} = Heads(talk, i)
      BY <3>1 DEF Heads
    <3>. QED BY <2>3, <3>2 DEF Nth
  <2>5. ASSUME NEW i \in heads PROVE Joined(i) = Joins(talk, L, i)
    BY <2>1 DEF Joins, IsUsers
  <2>. HIDE DEF out, heads, Joined
  <2>6. Len(out) = Cardinality(heads)
    BY <2>2, <2>3 DEF Normal
  <2>7. ASSUME NEW i \in heads
        PROVE  LET msg == out[Cardinality({h \in heads : h <= i})]
               IN /\ msg.role = IF talk[i].role = "system" THEN "user" ELSE talk[i].role
                  /\ Range(msg.parts) = UNION {Range(talk[j].parts) : j \in Joined(i)}
                  /\ \A k, l \in DOMAIN msg.parts :
                       k < l => Older(msg.parts[k].at, msg.parts[l].at)
    BY <2>2, <2>3, <2>4, <2>5 DEF Normal, Carries, Role
  <2>. QED BY <2>6, <2>7 DEF NormalizedRight, out, heads, Joined
<1>. HIDE DEF Inv
<1>. QED BY <1>1, <1>2, <1>3, PTL DEF Spec

(* ---- Answers ------------------------------------------------------------ *)

Calls == {"tool", "toolAndStop"}
Words == Happens \cup {"toolCalls", "newline"}

(* The choices that have sent fragments of a call in the first n lines.    *)
Callers(lines, n) ==
    {i \in Nat : \E j \in 1..n : i \in DOMAIN lines[j] /\ lines[j][i] \in Calls}

(* What a client should get of the first n lines.                          *)
Corrected(lines, n) ==
    [k \in 1..n |-> [i \in DOMAIN lines[k] |->
        IF lines[k][i] \in {"stop", "toolAndStop"} /\ i \in Callers(lines, k)
        THEN "toolCalls" ELSE lines[k][i]]]

Text == Seq(Seq(Words))
Streams == [at : {"streaming", "finished", "broken"}, lines : StreamsOf, rest : Text,
            chunk : Text, buf : Text, saw : SUBSET Nat, out : Text, captured : Nat,
            truncated : BOOLEAN, captures : Nat]

(* The first n bytes as far as there is room.                              *)
Kept(n) == IF n < CaptureLimit THEN n ELSE CaptureLimit

(* What went out of a stream, and what was captured.                       *)
PassedOn(a) ==
    LET n == Len(a.out)
    IN /\ n <= Len(a.lines)
       /\ a.out = Corrected(a.lines, n) /\ a.saw = Callers(a.lines, n)
       /\ a.captured = Kept(LineBytes * n)
       /\ a.truncated <=> LineBytes * n > CaptureLimit

(* How many pieces have been taken, and which one may be buffered.         *)
Place(a) == 2 * Len(a.out) + Len(a.buf)
Buffered(a) == \/ a.buf = <<>>
               \/ Len(a.out) < Len(a.lines) /\ a.buf = <<a.lines[Len(a.out) + 1]>>

(* Where the other pieces are, of which there are the last of ended lines. *)
Whole(a, ended) ==
    LET all == Pieces(a.lines, ended)
    IN /\ Buffered(a)
       /\ Len(all) = Place(a) + Len(a.chunk) + Len(a.rest)
       /\ \A k \in 1..Len(a.chunk) : a.chunk[k] = all[Place(a) + k]
       /\ \A k \in 1..Len(a.rest) : a.rest[k] = all[Place(a) + Len(a.chunk) + k]

StreamInv(a) ==
    /\ a \in Streams /\ PassedOn(a)
    /\ a.at = "streaming" => a.captures = 0 /\ \E ended \in BOOLEAN : Whole(a, ended)
    /\ a.at \in {"finished", "broken"} => a.captures = 1
    /\ a.at = "finished" => Len(a.out) = Len(a.lines)

(* A request without an answer, or with one in JSON.                       *)
JsonInv(a) ==
    /\ a.at \in {"rejected", "unreachable", "asked", "failed", "answered"}
    /\ a = [at |-> a.at, calls |-> a.calls, captures |-> IF a.at = "answered" THEN 1 ELSE 0]
    /\ "dsml" \notin Range(a.calls)

AnswerInv ==
    /\ answer.at \in {"streaming", "finished", "broken"} => StreamInv(answer)
    /\ \/ answer = NoAnswer
       \/ answer.at \in {"streaming", "finished", "broken"}
       \/ JsonInv(answer)

\* A stream in order is an answer in order.
LEMMA StreamsAre ==
    ASSUME NEW b, StreamInv(b), answer' = b
    PROVE  AnswerInv'
<1>1. b.at \in {"streaming", "finished", "broken"}
  BY DEF StreamInv, Streams
<1>. QED BY <1>1 DEF AnswerInv

\* The lines of a stream, and what a client gets for one.
LEMMA StreamLines ==
    ASSUME NEW lines \in StreamsOf
    PROVE  /\ lines \in Seq(Lines) /\ lines \in Text /\ Len(lines) \in Nat \ {0}
           /\ \A k \in 1..Len(lines) : lines[k] \in Seq(Happens) /\ lines[k] # NewLine
<1>1. PICK n \in 1..MaxLines : lines \in [1..n -> Lines]
  BY AnswerAssumption DEF StreamsOf
<1>2. n \in Nat \ {0}
  BY AnswerAssumption
<1>3. lines \in Seq(Lines) /\ Len(lines) = n
  BY <1>1, <1>2
<1>4. \A k \in 1..n : lines[k] \in Seq(Happens)
  BY <1>1, AnswerAssumption
<1>5. NewLine \notin Seq(Happens)
  <2>1. NewLine[1] = "newline" /\ Len(NewLine) = 1
    BY DEF NewLine
  <2>2. "newline" \notin Happens
    BY DEF Happens
  <2>3. \A s \in Seq(Happens) : Len(s) = 1 => s[1] \in Happens
    OBVIOUS
  <2>. QED BY <2>1, <2>2, <2>3
<1>6. Seq(Happens) \subseteq Seq(Words)
  <2>1. \A s \in Seq(Happens) : s \in [1..Len(s) -> Happens] /\ Len(s) \in Nat
    OBVIOUS
  <2>2. \A s \in Seq(Happens) : s \in [1..Len(s) -> Words] /\ Len(s) \in Nat
    BY <2>1 DEF Words
  <2>. QED BY <2>2
<1>7. lines \in Text
  BY <1>2, <1>3, <1>4, <1>6 DEF Text
<1>. QED BY <1>2, <1>3, <1>4, <1>5, <1>7

\* How much of a stream is where is a number.
LEMMA Lengths ==
    ASSUME NEW a \in Streams
    PROVE  /\ Len(a.out) \in Nat /\ Len(a.buf) \in Nat /\ Len(a.chunk) \in Nat
           /\ Len(a.rest) \in Nat /\ Len(a.lines) \in Nat
BY StreamLines DEF Streams, Text

\* The pieces of a stream: a line at every odd place, its end at the next.
LEMMA PiecesOf ==
    ASSUME NEW lines \in StreamsOf, NEW ended \in BOOLEAN
    PROVE  LET all == Pieces(lines, ended)
           IN /\ all \in Text
              /\ Len(all) = (IF ended THEN 2 * Len(lines) ELSE 2 * Len(lines) - 1)
              /\ \A n \in Nat : 2 * n + 1 \in 1..Len(all)
                                    => n + 1 \in 1..Len(lines) /\ all[2 * n + 1] = lines[n + 1]
              /\ \A n \in Nat : 2 * n + 2 \in 1..Len(all)
                                    => n + 1 \in 1..Len(lines) /\ all[2 * n + 2] = NewLine
<1>. DEFINE top == IF ended THEN 2 * Len(lines) ELSE 2 * Len(lines) - 1
            all == Pieces(lines, ended)
<1>1. Len(lines) \in Nat \ {0} /\ \A k \in 1..Len(lines) : lines[k] \in Seq(Words)
  <2>1. lines \in Seq(Seq(Words)) /\ Len(lines) \in Nat \ {0}
    BY StreamLines DEF Text
  <2>. QED BY <2>1
<1>2. top \in Nat
  BY <1>1
<1>3. all = [k \in 1..top |-> IF k % 2 = 1 THEN lines[(k + 1) \div 2] ELSE NewLine]
  BY DEF Pieces
<1>4. NewLine \in Seq(Words)
  BY DEF NewLine, Words
<1>5. ASSUME NEW k \in 1..top PROVE k % 2 = 1 => (k + 1) \div 2 \in 1..Len(lines)
  <2>. DEFINE N == Len(lines)
              h == (k + 1) \div 2
  <2>1. N \in Nat /\ k \in Nat /\ 1 <= k /\ k <= 2 * N
    BY <1>1
  <2>2. h \in Nat /\ 2 * h <= k + 1 /\ k + 1 <= 2 * h + 1
    BY <2>1
  <2>. HIDE DEF N, h
  <2>3. h \in 1..N
    BY <2>1, <2>2
  <2>. QED BY <2>3 DEF N, h
<1>6. all \in Text /\ Len(all) = top
  <2>1. \A k \in 1..top : all[k] \in Seq(Words)
    BY <1>1, <1>3, <1>4, <1>5
  <2>2. all \in [1..top -> Seq(Words)]
    BY <1>3, <2>1
  <2>. HIDE DEF all, top
  <2>. QED BY <1>2, <2>2 DEF Text
<1>7. ASSUME NEW n \in Nat, 2 * n + 1 \in 1..top
      PROVE  n + 1 \in 1..Len(lines) /\ all[2 * n + 1] = lines[n + 1]
  <2>1. (2 * n + 1) % 2 = 1 /\ ((2 * n + 1) + 1) \div 2 = n + 1
    OBVIOUS
  <2>. QED BY <1>1, <1>3, <1>7, <2>1
<1>8. ASSUME NEW n \in Nat, 2 * n + 2 \in 1..top
      PROVE  n + 1 \in 1..Len(lines) /\ all[2 * n + 2] = NewLine
  <2>1. (2 * n + 2) % 2 = 0
    OBVIOUS
  <2>. QED BY <1>1, <1>3, <1>8, <2>1
<1>. QED BY <1>6, <1>7, <1>8

\* A line passed on is what the client should get next.
LEMMA YieldsRight ==
    ASSUME NEW a \in Streams, PassedOn(a), Len(a.out) < Len(a.lines)
    PROVE  LET b == Yielded(a, a.lines[Len(a.out) + 1])
           IN /\ b \in Streams /\ PassedOn(b) /\ Len(b.out) = Len(a.out) + 1
              /\ b = [a EXCEPT !.saw = b.saw, !.out = b.out, !.truncated = b.truncated,
                               !.captured = b.captured]
<1>. DEFINE n == Len(a.out)
            line == a.lines[n + 1]
            b == Yielded(a, line)
<1>1. /\ n \in Nat /\ n + 1 \in 1..Len(a.lines) /\ a.lines \in StreamsOf
      /\ Len(a.lines) \in Nat /\ line \in Seq(Happens)
  BY StreamLines DEF Streams, Text
<1>2. DOMAIN line \subseteq Nat
  BY <1>1
<1>3. Seen(a.saw, line) = Callers(a.lines, n + 1)
  <2>1. \A i \in Nat : i \in Callers(a.lines, n + 1)
            <=> i \in Callers(a.lines, n) \/ (i \in DOMAIN line /\ line[i] \in Calls)
    BY <1>1 DEF Callers
  <2>2. \A i : i \in Seen(a.saw, line)
            <=> i \in Callers(a.lines, n) \/ (i \in DOMAIN line /\ line[i] \in Calls)
    BY DEF Seen, PassedOn, Calls
  <2>3. Callers(a.lines, n + 1) \subseteq Nat /\ Callers(a.lines, n) \subseteq Nat
    BY DEF Callers
  <2>. QED BY <1>2, <2>1, <2>2, <2>3
<1>4. b = [a EXCEPT !.saw = Seen(a.saw, line),
                    !.out = Append(a.out, Fixed(line, Seen(a.saw, line))),
                    !.truncated = a.truncated \/ Cut(a.captured),
                    !.captured = IF Cut(a.captured) THEN CaptureLimit
                                 ELSE a.captured + LineBytes]
  BY DEF Yielded
<1>5. /\ b.saw = Callers(a.lines, n + 1)
      /\ b.out = Append(a.out, Fixed(line, Callers(a.lines, n + 1)))
      /\ b.truncated = (a.truncated \/ Cut(a.captured))
      /\ b.captured = IF Cut(a.captured) THEN CaptureLimit ELSE a.captured + LineBytes
      /\ b.lines = a.lines /\ b.at = a.at /\ b.rest = a.rest /\ b.chunk = a.chunk
      /\ b.buf = a.buf /\ b.captures = a.captures
  BY <1>3, <1>4 DEF Streams
<1>6. Fixed(line, Callers(a.lines, n + 1)) = Corrected(a.lines, n + 1)[n + 1]
  BY <1>1 DEF Fixed, Corrected
<1>7. Fixed(line, Callers(a.lines, n + 1)) \in Seq(Words)
  <2>1. line \in [1..Len(line) -> Happens] /\ Len(line) \in Nat
    BY <1>1
  <2>2. ASSUME NEW saw PROVE Fixed(line, saw) \in [1..Len(line) -> Words]
    BY <2>1 DEF Fixed, Words
  <2>. QED BY <2>1, <2>2
<1>8. a.out \in Text /\ a.out = Corrected(a.lines, n)
  BY DEF Streams, Text, PassedOn
<1>9. b.out \in Text /\ Len(b.out) = n + 1
  BY <1>5, <1>7, <1>8 DEF Text
<1>10. b.out = Corrected(a.lines, n + 1)
  <2>1. b.out[n + 1] = Corrected(a.lines, n + 1)[n + 1]
    BY <1>5, <1>6, <1>8 DEF Text
  <2>2. ASSUME NEW k \in 1..n PROVE b.out[k] = Corrected(a.lines, n + 1)[k]
    <3>1. b.out[k] = Corrected(a.lines, n)[k]
      BY <1>5, <1>8 DEF Text
    <3>. QED BY <3>1, <1>1 DEF Corrected
  <2>3. \A k \in 1..(n + 1) : b.out[k] = Corrected(a.lines, n + 1)[k]
    BY <1>1, <2>1, <2>2
  <2>4. DOMAIN b.out = 1..(n + 1)
    BY <1>9 DEF Text
  <2>5. Corrected(a.lines, n + 1) = [k \in 1..(n + 1) |-> Corrected(a.lines, n + 1)[k]]
    BY DEF Corrected
  <2>6. b.out = [k \in 1..(n + 1) |-> b.out[k]]
    BY <1>9, <2>4 DEF Text
  <2>. HIDE DEF b
  <2>. QED BY <2>3, <2>5, <2>6
<1>11. /\ b.captured = Kept(LineBytes * (n + 1)) /\ b.captured \in Nat
       /\ b.truncated <=> LineBytes * (n + 1) > CaptureLimit
       /\ b.truncated \in BOOLEAN
  <2>. DEFINE m == LineBytes * n
  <2>1. m \in Nat /\ LineBytes * (n + 1) = m + LineBytes
    BY <1>1, AnswerAssumption
  <2>2. a.captured = Kept(m) /\ (a.truncated <=> m > CaptureLimit) /\ a.truncated \in BOOLEAN
    BY DEF PassedOn, Streams
  <2>. HIDE DEF m
  <2>3. Cut(a.captured) <=> m + LineBytes > CaptureLimit
    BY <2>1, <2>2, AnswerAssumption DEF Cut, Kept
  <2>4. b.captured = Kept(m + LineBytes) /\ b.captured \in Nat
    <3>1. CASE Cut(a.captured)
      BY <1>5, <2>1, <2>3, <3>1, AnswerAssumption DEF Kept
    <3>2. CASE ~Cut(a.captured)
      <4>1. m + LineBytes <= CaptureLimit /\ m < CaptureLimit
        BY <2>1, <2>3, <3>2, AnswerAssumption
      <4>2. a.captured = m /\ Kept(m + LineBytes) = m + LineBytes
        BY <2>1, <2>2, <4>1, AnswerAssumption DEF Kept
      <4>. QED BY <1>5, <2>1, <3>2, <4>2, AnswerAssumption
    <3>. QED BY <3>1, <3>2
  <2>5. b.truncated <=> (a.truncated \/ Cut(a.captured))
    BY <1>5
  <2>6. a.truncated => m + LineBytes > CaptureLimit
    BY <2>1, <2>2, AnswerAssumption
  <2>7. b.truncated \in BOOLEAN
    BY <1>5, <2>2 DEF Cut
  <2>. QED BY <2>1, <2>3, <2>4, <2>5, <2>6, <2>7
<1>12. Callers(a.lines, n + 1) \subseteq Nat
  BY DEF Callers
<1>13. b \in Streams
  BY <1>4, <1>5, <1>9, <1>11, <1>12 DEF Streams
<1>14. PassedOn(b)
  BY <1>1, <1>5, <1>9, <1>10, <1>11 DEF PassedOn
<1>15. b = [a EXCEPT !.saw = b.saw, !.out = b.out, !.truncated = b.truncated,
                    !.captured = b.captured]
  BY <1>4, <1>5
<1>. QED BY <1>9, <1>13, <1>14, <1>15

\* A stream starts with all of it to come.
LEMMA StartsRight ==
    ASSUME NEW lines \in StreamsOf, NEW ended \in BOOLEAN, AnswerStream(lines, ended)
    PROVE  AnswerInv'
<1>. DEFINE a == [at |-> "streaming", lines |-> lines, rest |-> Pieces(lines, ended),
                  chunk |-> <<>>, buf |-> <<>>, saw |-> {}, out |-> <<>>,
                  captured |-> 0, truncated |-> FALSE, captures |-> 0]
<1>1. answer' = a
  BY DEF AnswerStream
<1>2. a \in Streams
  BY PiecesOf DEF Streams, Text
<1>3. Callers(lines, 0) = {} /\ Corrected(lines, 0) = <<>>
  BY DEF Callers, Corrected
<1>4. PassedOn(a)
  <2>1. Len(lines) \in Nat /\ LineBytes * 0 = 0 /\ Kept(0) = 0 /\ ~(0 > CaptureLimit)
    BY StreamLines, AnswerAssumption DEF Kept
  <2>. QED BY <1>3, <2>1 DEF PassedOn
<1>5. Whole(a, ended)
  <2>1. Pieces(lines, ended) \in Text
    BY PiecesOf
  <2>. QED BY <2>1 DEF Whole, Place, Buffered, Text
<1>6. StreamInv(a)
  BY <1>2, <1>4, <1>5 DEF StreamInv
<1>. HIDE DEF a
<1>. QED BY <1>1, <1>6, StreamsAre

\* A chunk is the beginning of the rest.
LEMMA ReceivesRight ==
    ASSUME AnswerInv, NEW n \in 1..MaxChunk, Receive(n)
    PROVE  AnswerInv'
<1>. DEFINE a == answer
            b == [a EXCEPT !.chunk = SubSeq(a.rest, 1, n),
                           !.rest = SubSeq(a.rest, n + 1, Len(a.rest))]
<1>1. StreamInv(a) /\ a.at = "streaming" /\ a.chunk = <<>> /\ answer' = b
  BY DEF Receive, AnswerInv
<1>2. a.rest \in Text /\ n \in Nat /\ n \in 1..Len(a.rest)
  BY AnswerAssumption DEF Receive, AnswerInv, StreamInv, Streams, Text
<1>3. /\ b.chunk = SubSeq(a.rest, 1, n) /\ b.rest = SubSeq(a.rest, n + 1, Len(a.rest))
      /\ b.at = a.at /\ b.lines = a.lines /\ b.buf = a.buf /\ b.saw = a.saw /\ b.out = a.out
      /\ b.captured = a.captured /\ b.truncated = a.truncated /\ b.captures = a.captures
  BY <1>1 DEF StreamInv, Streams
<1>. HIDE DEF b
<1>4. /\ b.chunk \in Text /\ Len(b.chunk) = n
      /\ \A k \in 1..n : b.chunk[k] = a.rest[k]
      /\ b.rest \in Text /\ Len(b.rest) = Len(a.rest) - n
      /\ \A k \in 1..(Len(a.rest) - n) : b.rest[k] = a.rest[n + k]
  <2>. DEFINE S == Seq(Words)
              r == a.rest
              m == Len(r)
  <2>1. r \in Seq(S) /\ m \in Nat /\ n \in 1..m /\ n \in Nat
    BY <1>2 DEF Text
  <2>. HIDE DEF S
  <2>2. /\ SubSeq(r, 1, n) \in Seq(S) /\ Len(SubSeq(r, 1, n)) = n
        /\ \A k \in 1..n : SubSeq(r, 1, n)[k] = r[k]
    BY <2>1
  <2>3. /\ SubSeq(r, n + 1, m) \in Seq(S) /\ Len(SubSeq(r, n + 1, m)) = m - n
    BY <2>1
  <2>4. \A k \in 1..(m - n) : SubSeq(r, n + 1, m)[k] = r[n + k]
    BY <2>1
  <2>. QED BY <1>3, <2>2, <2>3, <2>4 DEF S, Text
<1>5. b \in Streams
  BY <1>1, <1>4 DEF StreamInv, Streams, b
<1>6. PassedOn(b)
  BY <1>1, <1>3 DEF StreamInv, PassedOn
<1>7. PICK ended \in BOOLEAN : Whole(a, ended)
  BY <1>1 DEF StreamInv
<1>8. Whole(b, ended)
  <2>1. Len(a.out) \in Nat /\ Len(a.buf) \in Nat /\ Len(a.chunk) = 0
    BY <1>1 DEF StreamInv, Streams, Text
  <2>2. 2 * Len(b.out) + Len(b.buf) = 2 * Len(a.out) + Len(a.buf)
    BY <1>3
  <2>3. \A i, j \in Nat : 2 * i + j \in Nat
    OBVIOUS
  <2>. DEFINE p == 2 * Len(a.out) + Len(a.buf)
              all == Pieces(a.lines, ended)
              c == Len(a.chunk)
              m == Len(a.rest)
  <2>4. p \in Nat /\ c = 0 /\ m \in Nat
    <3>1. p \in Nat /\ c = 0
      BY <2>1, <2>3
    <3>2. m \in Nat
      BY <1>2 DEF Text
    <3>. QED BY <3>1, <3>2
  <2>5. /\ Len(all) = p + c + m
        /\ \A k \in 1..m : a.rest[k] = all[p + c + k]
    BY <1>7 DEF Whole, Place, Buffered
  <2>6. Len(b.chunk) = n /\ Len(b.rest) = m - n /\ n \in 1..m
    BY <1>2, <1>4
  <2>7. /\ \A k \in 1..n : b.chunk[k] = a.rest[k]
        /\ \A k \in 1..(m - n) : b.rest[k] = a.rest[n + k]
    BY <1>4
  <2>. HIDE DEF p, all, c, m
  <2>8. Len(all) = p + Len(b.chunk) + Len(b.rest)
    BY <2>4, <2>5, <2>6
  <2>9. \A k \in 1..Len(b.chunk) : b.chunk[k] = all[p + k]
    BY <2>4, <2>5, <2>6, <2>7
  <2>10. ASSUME NEW k \in 1..Len(b.rest) PROVE b.rest[k] = all[p + Len(b.chunk) + k]
    <3>1. n + k \in 1..m /\ k \in 1..(m - n) /\ p + n + k = p + c + (n + k)
      BY <2>4, <2>6
    <3>. QED BY <2>5, <2>6, <2>7, <3>1
  <2>11. \/ b.buf = <<>>
         \/ Len(b.out) < Len(b.lines) /\ b.buf = <<b.lines[Len(b.out) + 1]>>
    BY <1>3, <1>7 DEF Whole, Place, Buffered
  <2>. QED BY <1>3, <2>2, <2>8, <2>9, <2>10, <2>11 DEF Whole, Place, Buffered, p, all
<1>9. StreamInv(b)
  BY <1>1, <1>3, <1>5, <1>6, <1>8 DEF StreamInv
<1>. QED BY <1>1, <1>9, StreamsAre

\* The place of the next piece tells what it is: after a line its end, and
\* after an end the next line.
LEMMA NextPiece ==
    ASSUME NEW a \in Streams, NEW ended \in BOOLEAN, Whole(a, ended), a.chunk # <<>>
    PROVE  /\ a.buf = <<>> => /\ Len(a.out) < Len(a.lines)
                              /\ Head(a.chunk) = a.lines[Len(a.out) + 1]
                              /\ Head(a.chunk) # NewLine
           /\ a.buf # <<>> => Head(a.chunk) = NewLine
<1>. DEFINE o == Len(a.out)
            u == Len(a.buf)
            c == Len(a.chunk)
            m == Len(a.rest)
            all == Pieces(a.lines, ended)
            L == Len(a.lines)
<1>1. /\ a.lines \in StreamsOf /\ o \in Nat /\ u \in Nat /\ c \in Nat \ {0} /\ m \in Nat
      /\ Head(a.chunk) = a.chunk[1] /\ L \in Nat
  BY StreamLines DEF Streams, Text
<1>2. /\ Len(all) = (2 * o + u) + c + m
      /\ \A k \in 1..c : a.chunk[k] = all[(2 * o + u) + k]
  BY DEF Whole, Place, Buffered
<1>3. /\ 2 * o + 1 \in 1..Len(all) => o + 1 \in 1..L /\ all[2 * o + 1] = a.lines[o + 1]
      /\ 2 * o + 2 \in 1..Len(all) => all[2 * o + 2] = NewLine
  BY <1>1, PiecesOf
<1>4. /\ a.buf = <<>> => u = 0
      /\ a.buf # <<>> => u = 1
  <2>1. a.buf = <<>> \/ a.buf = <<a.lines[Len(a.out) + 1]>>
    BY DEF Whole, Place, Buffered
  <2>2. Len(<<>>) = 0 /\ \A x : Len(<<x>>) = 1 /\ <<x>> # <<>>
    OBVIOUS
  <2>. QED BY <2>1, <2>2
<1>5. \A k \in 1..L : a.lines[k] # NewLine
  BY <1>1, StreamLines
<1>. HIDE DEF o, u, c, m, all, L
<1>6. CASE a.buf = <<>>
  <2>1. 2 * o + 1 \in 1..Len(all) /\ (2 * o + u) + 1 = 2 * o + 1 /\ 1 \in 1..c
    BY <1>1, <1>2, <1>4, <1>6
  <2>2. a.chunk[1] = a.lines[o + 1] /\ o + 1 \in 1..L
    BY <1>2, <1>3, <2>1
  <2>3. o < L
    BY <1>1, <2>2
  <2>. QED BY <1>1, <1>5, <1>6, <2>2, <2>3 DEF o, L
<1>7. CASE a.buf # <<>>
  <2>1. 2 * o + 2 \in 1..Len(all) /\ (2 * o + u) + 1 = 2 * o + 2 /\ 1 \in 1..c
    BY <1>1, <1>2, <1>4, <1>7
  <2>. QED BY <1>1, <1>2, <1>3, <1>7, <2>1
<1>. QED BY <1>6, <1>7

\* The pieces are where they were when the first of the chunk is taken.
LEMMA Advances ==
    ASSUME NEW a \in Streams, NEW b \in Streams, NEW ended \in BOOLEAN, Whole(a, ended),
           a.chunk # <<>>, b.chunk = Tail(a.chunk), b.rest = a.rest, b.lines = a.lines,
           Place(b) = Place(a) + 1, Buffered(b)
    PROVE  Whole(b, ended)
<1>1. \A i, j \in Nat : 2 * i + j \in Nat
  OBVIOUS
<1>. DEFINE p == Place(a)
            c == Len(a.chunk)
            m == Len(a.rest)
            all == Pieces(a.lines, ended)
<1>2. p \in Nat /\ m \in Nat /\ c \in Nat \ {0}
  <2>1. Len(a.out) \in Nat /\ Len(a.buf) \in Nat /\ m \in Nat
    BY Lengths
  <2>3. c \in Nat \ {0}
    BY DEF Streams, Text
  <2>2. p \in Nat
    BY <1>1, <2>1 DEF Place
  <2>. QED BY <2>1, <2>2, <2>3
<1>3. Len(b.chunk) = c - 1 /\ \A k \in 1..(c - 1) : b.chunk[k] = a.chunk[k + 1]
  BY DEF Streams, Text
<1>4. /\ Len(all) = p + c + m
      /\ \A k \in 1..c : a.chunk[k] = all[p + k]
      /\ \A k \in 1..m : a.rest[k] = all[p + c + k]
  BY DEF Whole
<1>5. Place(b) = p + 1
  OBVIOUS
<1>6. Len(b.rest) = m /\ Pieces(b.lines, ended) = all
  OBVIOUS
<1>. HIDE DEF p, c, m, all
<1>7. Len(all) = (p + 1) + Len(b.chunk) + Len(b.rest)
  BY <1>2, <1>3, <1>4, <1>6
<1>8. ASSUME NEW k \in 1..Len(b.chunk) PROVE b.chunk[k] = all[(p + 1) + k]
  <2>1. k + 1 \in 1..c /\ k \in 1..(c - 1) /\ (p + 1) + k = p + (k + 1)
    BY <1>2, <1>3
  <2>. QED BY <1>3, <1>4, <2>1
<1>9. ASSUME NEW k \in 1..Len(b.rest) PROVE b.rest[k] = all[(p + 1) + Len(b.chunk) + k]
  <2>1. k \in 1..m
    BY <1>6
  <2>2. (p + 1) + (c - 1) + k = p + c + k
    BY <1>2, <2>1
  <2>3. (p + 1) + Len(b.chunk) + k = p + c + k
    BY <1>3, <2>2
  <2>. QED BY <1>4, <1>6, <2>1, <2>3
<1>. QED BY <1>5, <1>6, <1>7, <1>8, <1>9 DEF Whole

\* A line is buffered when nothing is.
LEMMA BuffersRight ==
    ASSUME AnswerInv, Buffer
    PROVE  AnswerInv'
<1>. DEFINE a == answer
            b == [a EXCEPT !.buf = <<Head(a.chunk)>>, !.chunk = Tail(a.chunk)]
<1>1. /\ StreamInv(a) /\ a.at = "streaming" /\ a.chunk # <<>> /\ Head(a.chunk) # NewLine
      /\ answer' = b /\ a \in Streams
  BY DEF Buffer, AnswerInv, StreamInv
<1>2. PICK ended \in BOOLEAN : Whole(a, ended)
  BY <1>1 DEF StreamInv
<1>3. a.buf = <<>> /\ Len(a.out) < Len(a.lines) /\ Head(a.chunk) = a.lines[Len(a.out) + 1]
  BY <1>1, <1>2, NextPiece
<1>4. /\ b.chunk = Tail(a.chunk) /\ b.buf = <<Head(a.chunk)>> /\ b.rest = a.rest
      /\ b.at = a.at /\ b.lines = a.lines /\ b.saw = a.saw /\ b.out = a.out
      /\ b.captured = a.captured /\ b.truncated = a.truncated /\ b.captures = a.captures
  BY <1>1 DEF Streams
<1>5. <<Head(a.chunk)>> \in Text /\ Tail(a.chunk) \in Text
  BY <1>1 DEF Streams, Text
<1>6. b \in Streams
  BY <1>1, <1>5 DEF Streams
<1>. HIDE DEF b
<1>7. PassedOn(b)
  BY <1>1, <1>4 DEF StreamInv, PassedOn
<1>8. Whole(b, ended)
  <2>1. Len(b.buf) = 1 /\ Len(a.buf) = 0 /\ Len(a.out) \in Nat /\ Len(b.out) = Len(a.out)
    BY <1>1, <1>3, <1>4 DEF Streams, Text
  <2>2. Place(b) = Place(a) + 1
    BY <2>1 DEF Place
  <2>3. Buffered(b)
    BY <1>3, <1>4 DEF Buffered
  <2>4. a.chunk # <<>> /\ b.chunk = Tail(a.chunk) /\ b.rest = a.rest /\ b.lines = a.lines
    BY <1>1, <1>4
  <2>. QED BY <1>1, <1>2, <1>6, <2>2, <2>3, <2>4, Advances
<1>9. StreamInv(b)
  BY <1>1, <1>4, <1>6, <1>7, <1>8 DEF StreamInv
<1>. QED BY <1>1, <1>9, StreamsAre

\* The buffered line is the next one, and its end has come.
LEMMA YieldRight ==
    ASSUME AnswerInv, Yield
    PROVE  AnswerInv'
<1>. DEFINE a == answer
            y == Yielded(a, a.buf[1])
            b == [y EXCEPT !.buf = <<>>, !.chunk = Tail(a.chunk)]
<1>1. /\ StreamInv(a) /\ a.at = "streaming" /\ a.chunk # <<>> /\ Head(a.chunk) = NewLine
      /\ answer' = b /\ a \in Streams /\ PassedOn(a)
  BY DEF Yield, AnswerInv, StreamInv
<1>2. PICK ended \in BOOLEAN : Whole(a, ended)
  BY <1>1 DEF StreamInv
<1>3. a.buf # <<>>
  BY <1>1, <1>2, NextPiece
<1>4. Len(a.out) < Len(a.lines) /\ a.buf = <<a.lines[Len(a.out) + 1]>>
  BY <1>2, <1>3 DEF Whole, Place, Buffered
<1>5. y = Yielded(a, a.lines[Len(a.out) + 1])
  BY <1>4
<1>6. /\ y \in Streams /\ PassedOn(y) /\ Len(y.out) = Len(a.out) + 1
      /\ y = [a EXCEPT !.saw = y.saw, !.out = y.out, !.truncated = y.truncated,
                       !.captured = y.captured]
  BY <1>1, <1>4, <1>5, YieldsRight
<1>. HIDE DEF y
<1>7. /\ y.at = a.at /\ y.rest = a.rest /\ y.lines = a.lines /\ y.captures = a.captures
  BY <1>1, <1>6 DEF Streams
<1>8. /\ b.chunk = Tail(a.chunk) /\ b.buf = <<>> /\ b.rest = y.rest
      /\ b.at = y.at /\ b.lines = y.lines /\ b.saw = y.saw /\ b.out = y.out
      /\ b.captured = y.captured /\ b.truncated = y.truncated /\ b.captures = y.captures
  BY <1>6 DEF Streams
<1>9. <<>> \in Text /\ Tail(a.chunk) \in Text
  BY <1>1 DEF Streams, Text
<1>10. b \in Streams
  BY <1>6, <1>9 DEF Streams
<1>. HIDE DEF b
<1>11. PassedOn(b)
  BY <1>6, <1>8 DEF PassedOn
<1>12. Whole(b, ended)
  <2>1. /\ Len(b.buf) = 0 /\ Len(a.buf) = 1 /\ Len(a.out) \in Nat
        /\ Len(b.out) = Len(a.out) + 1
    BY <1>1, <1>4, <1>6, <1>8 DEF Streams, Text
  <2>2. Place(b) = Place(a) + 1
    BY <2>1 DEF Place
  <2>3. a.chunk # <<>> /\ b.chunk = Tail(a.chunk) /\ b.rest = a.rest /\ b.lines = a.lines
    BY <1>1, <1>7, <1>8
  <2>4. Buffered(b)
    BY <1>8 DEF Buffered
  <2>. QED BY <1>1, <1>2, <1>10, <2>2, <2>3, <2>4, Advances
<1>13. StreamInv(b)
  BY <1>1, <1>7, <1>8, <1>10, <1>11, <1>12 DEF StreamInv
<1>. QED BY <1>1, <1>13, StreamsAre

\* When nothing is to come, all lines have gone out but the one that is buffered.
LEMMA FinishesRight ==
    ASSUME AnswerInv, Finish
    PROVE  AnswerInv'
<1>. DEFINE a == answer
            f == Flushed(a)
            b == [f EXCEPT !.at = "finished", !.captures = a.captures + 1]
<1>1. /\ StreamInv(a) /\ a.at = "streaming" /\ a.chunk = <<>> /\ a.rest = <<>>
      /\ answer' = b /\ a \in Streams /\ PassedOn(a) /\ a.captures = 0
  BY DEF Finish, AnswerInv, StreamInv
<1>2. PICK ended \in BOOLEAN : Whole(a, ended)
  BY <1>1 DEF StreamInv
<1>3. /\ Len(a.out) \in Nat /\ Len(a.lines) \in Nat \ {0} /\ a.lines \in StreamsOf
      /\ Len(a.out) <= Len(a.lines)
  BY <1>1, StreamLines DEF Streams, Text, PassedOn
<1>4. 2 * Len(a.out) + Len(a.buf) = (IF ended THEN 2 * Len(a.lines) ELSE 2 * Len(a.lines) - 1)
  <2>. DEFINE o == Len(a.out)
              u == Len(a.buf)
              all == Pieces(a.lines, ended)
  <2>1. Len(all) = (IF ended THEN 2 * Len(a.lines) ELSE 2 * Len(a.lines) - 1)
    BY <1>3, PiecesOf
  <2>2. Len(all) = 2 * o + u + Len(a.chunk) + Len(a.rest)
    BY <1>2 DEF Whole, Place, Buffered
  <2>3. Len(a.chunk) = 0 /\ Len(a.rest) = 0 /\ o \in Nat /\ u \in Nat
    BY <1>1 DEF Streams, Text
  <2>. HIDE DEF o, u, all
  <2>4. Len(all) = 2 * o + u
    BY <2>2, <2>3
  <2>. QED BY <2>1, <2>4 DEF o, u
<1>5. /\ f \in Streams /\ PassedOn(f) /\ Len(f.out) = Len(f.lines)
  <2>1. CASE a.buf = <<>>
    <3>1. Len(a.buf) = 0 /\ f = a
      BY <2>1 DEF Flushed
    <3>2. Len(a.out) = Len(a.lines)
      BY <1>3, <1>4, <3>1
    <3>. QED BY <1>1, <3>1, <3>2
  <2>2. CASE a.buf # <<>>
    <3>. DEFINE y == Yielded(a, a.buf[1])
    <3>1. Len(a.out) < Len(a.lines) /\ a.buf = <<a.lines[Len(a.out) + 1]>>
      BY <1>2, <2>2 DEF Whole, Place, Buffered
    <3>2. Len(a.buf) = 1 /\ a.buf[1] = a.lines[Len(a.out) + 1]
      BY <3>1
    <3>3. Len(a.out) + 1 = Len(a.lines)
      BY <1>3, <1>4, <3>2
    <3>4. f = [y EXCEPT !.buf = <<>>]
      BY <2>2 DEF Flushed
    <3>5. y = Yielded(a, a.lines[Len(a.out) + 1])
      BY <3>2
    <3>6. /\ y \in Streams /\ PassedOn(y) /\ Len(y.out) = Len(a.out) + 1
          /\ y = [a EXCEPT !.saw = y.saw, !.out = y.out, !.truncated = y.truncated,
                           !.captured = y.captured]
      BY <1>1, <3>1, <3>5, YieldsRight
    <3>. HIDE DEF y
    <3>7. y.lines = a.lines /\ <<>> \in Text
      <4>1. y.lines = a.lines
        BY <1>1, <3>6 DEF Streams
      <4>2. <<>> \in Text
        BY DEF Text
      <4>. QED BY <4>1, <4>2
    <3>. HIDE DEF f
    <3>8. /\ f \in Streams /\ f.out = y.out /\ f.lines = y.lines /\ f.saw = y.saw
          /\ f.captured = y.captured /\ f.truncated = y.truncated
      BY <3>4, <3>6, <3>7 DEF Streams
    <3>9. PassedOn(f)
      BY <3>6, <3>8 DEF PassedOn
    <3>. QED BY <3>3, <3>6, <3>7, <3>8, <3>9
  <2>. QED BY <2>1, <2>2
<1>. HIDE DEF f
<1>6. /\ b.at = "finished" /\ b.captures = 1 /\ b.out = f.out /\ b.lines = f.lines
      /\ b.saw = f.saw /\ b.captured = f.captured /\ b.truncated = f.truncated
      /\ b \in Streams
  <2>1. a.captures + 1 = 1
    BY <1>1
  <2>2. b = [f EXCEPT !.at = "finished", !.captures = 1]
    BY <2>1
  <2>. HIDE DEF b
  <2>. QED BY <1>5, <2>2 DEF Streams
<1>. HIDE DEF b
<1>7. PassedOn(b)
  BY <1>5, <1>6 DEF PassedOn
<1>8. StreamInv(b)
  BY <1>5, <1>6, <1>7 DEF StreamInv
<1>. QED BY <1>1, <1>8, StreamsAre

\* What went out before a stream is broken off is right.
LEMMA BreaksRight ==
    ASSUME AnswerInv, BreakOff
    PROVE  AnswerInv'
<1>. DEFINE a == answer
            b == [a EXCEPT !.at = "broken", !.captures = a.captures + 1]
<1>1. /\ StreamInv(a) /\ a.at = "streaming" /\ a.captures = 0
      /\ answer' = b /\ a \in Streams /\ PassedOn(a)
  BY DEF BreakOff, AnswerInv, StreamInv
<1>2. /\ b.at = "broken" /\ b.captures = 1 /\ b.out = a.out /\ b.lines = a.lines
      /\ b.saw = a.saw /\ b.captured = a.captured /\ b.truncated = a.truncated
      /\ b \in Streams
  <2>1. a.captures + 1 = 1
    BY <1>1
  <2>2. b = [a EXCEPT !.at = "broken", !.captures = 1]
    BY <2>1
  <2>. HIDE DEF b
  <2>. QED BY <1>1, <2>2 DEF Streams
<1>. HIDE DEF b
<1>3. PassedOn(b)
  BY <1>1, <1>2 DEF PassedOn
<1>4. StreamInv(b)
  BY <1>2, <1>3 DEF StreamInv
<1>. QED BY <1>1, <1>4, StreamsAre

\* No arguments in DSML are left in a history.
LEMMA NoMarkup == ASSUME NEW calls PROVE "dsml" \notin Range(NormalHistory(calls))
BY DEF Range, NormalHistory, NormalArguments

\* No other step touches a stream, and one of JSON is captured when it has come.
LEMMA NextRight ==
    ASSUME AnswerInv, [Next]_vars
    PROVE  AnswerInv'
<1>1. CASE UNCHANGED vars
  BY <1>1 DEF vars, proxyVars, AnswerInv
<1>2. CASE PolicyNext /\ UNCHANGED <<traffic, proxyVars>>
  BY <1>2 DEF proxyVars, AnswerInv
<1>3. CASE Send
  BY <1>3 DEF Send, AnswerInv
<1>4. ASSUME NEW m \in Remarks, Say(m) PROVE AnswerInv'
  BY <1>4 DEF Say, AnswerInv
<1>5. ASSUME NEW a \in Asks, Ask(a) PROVE AnswerInv'
  <2>1. PICK at \in {"rejected", "unreachable", "asked"} :
          answer' = [at |-> at, calls |-> NormalHistory(a.calls), captures |-> 0]
    BY <1>5 DEF Ask
  <2>. DEFINE calls == NormalHistory(a.calls)
  <2>2. "dsml" \notin Range(calls)
    BY NoMarkup
  <2>. HIDE DEF calls
  <2>3. JsonInv(answer')
    BY <2>1, <2>2 DEF JsonInv, calls
  <2>. QED BY <2>3 DEF AnswerInv, JsonInv
<1>6. ASSUME NEW a \in Asks, AnswerJson(a.calls) PROVE AnswerInv'
  <2>1. answer.at = "asked" /\ answer.captures = 0
    BY <1>6 DEF AnswerJson, AnswerInv, NoAnswer, JsonInv
  <2>2. answer' = [at |-> "answered", calls |-> NormalHistory(a.calls), captures |-> 1]
    BY <1>6, <2>1 DEF AnswerJson
  <2>3. "dsml" \notin Range(NormalHistory(a.calls))
    BY NoMarkup
  <2>4. JsonInv(answer')
    BY <2>2, <2>3 DEF JsonInv
  <2>. QED BY <2>4 DEF AnswerInv, JsonInv
<1>7. ASSUME BreakJson PROVE AnswerInv'
  <2>1. answer.at = "asked" /\ JsonInv(answer)
    BY <1>7 DEF BreakJson, AnswerInv, NoAnswer
  <2>2. answer' = [answer EXCEPT !.at = "failed"]
    BY <1>7 DEF BreakJson
  <2>. DEFINE calls == answer.calls
  <2>3. answer = [at |-> "asked", calls |-> calls, captures |-> 0] /\ "dsml" \notin Range(calls)
    BY <2>1 DEF JsonInv
  <2>. HIDE DEF calls
  <2>4. answer' = [at |-> "failed", calls |-> calls, captures |-> 0]
    BY <2>2, <2>3
  <2>5. JsonInv(answer')
    BY <2>3, <2>4 DEF JsonInv
  <2>. QED BY <2>5 DEF AnswerInv, JsonInv
<1>. QED BY <1>1, <1>2, <1>3, <1>4, <1>5, <1>6, <1>7, StartsRight, ReceivesRight, BuffersRight,
            YieldRight, FinishesRight, BreaksRight DEF Next

\* A client gets every line of an answer in order, however the chunks cut it,
\* with finish_reason corrected exactly for the choices that have sent fragments
\* of a call, and the monitor gets each answer once, as far as there is room,
\* also when it is broken off, but for one in JSON, which has no arguments in DSML
\* (OpenAIStreamFixer, _LineSplitter, _captured_stream, normalize_dsml_response).
THEOREM AnswersAreRight == Spec => []AnswerRight
<1>1. Init => AnswerInv
  BY DEF Init, NoAnswer, AnswerInv
<1>2. AnswerInv /\ [Next]_vars => AnswerInv'
  BY NextRight
<1>3. ASSUME AnswerInv PROVE AnswerRight
  <2>10. CASE answer = NoAnswer
    BY <2>10 DEF AnswerRight, NoAnswer
  <2>11. CASE JsonInv(answer)
    BY <2>11 DEF AnswerRight, JsonInv
  <2>. SUFFICES ASSUME answer.at \in {"streaming", "finished", "broken"}
                PROVE  AnswerRight
    BY <1>3, <2>10, <2>11 DEF AnswerInv
  <2>. DEFINE a == answer
              n == Len(a.out)
              lines == a.lines
  <2>1. /\ StreamInv(a) /\ PassedOn(a) /\ n \in Nat /\ n <= Len(lines)
        /\ lines \in StreamsOf /\ Len(lines) \in Nat
    BY <1>3, StreamLines DEF AnswerInv, StreamInv, Streams, PassedOn
  <2>2. \A k \in 1..n : lines[k] \in Seq(Happens) /\ DOMAIN lines[k] \subseteq Nat
    BY <2>1, StreamLines
  <2>. DEFINE Calling(k, i) == \E j \in 1..k : i \in DOMAIN lines[j]
                                    /\ lines[j][i] \in {"tool", "toolAndStop"}
              Right(k, i) == IF lines[k][i] \in {"stop", "toolAndStop"} /\ Calling(k, i)
                             THEN "toolCalls" ELSE lines[k][i]
  <2>3. ASSUME NEW k \in 1..n, NEW i \in DOMAIN lines[k]
        PROVE  Calling(k, i) <=> i \in Callers(lines, k)
    BY <2>2 DEF Callers, Calls
  <2>4. Corrected(lines, n) = [k \in 1..n |-> [i \in DOMAIN lines[k] |-> Right(k, i)]]
    <3>1. ASSUME NEW k \in 1..n
          PROVE  Corrected(lines, n)[k] = [i \in DOMAIN lines[k] |-> Right(k, i)]
      BY <2>3 DEF Corrected
    <3>2. Corrected(lines, n) = [k \in 1..n |-> Corrected(lines, n)[k]]
      BY DEF Corrected
    <3>. HIDE DEF Right, n, lines
    <3>. QED BY <3>1, <3>2
  <2>5. a.out = [k \in 1..n |-> [i \in DOMAIN lines[k] |-> Right(k, i)]]
    BY <2>1, <2>4 DEF PassedOn
  <2>6. /\ a.at = "finished" => n = Len(lines)
        /\ a.captured = (IF LineBytes * n < CaptureLimit THEN LineBytes * n ELSE CaptureLimit)
        /\ a.truncated <=> LineBytes * n > CaptureLimit
        /\ a.captures = (IF a.at = "streaming" THEN 0 ELSE 1)
    BY <2>1 DEF StreamInv, PassedOn, Kept
  <2>. QED BY <2>5, <2>6 DEF AnswerRight
<1>4. Spec => []AnswerInv
  BY <1>1, <1>2, PTL DEF Spec
<1>. QED BY <1>3, <1>4, PTL

(* ---- Tool results -------------------------------------------------------- *)

(* Numbers added up one by one.                                            *)
Sums(f, s) == /\ f \in [0..Len(s) -> Nat] /\ f[0] = 0
              /\ \A n \in 1..Len(s) : f[n] = f[n - 1] + s[n]

\* The sum of numbers is the last of their partial sums.
LEMMA TotalSums ==
    ASSUME NEW s \in Seq(Nat)
    PROVE  \E f : Sums(f, s) /\ Total(s) = f[Len(s)]
<1>. DEFINE N == Len(s)
            G == [p \in Nat \X (1..N) |-> p[1] + s[p[2]]]
            Is(f) == f = [n \in 0..N |-> IF n = 0 THEN 0 ELSE f[n - 1] + s[n]]
<1>1. N \in Nat /\ 0 \in Nat /\ \A n \in 1..N : s[n] \in Nat
  OBVIOUS
<1>2. \A p \in Nat \X (1..N) : p[1] + s[p[2]] \in Nat
  BY <1>1
<1>. HIDE DEF N
<1>3. G \in [Nat \X (1..N) -> Nat]
  BY <1>2
<1>4. \A x \in Nat, n \in 1..N : G[<<x, n>>] = x + s[n]
  OBVIOUS
<1>. HIDE DEF G
<1>5. PICK f \in [0..N -> Nat] : Recurses(f, N, 0, G)
  BY <1>1, <1>3, Recursion
<1>6. ASSUME NEW n \in 0..N PROVE f[n] = IF n = 0 THEN 0 ELSE f[n - 1] + s[n]
  <2>1. n # 0 => n \in 1..N /\ n - 1 \in 0..N
    BY <1>1
  <2>. QED BY <1>4, <1>5, <2>1 DEF Recurses
<1>7. Is(f)
  BY <1>5, <1>6
<1>. DEFINE up == CHOOSE g : Is(g)
<1>8. Is(up)
  <2>. HIDE DEF Is
  <2>. QED BY <1>7
<1>9. Total(s) = up[N]
  BY DEF Total, N
<1>. HIDE DEF up
<1>10. \A n \in 0..N : up[n] = IF n = 0 THEN 0 ELSE up[n - 1] + s[n]
  BY <1>8
<1>11. up[0] = 0 /\ \A n \in 1..N : up[n] = up[n - 1] + s[n]
  <2>1. 0 \in 0..N /\ \A n \in 1..N : n \in 0..N /\ n # 0
    BY <1>1
  <2>. QED BY <1>10, <2>1
<1>12. \A n \in 0..N : up[n] \in Nat
  <2>. DEFINE T == {n \in 0..N : up[n] \in Nat}
  <2>1. 0 \in T
    BY <1>1, <1>11
  <2>2. ASSUME NEW n \in 0..N, n > 0, n - 1 \in T PROVE n \in T
    <3>1. n \in 1..N
      BY <1>1, <2>2
    <3>. QED BY <1>1, <1>11, <2>2, <3>1 DEF N
  <2>. HIDE DEF T
  <2>3. 0..N \subseteq T
    BY <1>1, <2>1, <2>2, Upward
  <2>. QED BY <2>3 DEF T
<1>13. up \in [0..N -> Nat]
  BY <1>8, <1>12
<1>. QED BY <1>9, <1>11, <1>13 DEF Sums, N

\* Partial sums are determined.
LEMMA SumsAgree ==
    ASSUME NEW s \in Seq(Nat), NEW r \in Seq(Nat), Len(s) <= Len(r),
           \A n \in 1..Len(s) : r[n] = s[n], NEW f, Sums(f, s), NEW g, Sums(g, r)
    PROVE  \A n \in 0..Len(s) : g[n] = f[n]
<1>. DEFINE N == Len(s)
            T == {n \in 0..N : g[n] = f[n]}
<1>1. N \in Nat /\ \A n \in 1..N : n \in 1..Len(r)
  OBVIOUS
<1>2. 0 \in T
  BY <1>1 DEF Sums
<1>3. ASSUME NEW n \in 0..N, n > 0, n - 1 \in T PROVE n \in T
  <2>1. n \in 1..N /\ n \in 1..Len(r) /\ r[n] = s[n]
    BY <1>1, <1>3
  <2>. QED BY <1>3, <2>1 DEF Sums
<1>. HIDE DEF T
<1>4. 0..N \subseteq T
  BY <1>1, <1>2, <1>3, Upward
<1>. QED BY <1>4 DEF T

\* One number more.
LEMMA TotalAppend ==
    ASSUME NEW s \in Seq(Nat), NEW x \in Nat
    PROVE  Total(Append(s, x)) = Total(s) + x /\ Total(s) \in Nat
<1>. DEFINE r == Append(s, x)
            N == Len(s)
<1>1. /\ r \in Seq(Nat) /\ Len(r) = N + 1 /\ r[N + 1] = x /\ N \in Nat
      /\ \A n \in 1..N : r[n] = s[n]
  OBVIOUS
<1>. HIDE DEF r, N
<1>2. PICK f : Sums(f, s) /\ Total(s) = f[N]
  BY TotalSums DEF N
<1>3. PICK g : Sums(g, r) /\ Total(r) = g[N + 1]
  BY <1>1, TotalSums
<1>4. N \in 0..N /\ N + 1 \in 1..N + 1 /\ (N + 1) - 1 = N /\ N <= N + 1
  BY <1>1
<1>5. g[N] = f[N]
  BY <1>1, <1>2, <1>3, <1>4, SumsAgree DEF N
<1>6. g[N + 1] = g[N] + x
  BY <1>1, <1>3, <1>4 DEF Sums
<1>7. f[N] \in Nat
  BY <1>2, <1>4 DEF Sums, N
<1>. QED BY <1>2, <1>3, <1>5, <1>6, <1>7 DEF r

\* Nothing adds up to nothing.
LEMMA TotalEmpty == Total(<<>>) = 0
<1>1. <<>> \in Seq(Nat) /\ Len(<<>>) = 0
  OBVIOUS
<1>. QED BY <1>1, TotalSums DEF Sums

(* Lines, and pairs of a line and its count, written out one by one.       *)
Texts == Seq(Nat)
Pairs == Seq(Nat \X Nat)
Times(p) == [k \in 1..p[2] |-> p[1]]
Written(f, s) == /\ f \in [0..Len(s) -> Texts] /\ f[0] = <<>>
                 /\ \A n \in 1..Len(s) : f[n] = f[n - 1] \o Times(s[n])

\* What a pair stands for is lines.
LEMMA TimesTyped ==
    ASSUME NEW p \in Nat \X Nat, NEW text \in Texts
    PROVE  Times(p) \in Texts /\ text \o Times(p) \in Texts
<1>1. p[1] \in Nat /\ p[2] \in Nat
  OBVIOUS
<1>2. Times(p) \in Seq(Nat)
  <2>. DEFINE n == p[2]
              x == p[1]
              r == [k \in 1..n |-> x]
  <2>. HIDE DEF n, x
  <2>1. r \in Seq(Nat)
    BY <1>1 DEF n, x
  <2>. QED BY <2>1 DEF Times, n, x
<1>3. \A a, b \in Seq(Nat) : a \o b \in Seq(Nat)
  OBVIOUS
<1>. QED BY <1>2, <1>3 DEF Texts

\* What pairs stand for is written by a recursion.
LEMMA UnfoldedWritten ==
    ASSUME NEW s \in Pairs
    PROVE  \E f : Written(f, s) /\ Unfolded(s) = f[Len(s)]
<1>. DEFINE N == Len(s)
            G == [p \in Texts \X (1..N) |-> p[1] \o Times(s[p[2]])]
            Is(f) == f = [n \in 0..N |-> IF n = 0 THEN <<>> ELSE
                            f[n - 1] \o [k \in 1..s[n][2] |-> s[n][1]]]
            none == <<>>
<1>1. N \in Nat /\ \A n \in 1..N : s[n] \in Nat \X Nat
  BY DEF Pairs
<1>2. \A p \in Texts \X (1..N) : p[1] \o Times(s[p[2]]) \in Texts
  <2>1. \A p \in Texts \X (1..N) : p[1] \in Texts /\ p[2] \in 1..N
    OBVIOUS
  <2>. QED BY <1>1, <2>1, TimesTyped
<1>3. none \in Texts
  BY DEF Texts
<1>. HIDE DEF N, none
<1>4. G \in [Texts \X (1..N) -> Texts]
  BY <1>2
<1>5. \A x \in Texts, n \in 1..N : G[<<x, n>>] = x \o Times(s[n])
  OBVIOUS
<1>. HIDE DEF G
<1>6. PICK f \in [0..N -> Texts] : Recurses(f, N, none, G)
  BY <1>1, <1>3, <1>4, Recursion
<1>7. ASSUME NEW n \in 0..N
      PROVE  f[n] = IF n = 0 THEN none ELSE f[n - 1] \o Times(s[n])
  <2>1. n # 0 => n \in 1..N /\ n - 1 \in 0..N
    BY <1>1
  <2>. QED BY <1>5, <1>6, <2>1 DEF Recurses
<1>8. Is(f)
  BY <1>6, <1>7 DEF Times, none
<1>. DEFINE up == CHOOSE g : Is(g)
<1>9. Is(up)
  <2>. HIDE DEF Is
  <2>. QED BY <1>8
<1>10. Unfolded(s) = up[N]
  BY DEF Unfolded, N
<1>. HIDE DEF up
<1>11. \A n \in 0..N : up[n] = IF n = 0 THEN none ELSE up[n - 1] \o Times(s[n])
  BY <1>9 DEF Times, none
<1>12. up[0] = none /\ \A n \in 1..N : up[n] = up[n - 1] \o Times(s[n])
  <2>1. 0 \in 0..N /\ \A n \in 1..N : n \in 0..N /\ n # 0
    BY <1>1
  <2>. QED BY <1>11, <2>1
<1>13. \A n \in 0..N : up[n] \in Texts
  <2>. DEFINE T == {n \in 0..N : up[n] \in Texts}
  <2>1. 0 \in T
    BY <1>1, <1>3, <1>12
  <2>2. ASSUME NEW n \in 0..N, n > 0, n - 1 \in T PROVE n \in T
    <3>1. n \in 1..N
      BY <1>1, <2>2
    <3>. QED BY <1>1, <1>12, <2>2, <3>1, TimesTyped
  <2>. HIDE DEF T
  <2>3. 0..N \subseteq T
    BY <1>1, <2>1, <2>2, Upward
  <2>. QED BY <2>3 DEF T
<1>14. up \in [0..N -> Texts]
  BY <1>9, <1>13
<1>. QED BY <1>10, <1>12, <1>14 DEF Written, N, none

\* One pair more.
LEMMA UnfoldedAppend ==
    ASSUME NEW s \in Pairs, NEW p \in Nat \X Nat
    PROVE  Unfolded(Append(s, p)) = Unfolded(s) \o Times(p)
<1>. DEFINE r == Append(s, p)
            N == Len(s)
<1>1. /\ r \in Pairs /\ Len(r) = N + 1 /\ r[N + 1] = p /\ N \in Nat
      /\ \A n \in 1..N : r[n] = s[n]
  BY DEF Pairs
<1>. HIDE DEF r, N
<1>2. PICK f : Written(f, s) /\ Unfolded(s) = f[N]
  BY UnfoldedWritten DEF N
<1>3. PICK g : Written(g, r) /\ Unfolded(r) = g[N + 1]
  BY <1>1, UnfoldedWritten
<1>. DEFINE T == {n \in 0..N : g[n] = f[n]}
<1>4. N \in 0..N /\ N + 1 \in 1..N + 1 /\ (N + 1) - 1 = N /\ \A n \in 1..N : n \in 1..N + 1
  BY <1>1
<1>5. 0 \in T
  BY <1>1, <1>2, <1>3 DEF Written
<1>6. ASSUME NEW n \in 0..N, n > 0, n - 1 \in T PROVE n \in T
  <2>1. n \in 1..N /\ n \in 1..N + 1
    BY <1>1, <1>6
  <2>2. g[n] = g[n - 1] \o Times(r[n]) /\ f[n] = f[n - 1] \o Times(s[n])
    BY <1>1, <1>2, <1>3, <2>1 DEF Written, N
  <2>. QED BY <1>1, <1>6, <2>1, <2>2
<1>. HIDE DEF T
<1>7. N \in T
  <2>1. 0..N \subseteq T
    BY <1>1, <1>5, <1>6, Upward
  <2>. QED BY <1>4, <2>1
<1>8. g[N + 1] = g[N] \o Times(p)
  BY <1>1, <1>3, <1>4 DEF Written
<1>. QED BY <1>2, <1>3, <1>7, <1>8 DEF r, T

\* Nothing stands for nothing.
LEMMA UnfoldedEmpty == Unfolded(<<>>) = <<>>
<1>1. <<>> \in Pairs /\ Len(<<>>) = 0
  BY DEF Pairs
<1>. QED BY <1>1, UnfoldedWritten DEF Written

\* A run is equal lines.
LEMMA RunIs ==
    ASSUME NEW lines \in Texts, NEW i \in 1..Len(lines)
    PROVE  /\ RunFrom(lines, i) \in i..Len(lines)
           /\ \A k \in i..RunFrom(lines, i) : lines[k] = lines[i]
<1>. DEFINE L == Len(lines)
            ends == {j \in i..L : \A k \in i..j : lines[k] = lines[i]}
            D == {L - j : j \in ends}
<1>1. L \in Nat /\ i \in Nat /\ i \in i..L
  BY DEF Texts
<1>2. i \in ends
  <2>1. \A k \in i..i : k = i
    BY <1>1
  <2>. QED BY <1>1, <2>1
<1>3. \A j \in ends : j \in i..L /\ L - j \in Nat
  BY <1>1
<1>4. D \in SUBSET Nat /\ D # {}
  BY <1>2, <1>3
<1>5. PICK d \in D : \A e \in D : d <= e
  <2>. HIDE DEF D
  <2>. QED BY <1>4, LeastNumber
<1>6. PICK m \in ends : d = L - m
  OBVIOUS
<1>7. ASSUME NEW j \in ends PROVE j <= m
  <2>1. L - m <= L - j
    BY <1>5, <1>6
  <2>. QED BY <1>1, <1>3, <2>1
<1>8. RunFrom(lines, i) \in ends
  BY <1>7 DEF RunFrom
<1>. QED BY <1>8

(* How many lines a round takes, and the bytes of lines and of pairs.      *)
Taken(lines, minimum, marker, i) ==
    LET count == IF lines[i] = 0 THEN 1 ELSE RunFrom(lines, i) - i + 1
    IN IF Folds(lines[i], count, minimum, marker) THEN count ELSE 1
Ended(lines) == [k \in DOMAIN lines |-> lines[k] + 1]
Size(p, marker) == IF p[2] = 1 THEN p[1] + 1 ELSE p[1] + marker + 1
Sizes(out, marker) == [k \in DOMAIN out |-> Size(out[k], marker)]
Loops(lines) == [index : 1..Len(lines) + 1, out : Pairs]

\* A round takes equal lines, and more than one only if their pair is shorter.
LEMMA TakenAre ==
    ASSUME NEW lines \in Texts, NEW minimum, NEW marker \in Nat, NEW i \in 1..Len(lines)
    PROVE  LET taken == Taken(lines, minimum, marker, i)
           IN /\ taken \in 1..(Len(lines) - i + 1)
              /\ \A k \in i..i + taken - 1 : lines[k] = lines[i]
              /\ Size(<<lines[i], taken>>, marker) <= taken * (lines[i] + 1)
<1>. DEFINE L == Len(lines)
            count == IF lines[i] = 0 THEN 1 ELSE RunFrom(lines, i) - i + 1
            taken == Taken(lines, minimum, marker, i)
            x == lines[i]
<1>1. L \in Nat /\ i \in 1..L /\ x \in Nat
  BY DEF Texts
<1>2. RunFrom(lines, i) \in i..L
  BY RunIs
<1>3. count \in 1..(L - i + 1) /\ \A k \in i..i + count - 1 : lines[k] = x
  <2>1. CASE x = 0
    <3>1. count = 1 /\ i + count - 1 = i /\ \A k \in i..i : k = i
      BY <1>1, <2>1
    <3>. QED BY <1>1, <3>1
  <2>2. CASE x # 0
    <3>1. count = RunFrom(lines, i) - i + 1
      BY <2>2
    <3>. HIDE DEF count, L
    <3>2. i + count - 1 = RunFrom(lines, i) /\ count \in 1..(L - i + 1)
      BY <1>1, <1>2, <3>1
    <3>. QED BY <3>2, RunIs
  <2>. QED BY <2>1, <2>2
<1>4. taken = IF Folds(x, count, minimum, marker) THEN count ELSE 1
  BY DEF Taken
<1>. HIDE DEF count, taken, L, x
<1>5. CASE Folds(x, count, minimum, marker)
  <2>1. taken = count /\ x + marker + 1 < taken * (x + 1)
    BY <1>4, <1>5 DEF Folds
  <2>2. Size(<<x, taken>>, marker) <= taken * (x + 1)
    <3>1. x + marker + 1 <= taken * (x + 1)
      BY <1>1, <1>3, <2>1
    <3>2. taken = 1 => x + 1 <= taken * (x + 1)
      BY <1>1
    <3>. QED BY <3>1, <3>2 DEF Size
  <2>. QED BY <1>3, <2>1, <2>2 DEF taken, L, x
<1>6. CASE ~Folds(x, count, minimum, marker)
  <2>1. taken = 1 /\ 1 \in 1..(L - i + 1) /\ i + taken - 1 = i /\ \A k \in i..i : k = i
    BY <1>1, <1>4, <1>6
  <2>2. Size(<<x, taken>>, marker) <= taken * (x + 1)
    BY <1>1, <2>1 DEF Size
  <2>. QED BY <2>1, <2>2 DEF taken, L, x
<1>. QED BY <1>5, <1>6

\* A round of the loop.
LEMMA RoundIs ==
    ASSUME NEW lines \in Texts, NEW minimum, NEW marker \in Nat, NEW loop \in Loops(lines)
    PROVE  LET taken == Taken(lines, minimum, marker, loop.index)
               next == FoldRound(lines, minimum, marker, loop)
           IN /\ next \in Loops(lines)
              /\ loop.index > Len(lines) => next = loop
              /\ loop.index <= Len(lines) =>
                   /\ loop.index \in 1..Len(lines) /\ taken \in 1..(Len(lines) - loop.index + 1)
                   /\ next.index = loop.index + taken
                   /\ next.out = Append(loop.out, <<lines[loop.index], taken>>)
<1>. DEFINE L == Len(lines)
            i == loop.index
            taken == Taken(lines, minimum, marker, i)
            next == FoldRound(lines, minimum, marker, loop)
<1>1. L \in Nat /\ i \in 1..L + 1 /\ loop.out \in Pairs
  BY DEF Texts, Loops
<1>2. CASE i > L
  <2>1. next = loop
    BY <1>2 DEF FoldRound
  <2>. QED BY <1>1, <1>2, <2>1
<1>3. CASE ~(i > L)
  <2>1. next = [index |-> i + taken, out |-> Append(loop.out, <<lines[i], taken>>)]
    BY <1>3 DEF FoldRound, Taken
  <2>2. i \in 1..L
    BY <1>1, <1>3
  <2>3. taken \in 1..(L - i + 1) /\ lines[i] \in Nat
    <3>1. lines[i] \in Nat
      BY <2>2 DEF Texts
    <3>. HIDE DEF i
    <3>2. taken \in 1..(L - i + 1)
      BY <2>2, TakenAre
    <3>. QED BY <3>1, <3>2
  <2>. HIDE DEF taken, next
  <2>4. i + taken \in 1..L + 1 /\ taken \in Nat
    BY <1>1, <2>2, <2>3
  <2>5. \A q \in Pairs, p \in Nat \X Nat : Append(q, p) \in Pairs
    BY DEF Pairs
  <2>6. next.index = i + taken /\ next.out = Append(loop.out, <<lines[i], taken>>)
    BY <2>1
  <2>7. next \in Loops(lines)
    BY <1>1, <2>1, <2>3, <2>4, <2>5 DEF Loops
  <2>. QED BY <1>3, <2>2, <2>3, <2>6, <2>7 DEF taken, next
<1>. QED BY <1>2, <1>3

\* Equal lines add up to a multiple.
LEMMA SumsOfRun ==
    ASSUME NEW lines \in Texts, NEW f, Sums(f, Ended(lines)), NEW i \in 1..Len(lines),
           NEW n \in 0..(Len(lines) - i + 1), \A k \in i..i + n - 1 : lines[k] = lines[i]
    PROVE  f[i - 1 + n] = f[i - 1] + n * (lines[i] + 1) /\ f[i - 1] \in Nat
<1>. DEFINE L == Len(lines)
            x == lines[i] + 1
            T == {k \in 0..n : f[i - 1 + k] = f[i - 1] + k * x}
<1>1. L \in Nat /\ i \in 1..L /\ x \in Nat /\ n \in Nat /\ n <= L - i + 1
      /\ DOMAIN lines = 1..L
  BY DEF Texts
<1>2. Len(Ended(lines)) = L /\ \A k \in 1..L : Ended(lines)[k] = lines[k] + 1
  BY DEF Texts, Ended
<1>3. f \in [0..L -> Nat] /\ \A k \in 1..L : f[k] = f[k - 1] + Ended(lines)[k]
  BY <1>2 DEF Sums
<1>. HIDE DEF L
<1>4. i - 1 \in 0..L /\ f[i - 1] \in Nat
  BY <1>1, <1>3
<1>5. 0 \in T
  <2>1. i - 1 + 0 = i - 1 /\ 0 * x = 0 /\ f[i - 1] + 0 = f[i - 1] /\ 0 \in 0..n
    BY <1>1, <1>4
  <2>. QED BY <2>1
<1>6. ASSUME NEW k \in 0..n, k > 0, k - 1 \in T PROVE k \in T
  <2>1. i - 1 + k \in 1..L /\ i - 1 + k \in i..i + n - 1 /\ (i - 1 + k) - 1 = i - 1 + (k - 1)
    BY <1>1, <1>6
  <2>2. f[i - 1 + k] = f[i - 1 + (k - 1)] + x
    BY <1>2, <1>3, <2>1
  <2>3. f[i - 1 + (k - 1)] = f[i - 1] + (k - 1) * x
    BY <1>6
  <2>. HIDE DEF x
  <2>4. (k - 1) * x + x = k * x /\ (k - 1) * x \in Int /\ k * x \in Int
    BY <1>1
  <2>5. f[i - 1 + k] = f[i - 1] + k * x
    <3>1. \A a, b, c \in Int : (a + b) + c = a + (b + c)
      OBVIOUS
    <3>. QED BY <1>1, <1>4, <2>2, <2>3, <2>4
  <2>. QED BY <2>5
<1>. HIDE DEF T
<1>7. n \in T
  <2>1. 0..n \subseteq T
    BY <1>1, <1>5, <1>6, Upward
  <2>. QED BY <1>1, <2>1
<1>. QED BY <1>4, <1>7 DEF T

\* A sequence with one number more.
LEMMA AppendIs ==
    ASSUME NEW q \in Seq(Nat), NEW z \in Nat
    PROVE  /\ Append(q, z) = [k \in 1..Len(q) + 1 |-> Append(q, z)[k]]
           /\ Append(q, z)[Len(q) + 1] = z
           /\ \A k \in 1..Len(q) : Append(q, z)[k] = q[k]
<1>. DEFINE r == Append(q, z)
            n == Len(q) + 1
<1>1. r \in Seq(Nat) /\ Len(r) = n /\ r[n] = z /\ \A k \in 1..Len(q) : r[k] = q[k]
  OBVIOUS
<1>. HIDE DEF r, n
<1>2. r = [k \in 1..n |-> r[k]]
  BY <1>1
<1>. QED BY <1>1, <1>2 DEF r, n

(* After n rounds: the pairs stand for the lines before index, in no more  *)
(* bytes, and index is ahead of n until the lines are at their end.        *)
Rounds(loop, lines, marker, f, n) ==
    /\ loop \in Loops(lines)
    /\ loop.index > n \/ loop.index > Len(lines)
    /\ Unfolded(loop.out) = SubSeq(lines, 1, loop.index - 1)
    /\ Sizes(loop.out, marker) \in Texts
    /\ Total(Sizes(loop.out, marker)) <= f[loop.index - 1]

\* Each round keeps this.
LEMMA RoundKeeps ==
    ASSUME NEW lines \in Texts, NEW minimum, NEW marker \in Nat, NEW f, Sums(f, Ended(lines)),
           NEW loop, NEW n \in 1..Len(lines), Rounds(loop, lines, marker, f, n - 1)
    PROVE  Rounds(FoldRound(lines, minimum, marker, loop), lines, marker, f, n)
<1>. DEFINE L == Len(lines)
            i == loop.index
            t == Taken(lines, minimum, marker, i)
            next == FoldRound(lines, minimum, marker, loop)
            x == lines[i]
            p == <<x, t>>
<1>1. L \in Nat /\ n \in 1..L /\ i \in 1..L + 1 /\ loop.out \in Pairs /\ loop \in Loops(lines)
  BY DEF Texts, Rounds, Loops
<1>2. next \in Loops(lines) /\ (i > L => next = loop)
  BY <1>1, RoundIs
<1>3. CASE i > L
  BY <1>2, <1>3 DEF Rounds
<1>4. CASE ~(i > L)
  <2>1. i \in 1..L /\ i <= L
    BY <1>1, <1>4
  <2>2. t \in 1..(L - i + 1) /\ next.index = i + t /\ next.out = Append(loop.out, p)
    BY <1>1, <2>1, RoundIs
  <2>3. /\ \A k \in i..i + t - 1 : lines[k] = x
        /\ Size(p, marker) <= t * (x + 1)
    <3>. HIDE DEF i
    <3>1. /\ t \in 1..(Len(lines) - i + 1)
          /\ \A k \in i..i + t - 1 : lines[k] = lines[i]
          /\ Size(<<lines[i], t>>, marker) <= t * (lines[i] + 1)
      BY <2>1, TakenAre
    <3>. HIDE DEF t
    <3>. QED BY <3>1
  <2>4. x \in Nat /\ t \in Nat /\ p \in Nat \X Nat /\ p[1] = x /\ p[2] = t
    <3>1. x \in Nat
      BY <2>1 DEF Texts
    <3>. HIDE DEF t, i, x
    <3>2. t \in Nat
      BY <1>1, <2>1, <2>2
    <3>. QED BY <3>1, <3>2
  <2>. HIDE DEF t, next, i, x, p
  <2>5. next.index > n
    BY <1>1, <2>1, <2>2, <2>4 DEF Rounds, i
  <2>6. Unfolded(next.out) = SubSeq(lines, 1, next.index - 1)
    <3>1. Unfolded(next.out) = SubSeq(lines, 1, i - 1) \o Times(p)
      BY <1>1, <2>2, <2>4, UnfoldedAppend DEF Rounds, i
    <3>2. Times(p) = [k \in 1..t |-> x]
      BY <2>4 DEF Times
    <3>3. SubSeq(lines, 1, i - 1) \o [k \in 1..t |-> x] = SubSeq(lines, 1, i + t - 1)
      <4>. DEFINE a == SubSeq(lines, 1, i - 1)
                  b == [k \in 1..t |-> x]
                  c == SubSeq(lines, 1, i + t - 1)
      <4>1. a \in Seq(Nat) /\ Len(a) = i - 1 /\ \A k \in 1..i - 1 : a[k] = lines[k]
        BY <1>1, <2>1 DEF Texts
      <4>2. b \in Seq(Nat) /\ Len(b) = t /\ \A k \in 1..t : b[k] = x
        BY <2>4
      <4>3. i + t - 1 \in 0..L
        BY <1>1, <2>1, <2>2
      <4>4. c \in Seq(Nat) /\ Len(c) = i + t - 1 /\ \A k \in 1..i + t - 1 : c[k] = lines[k]
        BY <1>1, <4>3 DEF Texts
      <4>. HIDE DEF a, b, c
      <4>5. a \o b \in Seq(Nat) /\ Len(a \o b) = i - 1 + t
            /\ \A k \in 1..i - 1 + t : (a \o b)[k] = IF k <= i - 1 THEN a[k] ELSE b[k - (i - 1)]
        <5>1. \A q, r \in Seq(Nat) :
                /\ q \o r \in Seq(Nat) /\ Len(q \o r) = Len(q) + Len(r)
                /\ \A k \in 1..Len(q) + Len(r) :
                     (q \o r)[k] = IF k <= Len(q) THEN q[k] ELSE r[k - Len(q)]
          OBVIOUS
        <5>2. /\ a \o b \in Seq(Nat) /\ Len(a \o b) = Len(a) + Len(b)
              /\ \A k \in 1..Len(a) + Len(b) :
                   (a \o b)[k] = IF k <= Len(a) THEN a[k] ELSE b[k - Len(a)]
          BY <4>1, <4>2, <5>1
        <5>. QED BY <4>1, <4>2, <5>2
      <4>6. ASSUME NEW k \in 1..i + t - 1 PROVE (a \o b)[k] = c[k]
        <5>1. k \in 1..i - 1 + t
          BY <1>1, <2>4
        <5>2. CASE k <= i - 1
          <6>1. k \in 1..i - 1
            BY <1>1, <2>1, <5>2
          <6>. QED BY <4>1, <4>4, <4>5, <5>1, <5>2, <6>1
        <5>3. CASE ~(k <= i - 1)
          <6>1. k \in i..i + t - 1 /\ k - (i - 1) \in 1..t
            BY <1>1, <2>1, <2>4, <5>3
          <6>2. (a \o b)[k] = b[k - (i - 1)]
            BY <4>5, <5>1, <5>3
          <6>. QED BY <2>3, <4>2, <4>4, <6>1, <6>2
        <5>. QED BY <5>2, <5>3
      <4>7. Len(a \o b) = Len(c)
        BY <1>1, <2>1, <2>4, <4>4, <4>5
      <4>8. \A q \in Seq(Nat) : q = [k \in 1..Len(q) |-> q[k]]
        OBVIOUS
      <4>9. a \o b = c
        <5>. DEFINE d == a \o b
        <5>1. d \in Seq(Nat) /\ Len(d) = Len(c) /\ \A k \in 1..Len(c) : d[k] = c[k]
          BY <4>4, <4>5, <4>6, <4>7
        <5>. HIDE DEF d
        <5>2. d = [k \in 1..Len(c) |-> d[k]] /\ c = [k \in 1..Len(c) |-> c[k]]
          BY <4>4, <4>8, <5>1
        <5>3. d = c
          BY <5>1, <5>2
        <5>. QED BY <5>3 DEF d
      <4>. QED BY <4>9 DEF a, b, c
    <3>4. next.index - 1 = i + t - 1
      BY <1>1, <2>1, <2>2, <2>4
    <3>. QED BY <3>1, <3>2, <3>3, <3>4
  <2>7. /\ Sizes(next.out, marker) \in Texts
        /\ Total(Sizes(next.out, marker)) <= f[next.index - 1]
    <3>. DEFINE old == Sizes(loop.out, marker)
                y == Size(p, marker)
    <3>1. old \in Seq(Nat) /\ Total(old) <= f[i - 1]
      BY DEF Rounds, Texts, i
    <3>2. y \in Nat
      BY <2>4 DEF Size
    <3>3. Sizes(next.out, marker) = Append(old, y)
      <4>. DEFINE o == loop.out
                  r == Append(o, p)
      <4>1. /\ r \in Pairs /\ DOMAIN r = 1..Len(o) + 1 /\ Len(o) \in Nat /\ DOMAIN o = 1..Len(o)
            /\ r[Len(o) + 1] = p /\ \A k \in 1..Len(o) : r[k] = o[k]
        <5>1. \A q \in Pairs, z \in Nat \X Nat :
                /\ Append(q, z) \in Pairs /\ DOMAIN Append(q, z) = 1..Len(q) + 1 /\ Len(q) \in Nat
                /\ DOMAIN q = 1..Len(q) /\ Append(q, z)[Len(q) + 1] = z
                /\ \A k \in 1..Len(q) : Append(q, z)[k] = q[k]
          BY DEF Pairs
        <5>. QED BY <1>1, <2>4, <5>1
      <4>. HIDE DEF o, r
      <4>2. /\ old = [k \in 1..Len(o) |-> Size(o[k], marker)]
            /\ Sizes(r, marker) = [k \in 1..Len(o) + 1 |-> Size(r[k], marker)]
        BY <4>1 DEF Sizes, o
      <4>. HIDE DEF old, y
      <4>3. /\ DOMAIN old = 1..Len(o) /\ \A k \in 1..Len(o) : old[k] = Size(o[k], marker)
        BY <4>2
      <4>4. Len(old) = Len(o)
        BY <3>1, <4>1, <4>3
      <4>5. /\ Append(old, y) = [k \in 1..Len(o) + 1 |-> Append(old, y)[k]]
            /\ Append(old, y)[Len(o) + 1] = y /\ \A k \in 1..Len(o) : Append(old, y)[k] = old[k]
        BY <3>1, <3>2, <4>4, AppendIs
      <4>6. ASSUME NEW k \in 1..Len(o) + 1 PROVE Size(r[k], marker) = Append(old, y)[k]
        <5>1. k \in 1..Len(o) \/ k = Len(o) + 1
          BY <4>1
        <5>2. CASE k \in 1..Len(o)
          BY <4>1, <4>3, <4>5, <5>2
        <5>3. CASE k = Len(o) + 1
          BY <4>1, <4>5, <5>3 DEF y
        <5>. QED BY <5>1, <5>2, <5>3
      <4>7. Sizes(r, marker) = Append(old, y)
        BY <4>2, <4>5, <4>6
      <4>. QED BY <2>2, <4>7 DEF o, r
    <3>4. Total(Append(old, y)) = Total(old) + y /\ Total(old) \in Nat
      <4>. HIDE DEF old, y
      <4>. QED BY <3>1, <3>2, TotalAppend
    <3>5. f[i - 1 + t] = f[i - 1] + t * (x + 1) /\ f[i - 1] \in Nat
      <4>1. t \in 0..(L - i + 1)
        BY <1>1, <2>1, <2>2
      <4>. QED BY <2>1, <2>3, <4>1, SumsOfRun DEF x
    <3>6. next.index - 1 = i - 1 + t
      BY <2>1, <2>2, <2>4
    <3>7. Append(old, y) \in Texts
      <4>. HIDE DEF old, y
      <4>. QED BY <3>1, <3>2 DEF Texts
    <3>8. Total(old) + y <= f[i - 1] + t * (x + 1)
      <4>. DEFINE z == t * (x + 1)
                  g == f[i - 1]
      <4>1. z \in Int /\ y <= z
        BY <2>3, <2>4
      <4>. HIDE DEF z, y, old, g
      <4>2. g \in Nat /\ Total(old) <= g
        BY <3>1, <3>5 DEF g
      <4>3. Total(old) + y <= g + z
        BY <3>2, <3>4, <4>1, <4>2
      <4>. QED BY <4>3 DEF z, g
    <3>. QED BY <3>3, <3>4, <3>5, <3>6, <3>7, <3>8
  <2>. QED BY <1>2, <2>5, <2>6, <2>7 DEF Rounds, next
<1>. QED BY <1>3, <1>4

\* The loop is a recursion, and at its end the pairs stand for all lines.
LEMMA FoldedIs ==
    ASSUME NEW lines \in Texts, NEW minimum, NEW marker \in Nat
    PROVE  LET folded == Folded(lines, minimum, marker)
           IN /\ folded \in Pairs /\ Unfolded(folded) = lines
              /\ Sizes(folded, marker) \in Texts
              /\ Total(Sizes(folded, marker)) <= Total(Ended(lines))
<1>. DEFINE N == Len(lines)
            D == Loops(lines)
            first == [index |-> 1, out |-> <<>>]
            Step(l) == FoldRound(lines, minimum, marker, l)
            G == [q \in D \X (1..N) |-> Step(q[1])]
            Is(h) == h = [n \in 0..N |-> IF n = 0 THEN first ELSE Step(h[n - 1])]
<1>1. N \in Nat
  BY DEF Texts
<1>2. \A l \in D : Step(l) \in D
  BY RoundIs
<1>3. first \in D
  <2>1. <<>> \in Pairs /\ 1 \in 1..N + 1
    BY <1>1 DEF Pairs
  <2>. QED BY <2>1 DEF Loops
<1>4. Folded(lines, minimum, marker) = (CHOOSE h : Is(h))[N].out
  BY DEF Folded
<1>. HIDE DEF N, D, first, Step
<1>5. G \in [D \X (1..N) -> D] /\ \A l \in D, n \in 1..N : G[<<l, n>>] = Step(l)
  BY <1>2
<1>. HIDE DEF G
<1>6. PICK h \in [0..N -> D] : Recurses(h, N, first, G)
  BY <1>1, <1>3, <1>5, Recursion
<1>7. ASSUME NEW n \in 0..N PROVE h[n] = IF n = 0 THEN first ELSE Step(h[n - 1])
  <2>1. n # 0 => n \in 1..N /\ n - 1 \in 0..N
    BY <1>1
  <2>. QED BY <1>5, <1>6, <2>1 DEF Recurses
<1>8. Is(h)
  BY <1>6, <1>7
<1>. DEFINE up == CHOOSE g : Is(g)
<1>9. Is(up)
  <2>. HIDE DEF Is
  <2>. QED BY <1>8
<1>10. Folded(lines, minimum, marker) = up[N].out
  BY <1>4
<1>. HIDE DEF up
<1>11. up[0] = first /\ \A n \in 1..N : up[n] = Step(up[n - 1])
  <2>1. 0 \in 0..N /\ \A n \in 1..N : n \in 0..N /\ n # 0
    BY <1>1
  <2>. QED BY <1>9, <2>1
<1>12. Ended(lines) \in Seq(Nat) /\ Len(Ended(lines)) = N
  <2>1. \A s \in Seq(Nat) : /\ [k \in DOMAIN s |-> s[k] + 1] \in Seq(Nat)
                            /\ Len([k \in DOMAIN s |-> s[k] + 1]) = Len(s)
    <3>. SUFFICES ASSUME NEW s \in Seq(Nat)
                  PROVE  /\ [k \in DOMAIN s |-> s[k] + 1] \in Seq(Nat)
                         /\ Len([k \in DOMAIN s |-> s[k] + 1]) = Len(s)
      OBVIOUS
    <3>. DEFINE n == Len(s)
                r == [k \in 1..n |-> s[k] + 1]
    <3>1. n \in Nat /\ DOMAIN s = 1..n /\ \A k \in 1..n : s[k] + 1 \in Nat
      OBVIOUS
    <3>. HIDE DEF n
    <3>2. r \in Seq(Nat) /\ Len(r) = n
      BY <3>1
    <3>. QED BY <3>1, <3>2 DEF n
  <2>. QED BY <2>1 DEF Texts, Ended, N
<1>13. PICK f : Sums(f, Ended(lines)) /\ Total(Ended(lines)) = f[N]
  BY <1>12, TotalSums
<1>. DEFINE T == {n \in 0..N : Rounds(up[n], lines, marker, f, n)}
<1>14. 0 \in T
  <2>1. first.index = 1 /\ first.out = <<>> /\ 1 > 0
    BY DEF first
  <2>2. SubSeq(lines, 1, 1 - 1) = <<>>
    BY DEF Texts
  <2>3. Sizes(<<>>, marker) = <<>>
    BY DEF Sizes
  <2>4. <<>> \in Texts /\ f[1 - 1] = 0 /\ 0 <= 0
    BY <1>13 DEF Texts, Sums
  <2>5. Rounds(first, lines, marker, f, 0)
    BY <1>3, <2>1, <2>2, <2>3, <2>4, TotalEmpty, UnfoldedEmpty DEF Rounds, D
  <2>. QED BY <1>1, <1>11, <2>5
<1>15. ASSUME NEW n \in 0..N, n > 0, n - 1 \in T PROVE n \in T
  <2>1. n \in 1..N /\ Rounds(up[n - 1], lines, marker, f, n - 1)
    BY <1>1, <1>15
  <2>2. Rounds(Step(up[n - 1]), lines, marker, f, n)
    BY <1>13, <2>1, RoundKeeps DEF Step, N
  <2>. QED BY <1>11, <2>1, <2>2
<1>. HIDE DEF T
<1>16. Rounds(up[N], lines, marker, f, N)
  <2>1. 0..N \subseteq T /\ N \in 0..N
    BY <1>1, <1>14, <1>15, Upward
  <2>. QED BY <2>1 DEF T
<1>17. up[N].index = N + 1 /\ up[N].out \in Pairs
  BY <1>1, <1>16 DEF Rounds, Loops, N
<1>18. SubSeq(lines, 1, N) = lines
  BY DEF N, Texts
<1>19. /\ Unfolded(up[N].out) = lines /\ Sizes(up[N].out, marker) \in Texts
       /\ Total(Sizes(up[N].out, marker)) <= Total(Ended(lines))
  <2>1. up[N].index - 1 = N
    BY <1>1, <1>17
  <2>2. /\ Unfolded(up[N].out) = SubSeq(lines, 1, N)
        /\ Sizes(up[N].out, marker) \in Texts
        /\ Total(Sizes(up[N].out, marker)) <= f[N]
    BY <1>16, <2>1 DEF Rounds
  <2>. QED BY <1>13, <1>18, <2>2
<1>. QED BY <1>10, <1>17, <1>19

(* The input of the rules is one of the probes.                            *)
ProbeInv == probe # None => probe \in Probes

\* Folding repeated lines and cutting out the middle never make a tool result
\* longer, whatever its lines are and whatever the limits; what was folded can be
\* told back.
THEOREM TextsShrink == Spec => []TextRulesShrink
<1>1. Init => ProbeInv
  BY DEF Init, ProbeInv
<1>2. ProbeInv /\ [Next]_vars => ProbeInv'
  BY Speaks DEF ProbeInv
<1>3. ProbeInv => TextRulesShrink
  <2>. SUFFICES ASSUME ProbeInv, probe # None PROVE TextRulesShrink
    BY DEF TextRulesShrink
  <2>. DEFINE lines == probe.lines
              marker == probe.marker
              folded == Folded(lines, probe.minimum, marker)
              before == Total(Ended(lines))
              after == Total(Sizes(folded, marker))
              cut == Truncated(after, probe.max, probe.head, probe.tail, marker)
  <2>1. lines \in Texts /\ marker \in Nat
        /\ probe.max \in Nat /\ probe.head \in Nat /\ probe.tail \in Nat
    BY ProbeAssumption DEF ProbeInv, Texts
  <2>2. /\ Unfolded(folded) = lines /\ Sizes(folded, marker) \in Texts /\ after <= before
    BY <2>1, FoldedIs
  <2>3. after \in Nat
    <3>1. PICK f : Sums(f, Sizes(folded, marker)) /\ after = f[Len(Sizes(folded, marker))]
      BY <2>2, TotalSums DEF Texts
    <3>2. Len(Sizes(folded, marker)) \in 0..Len(Sizes(folded, marker))
      BY <2>2 DEF Texts
    <3>. QED BY <3>1, <3>2 DEF Sums
  <2>4. /\ Ended(lines) = [k \in DOMAIN probe.lines |-> probe.lines[k] + 1]
        /\ Sizes(folded, marker) = [k \in DOMAIN folded |->
             IF folded[k][2] = 1 THEN folded[k][1] + 1 ELSE folded[k][1] + probe.marker + 1]
    BY DEF Ended, Sizes, Size
  <2>. HIDE DEF folded, after, before
  <2>5. /\ cut.head + cut.tail <= after
        /\ after > probe.max /\ cut.tail > 0 => cut.head + cut.tail + marker < after
    BY <2>1, <2>3 DEF Truncated
  <2>. QED BY <2>2, <2>4, <2>5 DEF TextRulesShrink, folded, after, before
<1>. QED BY <1>1, <1>2, <1>3, PTL DEF Spec
==============================================================================
