--------------------------- MODULE UpstreamProofs ---------------------------
(***************************************************************************)
(* Theorems about Upstream, for every set of requests, whatever each of    *)
(* them may be, for every list of addresses and every limit of the pool.   *)
(***************************************************************************)
EXTENDS Upstream, TLAPS, FiniteSetTheorems

-----------------------------------------------------------------------------
(* The inductive invariant.                                                *)

Entry == [conn : Conn, age : 0..2]
Answers == {"none", "502", "502 spent", "whole", "cut"}
Phase == {"idle", "reuse", "resolve", "dial", "hedge", "stream", "done"}

\* The types, those of what all requests share and those of each request.
SharedType ==
    /\ site \in Site /\ agent \in BOOLEAN
    /\ lastGood \in Addr \cup {None}
    /\ pool \in Seq(Entry) /\ Len(pool) <= PoolMax
    /\ dirty \in SUBSET Conn
LocalType ==
    /\ pc \in [Req -> Phase]
    /\ kind \in [Req -> Kind] /\ via \in [Req -> BOOLEAN]
    /\ todo \in [Req -> Seq(Candidate)]
    /\ spare \in [Req -> SUBSET Candidate]
    /\ stage \in [Req -> Stage]
    /\ tried \in [Req -> SUBSET Addr]
    /\ flying \in [Req -> SUBSET Candidate]
    /\ conn \in [Req -> Conn \cup {None}]
    /\ answer \in [Req -> Answers]
    /\ copies \in [Req -> SUBSET Conn]
    /\ headed \in [Req -> BOOLEAN]
    /\ missed \in [Req -> SUBSET Addr]
Typed == SharedType /\ LocalType

\* Which attempts are out, by the phase: a race is only run for what may race.
Flights(r) ==
    /\ pc[r] = "hedge" => Hedged(r)
    /\ pc[r] = "dial" => spare[r] = {} /\ \A c, d \in flying[r] : c = d
    /\ pc[r] \notin {"dial", "hedge"} => flying[r] = {}

\* What has been written of a request that may not be repeated, by the phase.
Copies(r) ==
    /\ RetrySafe(kind[r]) \/ pc[r] \in {"idle", "done"} => copies[r] = {}
    /\ pc[r] = "reuse" => copies[r] \subseteq {conn[r]} /\ conn[r].by # r
    /\ pc[r] \in {"resolve", "dial", "hedge"} =>
            (\A c \in copies[r] : c.by # r) /\ (copies[r] = {} \/ headed[r] = TRUE)
    /\ pc[r] = "stream" =>
            (\A c \in copies[r] : c.by = r => c = conn[r])
            /\ (copies[r] \subseteq {conn[r]} \/ headed[r] = TRUE)

\* An address that is known and not dialled is still to be dialled.
Ahead(r) ==
    /\ pc[r] \in {"dial", "hedge"} => \A a \in missed[r] :
            \/ \E i \in 1..Len(todo[r]) : todo[r][i].addr = a
            \/ \E c \in spare[r] : c.addr = a
    /\ pc[r] # "done" => answer[r] = "none"
    /\ answer[r] = "502 spent" => missed[r] = {}

Alone(r) == Flights(r) /\ Copies(r) /\ Ahead(r)

\* Whose connections are whose: a request has one while it reuses or streams,
\* and a connection outlives in the pool only a request that has ended.
Made(c, r) == c.by \in Req /\ c.by # r => pc[c.by] = "done"
Uses ==
    /\ \A r \in Req : conn[r] # None <=> pc[r] \in {"reuse", "stream"}
    /\ \A r \in Req : conn[r] # None => Made(conn[r], r)
    /\ \A r, s \in Req : conn[r] # None /\ conn[r] = conn[s] => r = s
    /\ \A c \in dirty : \E r \in Req : conn[r] = c
PoolOf(p) ==
    /\ \A i \in 1..Len(p) : Made(p[i].conn, Past)
    /\ \A i, j \in 1..Len(p) : p[i].conn = p[j].conn => i = j
    /\ \A i \in 1..Len(p), r \in Req : p[i].conn # conn[r]
Pools == PoolOf(pool)

IInv == Typed /\ Uses /\ Pools /\ \A r \in Req : Alone(r)

-----------------------------------------------------------------------------
(* What a filter keeps.                                                    *)

\* Every set of positions is numbered in its order, without a gap.
LEMMA Numbered ==
    ASSUME NEW m \in Nat, NEW K \in SUBSET (1..m)
    PROVE  /\ Cardinality(K) \in Nat /\ Cardinality(K) <= m
           /\ \A i \in K : Rank(K, i) \in 1..Cardinality(K)
           /\ \A i, k \in K : i < k => Rank(K, i) < Rank(K, k)
           /\ \A n \in 1..Cardinality(K) : \E i \in K : Rank(K, i) = n
<1> DEFINE Upto(i) == {j \in K : j <= i}
           rank == [i \in K |-> Cardinality(Upto(i))]
<1>1. IsFiniteSet(K) /\ Cardinality(K) \in Nat /\ Cardinality(K) <= m
  <2>1. IsFiniteSet(1..m) /\ Cardinality(1..m) = m
    BY FS_Interval
  <2>2. IsFiniteSet(K) /\ Cardinality(K) <= m
    BY <2>1, FS_Subset
  <2> QED
    BY <2>2, FS_CardinalityType
<1>2. \A i \in K : IsFiniteSet(Upto(i)) /\ Cardinality(Upto(i)) \in Nat /\ Cardinality(Upto(i)) <= Cardinality(K)
  <2> TAKE i \in K
  <2>1. Upto(i) \in SUBSET K
    OBVIOUS
  <2> HIDE DEF Upto
  <2> QED
    BY <1>1, <2>1, FS_Subset, FS_CardinalityType
<1>3. \A i \in K : Cardinality(Upto(i)) # 0
  <2> TAKE i \in K
  <2>1. i \in Upto(i)
    OBVIOUS
  <2> HIDE DEF Upto
  <2> QED
    BY <1>2, <2>1, FS_EmptySet
<1>4. \A i, k \in K : i < k => Cardinality(Upto(i)) < Cardinality(Upto(k))
  <2> SUFFICES ASSUME NEW i \in K, NEW k \in K, i < k PROVE Cardinality(Upto(i)) < Cardinality(Upto(k))
    OBVIOUS
  <2>0. K \subseteq Int
    OBVIOUS
  <2>1. k \in Upto(k) /\ k \notin Upto(i)
    BY <2>0
  <2>2. \A j \in K : j <= i => j <= k
    BY <2>0
  <2>3. Upto(i) \in SUBSET Upto(k)
    BY <2>2
  <2> HIDE DEF Upto
  <2>4. Cardinality(Upto(i)) <= Cardinality(Upto(k)) /\ Cardinality(Upto(i)) # Cardinality(Upto(k))
    BY <1>2, <2>1, <2>3, FS_Subset
  <2> QED
    BY <1>2, <2>4
<1> HIDE DEF Upto
<1>5. rank \in [K -> 1..Cardinality(K)]
  BY <1>1, <1>2, <1>3
<1>6. \A i, k \in K : rank[i] = rank[k] => i = k
  BY <1>2, <1>4
<1>7. rank \in Injection(K, 1..Cardinality(K))
  BY <1>5, <1>6 DEF Injection, IsInjective
<1>8. IsFiniteSet(1..Cardinality(K)) /\ Cardinality(1..Cardinality(K)) = Cardinality(K)
  BY <1>1, FS_Interval
<1> HIDE DEF rank
<1>9. rank \in Surjection(K, 1..Cardinality(K))
  BY <1>7, <1>8, FS_Injection
<1>10. \A n \in 1..Cardinality(K) : \E i \in K : rank[i] = n
  BY <1>9 DEF Surjection
<1> QED
  BY <1>1, <1>2, <1>3, <1>4, <1>10 DEF rank, Upto, Rank

\* What is kept of a sequence: the elements at the chosen positions, all of
\* them, in their order.
LEMMA KeptIs ==
    ASSUME NEW s, NEW m \in Nat, NEW K \in SUBSET (1..m)
    PROVE  /\ Cardinality(K) \in Nat /\ Cardinality(K) <= m
           /\ \A n \in 1..Cardinality(K) : Place(K, n) \in K
           /\ \A n, k \in 1..Cardinality(K) : n < k => Place(K, n) < Place(K, k)
           /\ \A i \in K : \E n \in 1..Cardinality(K) : Place(K, n) = i
           /\ Kept(s, K) = [n \in 1..Cardinality(K) |-> s[Place(K, n)]]
<1>1. /\ Cardinality(K) \in Nat /\ Cardinality(K) <= m
      /\ \A i \in K : Rank(K, i) \in 1..Cardinality(K)
      /\ \A i, k \in K : i < k => Rank(K, i) < Rank(K, k)
      /\ \A n \in 1..Cardinality(K) : \E i \in K : Rank(K, i) = n
  BY Numbered
<1>2. Kept(s, K) = [n \in 1..Cardinality(K) |-> s[Place(K, n)]]
  BY DEF Kept
<1>3. \A n \in 1..Cardinality(K) : Place(K, n) \in K /\ Rank(K, Place(K, n)) = n
  BY <1>1 DEF Place
<1>4. K \subseteq Int
  OBVIOUS
<1>5. \A n, k \in 1..Cardinality(K) : n < k => Place(K, n) < Place(K, k)
  <2> SUFFICES ASSUME NEW n \in 1..Cardinality(K), NEW k \in 1..Cardinality(K), n < k
               PROVE  Place(K, n) < Place(K, k)
    OBVIOUS
  <2>1. Place(K, n) \in Int /\ Place(K, k) \in Int
    BY <1>3, <1>4
  <2>2. CASE Place(K, n) = Place(K, k)
    BY <1>1, <1>3, <2>2
  <2>3. CASE Place(K, k) < Place(K, n)
    <3>1. Rank(K, Place(K, k)) < Rank(K, Place(K, n))
      BY <1>1, <1>3, <2>3
    <3> QED
      BY <1>1, <1>3, <3>1
  <2> QED
    BY <2>1, <2>2, <2>3
<1>6. \A i \in K : \E n \in 1..Cardinality(K) : Place(K, n) = i
  <2> TAKE i \in K
  <2>1. Rank(K, i) \in 1..Cardinality(K)
    BY <1>1
  <2>2. Place(K, Rank(K, i)) \in K /\ Rank(K, Place(K, Rank(K, i))) = Rank(K, i)
    BY <1>3, <2>1
  <2>3. \A a, b \in K : a # b => Rank(K, a) # Rank(K, b)
    <3> SUFFICES ASSUME NEW a \in K, NEW b \in K, a # b, Rank(K, a) = Rank(K, b) PROVE FALSE
      OBVIOUS
    <3>1. a < b \/ b < a
      BY <1>4
    <3>2. Rank(K, a) \in Nat /\ Rank(K, b) \in Nat
      BY <1>1
    <3> QED
      BY <1>1, <3>1, <3>2
  <2> QED
    BY <2>1, <2>2, <2>3
<1> QED
  BY <1>1, <1>2, <1>3, <1>5, <1>6

\* What is left of a list without some addresses: all the others.
LEMMA WithoutIs ==
    ASSUME NEW X, NEW s \in Seq(X), NEW S
    PROVE  Without(s, S) \in Seq(X) /\ ToSet(Without(s, S)) = ToSet(s) \ S
<1> DEFINE K == {i \in DOMAIN s : s[i] \notin S}
           w == Without(s, S)
<1>1. K \in SUBSET (1..Len(s)) /\ Len(s) \in Nat /\ DOMAIN s = 1..Len(s) /\ \A i \in 1..Len(s) : s[i] \in X
  OBVIOUS
<1>2. w = Kept(s, K)
  BY DEF Without
<1>3. \A i \in K : i \in 1..Len(s) /\ s[i] \notin S
  OBVIOUS
<1>4. \A i \in 1..Len(s) : s[i] \notin S => i \in K
  OBVIOUS
<1> HIDE DEF K, w
<1>5. /\ Cardinality(K) \in Nat
      /\ \A n \in 1..Cardinality(K) : Place(K, n) \in K
      /\ \A i \in K : \E n \in 1..Cardinality(K) : Place(K, n) = i
      /\ w = [n \in 1..Cardinality(K) |-> s[Place(K, n)]]
  BY <1>1, <1>2, KeptIs
<1> DEFINE N == Cardinality(K)
<1>6. DOMAIN w = 1..N /\ N \in Nat /\ \A n \in 1..N : w[n] = s[Place(K, n)] /\ Place(K, n) \in K
  BY <1>5
<1>7. w \in Seq(X)
  <2>1. \A n \in 1..N : s[Place(K, n)] \in X
    BY <1>1, <1>3, <1>6
  <2> QED
    BY <1>5, <2>1
<1> HIDE DEF N
<1>8. ToSet(w) \subseteq ToSet(s) \ S
  <2> SUFFICES ASSUME NEW n \in 1..N PROVE w[n] \in ToSet(s) \ S
    BY <1>6 DEF ToSet
  <2> QED
    BY <1>1, <1>3, <1>6 DEF ToSet
<1>9. ToSet(s) \ S \subseteq ToSet(w)
  <2> SUFFICES ASSUME NEW i \in 1..Len(s), s[i] \notin S PROVE s[i] \in ToSet(w)
    BY <1>1 DEF ToSet
  <2>1. PICK n \in 1..N : Place(K, n) = i
    BY <1>4, <1>5 DEF N
  <2> QED
    BY <1>6, <2>1 DEF ToSet
<1> QED
  BY <1>7, <1>8, <1>9 DEF w

\* The fresh connections of the pool: each from a place of its own.
LEMMA FreshIs ==
    ASSUME NEW p \in Seq(Entry)
    PROVE  /\ Fresh(p) \in Seq(Entry) /\ Len(Fresh(p)) <= Len(p)
           /\ \E at \in [1..Len(Fresh(p)) -> 1..Len(p)] :
                /\ \A n \in 1..Len(Fresh(p)) : Fresh(p)[n] = p[at[n]]
                /\ \A n, k \in 1..Len(Fresh(p)) : at[n] = at[k] => n = k
<1> DEFINE K == {i \in DOMAIN p : p[i].age < 2}
           N == Cardinality(K)
           w == Fresh(p)
           at == [n \in 1..N |-> Place(K, n)]
<1>1. K \in SUBSET (1..Len(p)) /\ Len(p) \in Nat /\ \A i \in 1..Len(p) : p[i] \in Entry
  OBVIOUS
<1>2. w = Kept(p, K)
  BY DEF Fresh
<1> HIDE DEF K, w
<1>3. /\ N \in Nat /\ N <= Len(p)
      /\ \A n \in 1..N : Place(K, n) \in K
      /\ \A n, k \in 1..N : n < k => Place(K, n) < Place(K, k)
      /\ w = [n \in 1..N |-> p[Place(K, n)]]
  BY <1>1, <1>2, KeptIs
<1> HIDE DEF N
<1>4. \A n \in 1..N : Place(K, n) \in 1..Len(p)
  BY <1>1, <1>3
<1>5. w \in Seq(Entry) /\ Len(w) = N
  BY <1>1, <1>3, <1>4
<1>6. \A n, k \in 1..N : Place(K, n) = Place(K, k) => n = k
  BY <1>3, <1>4
<1>7. at \in [1..N -> 1..Len(p)] /\ \A n \in 1..N : at[n] = Place(K, n)
  BY <1>4
<1>8. \A n \in 1..N : w[n] = p[at[n]]
  BY <1>3, <1>7
<1>9. \A n, k \in 1..N : at[n] = at[k] => n = k
  BY <1>6, <1>7
<1> HIDE DEF at
<1> QED
  BY <1>3, <1>5, <1>7, <1>8, <1>9 DEF w

-----------------------------------------------------------------------------
(* The lists of candidates.                                                *)

\* The division that finds a place in a table of a rows of m.
LEMMA Within ==
    ASSUME NEW m \in Nat \ {0}, NEW a \in Nat, NEW k \in 1..(m * a)
    PROVE  (k - 1) % m \in 0..(m - 1) /\ (k - 1) \div m \in 0..(a - 1)
<1> DEFINE x == k - 1
           q == x \div m
           e == x % m
<1>1. x \in Nat /\ m \in Nat /\ m > 0 /\ x < m * a
  OBVIOUS
<1> HIDE DEF x
<1>2. e \in 0..(m - 1) /\ q \in Int
  BY <1>1
<1>3. x = m * q + e
  BY <1>1
<1> HIDE DEF q, e
<1>4. q >= 0
  BY <1>1, <1>2, <1>3
<1>5. q < a
  <2>1. SUFFICES ASSUME q >= a PROVE FALSE
    BY <1>1, <1>2
  <2>2. m * q >= m * a
    BY <1>1, <1>2, <2>1
  <2> QED
    BY <1>1, <1>2, <1>3, <2>2
<1> QED
  BY <1>2, <1>4, <1>5 DEF x, q, e

\* Each row has a first place, and the first row has them all.
LEMMA RowStart ==
    ASSUME NEW m \in Nat \ {0}, NEW a \in Nat, NEW i \in 1..a
    PROVE  /\ ((i - 1) * m + 1) \in 1..(m * a)
           /\ (((i - 1) * m + 1) - 1) \div m = i - 1
<1>1. (i - 1) * m \in Nat /\ (i - 1) * m + m = i * m
  OBVIOUS
<1>2. i * m <= a * m
  OBVIOUS
<1>3. ((i - 1) * m) \div m = i - 1
  OBVIOUS
<1>4. (((i - 1) * m + 1) - 1) = (i - 1) * m
  BY <1>1
<1> QED
  BY <1>1, <1>2, <1>3, <1>4
LEMMA FirstRow ==
    ASSUME NEW m \in Nat \ {0}, NEW a \in Nat, NEW i \in 1..a
    PROVE  i \in 1..(m * a) /\ (i - 1) % a = i - 1
<1>1. a <= m * a
  OBVIOUS
<1>2. (i - 1) % a = i - 1
  OBVIOUS
<1> QED
  BY <1>1, <1>2

\* Both orders give candidates only, and one at least for every address.
LEMMA ByAddrIs ==
    ASSUME NEW modes \in Seq(Mode), Len(modes) # 0, NEW addrs \in Seq(Addr)
    PROVE  /\ ByAddr(modes, addrs) \in Seq(Candidate)
           /\ \A a \in ToSet(addrs) : \E k \in 1..Len(ByAddr(modes, addrs)) :
                ByAddr(modes, addrs)[k].addr = a
<1> DEFINE m == Len(modes)
           n == Len(addrs)
           l == ByAddr(modes, addrs)
<1>1. m \in Nat \ {0} /\ n \in Nat /\ m * n \in Nat
  OBVIOUS
<1>2. l = [k \in 1..(m * n) |-> [mode |-> modes[((k - 1) % m) + 1], addr |-> addrs[((k - 1) \div m) + 1]]]
  BY DEF ByAddr
<1>3. (\A j \in 1..m : modes[j] \in Mode) /\ \A j \in 1..n : addrs[j] \in Addr
  OBVIOUS
<1>4. ToSet(addrs) = {addrs[j] : j \in 1..n}
  BY DEF ToSet
<1> HIDE DEF m, n, l
<1>5. \A k \in 1..(m * n) : ((k - 1) % m) + 1 \in 1..m /\ ((k - 1) \div m) + 1 \in 1..n
  <2> TAKE k \in 1..(m * n)
  <2>1. (k - 1) % m \in 0..(m - 1) /\ (k - 1) \div m \in 0..(n - 1)
    BY <1>1, Within
  <2> DEFINE u == (k - 1) % m
             v == (k - 1) \div m
  <2>2. u \in 0..(m - 1) /\ v \in 0..(n - 1)
    BY <2>1
  <2> HIDE DEF u, v
  <2>3. u + 1 \in 1..m /\ v + 1 \in 1..n
    BY <1>1, <2>2
  <2> QED
    BY <2>3 DEF u, v
<1>6. \A k \in 1..(m * n) :
        [mode |-> modes[((k - 1) % m) + 1], addr |-> addrs[((k - 1) \div m) + 1]] \in Candidate
  BY <1>3, <1>5 DEF Candidate
<1>7. l \in Seq(Candidate) /\ Len(l) = m * n
  <2> DEFINE N == m * n
             F(k) == [mode |-> modes[((k - 1) % m) + 1], addr |-> addrs[((k - 1) \div m) + 1]]
  <2>1. N \in Nat /\ l = [k \in 1..N |-> F(k)] /\ \A k \in 1..N : F(k) \in Candidate
    BY <1>1, <1>2, <1>6
  <2> HIDE DEF N, F
  <2>2. l \in Seq(Candidate) /\ Len(l) = N
    BY <2>1
  <2> QED
    BY <2>2 DEF N
<1>8. ASSUME NEW i \in 1..n PROVE \E k \in 1..(m * n) : l[k].addr = addrs[i]
  <2> DEFINE k == (i - 1) * m + 1
  <2>1. k \in 1..(m * n) /\ (k - 1) \div m = i - 1
    BY <1>1, RowStart
  <2> HIDE DEF k
  <2>2. l[k].addr = addrs[((k - 1) \div m) + 1]
    BY <1>2, <2>1
  <2>3. (i - 1) + 1 = i
    BY <1>1
  <2> QED
    BY <2>1, <2>2, <2>3
<1> QED
  BY <1>4, <1>7, <1>8 DEF l
LEMMA ByModeIs ==
    ASSUME NEW modes \in Seq(Mode), Len(modes) # 0, NEW addrs \in Seq(Addr)
    PROVE  /\ ByMode(modes, addrs) \in Seq(Candidate)
           /\ \A a \in ToSet(addrs) : \E k \in 1..Len(ByMode(modes, addrs)) :
                ByMode(modes, addrs)[k].addr = a
<1> DEFINE m == Len(modes)
           n == Len(addrs)
           l == ByMode(modes, addrs)
<1>1. m \in Nat \ {0} /\ n \in Nat /\ m * n \in Nat /\ m * n = n * m
  OBVIOUS
<1>2. l = [k \in 1..(m * n) |-> [mode |-> modes[((k - 1) \div n) + 1], addr |-> addrs[((k - 1) % n) + 1]]]
  BY DEF ByMode
<1>3. (\A j \in 1..m : modes[j] \in Mode) /\ \A j \in 1..n : addrs[j] \in Addr
  OBVIOUS
<1>4. ToSet(addrs) = {addrs[j] : j \in 1..n}
  BY DEF ToSet
<1> HIDE DEF m, n, l
<1>5. \A k \in 1..(m * n) : ((k - 1) \div n) + 1 \in 1..m /\ ((k - 1) % n) + 1 \in 1..n
  <2> TAKE k \in 1..(m * n)
  <2>0. n \in Nat \ {0} /\ k \in 1..(n * m)
    BY <1>1
  <2>1. (k - 1) % n \in 0..(n - 1) /\ (k - 1) \div n \in 0..(m - 1)
    BY <1>1, <2>0, Within
  <2> DEFINE u == (k - 1) % n
             v == (k - 1) \div n
  <2>2. u \in 0..(n - 1) /\ v \in 0..(m - 1)
    BY <2>1
  <2> HIDE DEF u, v
  <2>3. u + 1 \in 1..n /\ v + 1 \in 1..m
    BY <1>1, <2>2
  <2> QED
    BY <2>3 DEF u, v
<1>6. \A k \in 1..(m * n) :
        [mode |-> modes[((k - 1) \div n) + 1], addr |-> addrs[((k - 1) % n) + 1]] \in Candidate
  BY <1>3, <1>5 DEF Candidate
<1>7. l \in Seq(Candidate) /\ Len(l) = m * n
  <2> DEFINE N == m * n
             F(k) == [mode |-> modes[((k - 1) \div n) + 1], addr |-> addrs[((k - 1) % n) + 1]]
  <2>1. N \in Nat /\ l = [k \in 1..N |-> F(k)] /\ \A k \in 1..N : F(k) \in Candidate
    BY <1>1, <1>2, <1>6
  <2> HIDE DEF N, F
  <2>2. l \in Seq(Candidate) /\ Len(l) = N
    BY <2>1
  <2> QED
    BY <2>2 DEF N
<1>8. ASSUME NEW i \in 1..n PROVE \E k \in 1..(m * n) : l[k].addr = addrs[i]
  <2>1. i \in 1..(m * n) /\ (i - 1) % n = i - 1
    BY <1>1, FirstRow
  <2>2. l[i].addr = addrs[((i - 1) % n) + 1]
    BY <1>2, <2>1
  <2>3. (i - 1) + 1 = i
    BY <1>1
  <2> QED
    BY <2>1, <2>2, <2>3
<1> QED
  BY <1>4, <1>7, <1>8 DEF l

\* Short lists.
LEMMA Short ==
    ASSUME NEW X, NEW x \in X, NEW y \in X
    PROVE  /\ <<>> \in Seq(X) /\ Len(<<>>) = 0
           /\ <<x>> \in Seq(X) /\ Len(<<x>>) = 1
           /\ <<x, y>> \in Seq(X) /\ Len(<<x, y>>) = 2
OBVIOUS

\* The modes a host is dialled with: there is one at least.
LEMMA ModesType ==
    /\ SniList \in Seq(Mode) /\ Len(SniList) # 0
    /\ Modes \in Seq(Mode) /\ Len(Modes) # 0
<1>1. "no sni" \in Mode /\ "primary" \in Mode /\ "dialled" \in Mode
  BY DEF Mode
<1>2. /\ <<"primary">> \in Seq(Mode) /\ Len(<<"primary">>) = 1
      /\ <<"primary", "dialled">> \in Seq(Mode) /\ Len(<<"primary", "dialled">>) = 2
      /\ <<"no sni">> \in Seq(Mode) /\ <<>> \in Seq(Mode)
  BY <1>1, Short, Zenon
<1>3. SniList \in Seq(Mode) /\ Len(SniList) # 0
  <2>1. SniList = <<"primary">> \/ SniList = <<"primary", "dialled">>
    BY DEF SniList
  <2>2. Len(SniList) \in {1, 2} /\ SniList \in Seq(Mode)
    BY <1>2, <2>1, Zenon
  <2> QED
    BY <2>2
<1> DEFINE first == IF NoSniAllowed THEN <<"no sni">> ELSE <<>>
<1>4. first \in Seq(Mode)
  BY <1>2
<1>5. Modes = first \o SniList
  BY DEF Modes
<1> HIDE DEF first
<1>6. Modes \in Seq(Mode) /\ Len(Modes) # 0
  BY <1>3, <1>4, <1>5
<1> QED
  BY <1>3, <1>6

\* The addresses a request is laid out with.
LEMMA EndpointsType ==
    ASSUME lastGood \in Addr \cup {None}, NEW r \in Req, NEW ips \in Seq(Edge)
    PROVE  Endpoints(r, ips) \in Seq(Addr)
<1> DEFINE all == Manifest \o Without(ips, ToSet(Manifest))
           led == IF site.accelerated /\ lastGood # None
                  THEN <<lastGood>> \o Without(all, {lastGood}) ELSE all
<1>1. Edge \subseteq Addr /\ Unspecified \in Addr
  BY DEF Addr
<1>2. ips \in Seq(Addr) /\ Manifest \in Seq(Addr) /\ Published \in Seq(Addr)
  BY <1>1, SourceAssumption
<1>3. all \in Seq(Addr)
  BY <1>2, WithoutIs
<1> HIDE DEF all
<1>4. led \in Seq(Addr)
  <2>1. Without(all, {lastGood}) \in Seq(Addr)
    BY <1>3, WithoutIs
  <2> QED
    BY <1>3, <2>1
<1> HIDE DEF led
<1>5. Without(Published, ToSet(led)) \in Seq(Addr)
  BY <1>2, WithoutIs
<1>6. <<Unspecified>> \in Seq(Addr) /\ led \o Without(Published, ToSet(led)) \in Seq(Addr)
  BY <1>1, <1>4, <1>5
<1>7. Endpoints(r, ips) \in {<<Unspecified>>, led \o Without(Published, ToSet(led)), led}
  BY DEF Endpoints, led, all
<1> QED
  BY <1>4, <1>6, <1>7

\* The sources of the sequential loop.
LEMMA SourcesType ==
    ASSUME NEW r \in Req, NEW i \in DOMAIN Sources(r)
    PROVE  /\ Sources(r)[i].st \in Stage /\ Sources(r)[i].ips \in Seq(Edge)
           /\ Sources(r)[i].names \in Seq(Mode) /\ Len(Sources(r)[i].names) # 0
<1> DEFINE Src == [st : Stage, ips : Seq(Edge), names : Seq(Mode) \ {<<>>}]
           a == IF site.alias /\ ~via[r]
                THEN <<[st |-> "host", ips |-> HostDns, names |-> <<"primary">>]>> ELSE <<>>
           b == IF site.accelerated /\ ~via[r]
                THEN <<[st |-> "alias alts", ips |-> AliasAlts, names |-> SniList]>> ELSE <<>>
           c == IF site.accelerated /\ site.alias /\ ~via[r]
                THEN <<[st |-> "host alts", ips |-> HostAlts, names |-> <<"primary">>]>> ELSE <<>>
<1>1. HostDns \in Seq(Edge) /\ AliasAlts \in Seq(Edge) /\ HostAlts \in Seq(Edge)
  BY SourceAssumption
<1>2. SniList \in Seq(Mode) \ {<<>>} /\ <<"primary">> \in Seq(Mode) \ {<<>>}
  <2>1. "primary" \in Mode
    BY DEF Mode
  <2>2. <<"primary">> \in Seq(Mode) /\ <<"primary">> # <<>>
    BY <2>1
  <2>3. SniList # <<>>
    BY ModesType
  <2> QED
    BY <2>2, <2>3, ModesType
<1>3. a \in Seq(Src) /\ b \in Seq(Src) /\ c \in Seq(Src)
  <2>1. /\ [st |-> "host", ips |-> HostDns, names |-> <<"primary">>] \in Src
        /\ [st |-> "alias alts", ips |-> AliasAlts, names |-> SniList] \in Src
        /\ [st |-> "host alts", ips |-> HostAlts, names |-> <<"primary">>] \in Src
    BY <1>1, <1>2 DEF Stage
  <2>2. \A e \in Src : <<e>> \in Seq(Src) /\ <<>> \in Seq(Src)
    OBVIOUS
  <2> HIDE DEF Src
  <2>3. <<>> \in Seq(Src)
    OBVIOUS
  <2> QED
    BY <2>1, <2>2, <2>3
<1>4. Sources(r) = a \o b \o c
  BY DEF Sources
<1> HIDE DEF a, b, c
<1>5. Sources(r) \in Seq(Src)
  <2> HIDE DEF Src
  <2> QED
    BY <1>3, <1>4
<1>6. Sources(r)[i] \in Src
  <2> HIDE DEF Src
  <2> QED
    BY <1>5
<1> QED
  BY <1>6

-----------------------------------------------------------------------------
(* Steps that leave a request, or its connections, as they are.            *)

Same(s) ==
    /\ pc'[s] = pc[s] /\ kind'[s] = kind[s] /\ via'[s] = via[s]
    /\ todo'[s] = todo[s] /\ spare'[s] = spare[s] /\ flying'[s] = flying[s]
    /\ conn'[s] = conn[s] /\ answer'[s] = answer[s] /\ copies'[s] = copies[s]
    /\ headed'[s] = headed[s] /\ missed'[s] = missed[s]

\* What holds of a request alone is not another request's to break.
LEMMA AloneKept ==
    ASSUME NEW s \in Req, Same(s), site' = site, Alone(s)
    PROVE  Alone(s)'
<1>1. Flights(s)'
  BY DEF Same, Alone, Flights, Hedged, RaceSafe
<1>2. Copies(s)'
  <2>1. RetrySafe(kind[s])' <=> RetrySafe(kind[s])
    BY DEF Same, RetrySafe
  <2>2. /\ pc'[s] = pc[s] /\ conn'[s] = conn[s] /\ copies'[s] = copies[s]
        /\ headed'[s] = headed[s]
    BY DEF Same
  <2>3. Copies(s)
    BY DEF Alone
  <2> QED
    BY <2>1, <2>2, <2>3 DEF Copies
<1>3. Ahead(s)'
  <2>1. /\ pc'[s] = pc[s] /\ missed'[s] = missed[s] /\ todo'[s] = todo[s]
        /\ spare'[s] = spare[s] /\ answer'[s] = answer[s]
    BY DEF Same
  <2>2. Ahead(s)
    BY DEF Alone
  <2> QED
    BY <2>1, <2>2 DEF Ahead
<1> QED
  BY <1>1, <1>2, <1>3 DEF Alone

\* A request that uses no connection moves on without one.
LEMMA QuietMove ==
    ASSUME LocalType, Uses, Pools, NEW r \in Req,
           pc[r] \notin {"reuse", "stream", "done"}, pc'[r] \notin {"reuse", "stream"},
           \A s \in Req \ {r} : pc'[s] = pc[s],
           conn' = conn, dirty' = dirty, pool' = pool
    PROVE  Uses' /\ Pools'
<1>1. \A c, x : Made(c, x) => Made(c, x)'
  BY DEF Made
<1>2. Uses'
  BY <1>1 DEF Uses
<1>3. Pools'
  <2>1. \A i \in 1..Len(pool) : pool[i].conn.by \in Req /\ pool[i].conn.by # Past
            => pc'[pool[i].conn.by] = "done"
    BY <1>1 DEF Pools, PoolOf, Made
  <2> QED
    BY <2>1 DEF Pools, PoolOf, Made
<1> QED
  BY <1>2, <1>3

\* A request lets its connection go, if it has one.
LEMMA LetGo ==
    ASSUME SharedType, LocalType, Uses, Pools, NEW r \in Req,
           pc[r] # "done", pc'[r] \notin {"reuse", "stream"},
           \A s \in Req \ {r} : pc'[s] = pc[s] /\ conn'[s] = conn[s],
           conn'[r] = None, dirty' = dirty \ {conn[r]}
    PROVE  /\ Uses'
           /\ pool' = pool => Pools'
<1>1. \A c, x : Made(c, x) => Made(c, x)'
  BY DEF Made
<1>2. Uses'
  BY <1>1 DEF Uses
<1>3. ASSUME pool' = pool PROVE Pools'
  <2>1. \A i \in 1..Len(pool) : pool[i].conn # None
    <3>1. \A i \in 1..Len(pool) : pool[i] \in Entry
      BY DEF SharedType
    <3> QED
      BY <3>1, RequestAssumption DEF Entry
  <2>2. \A i \in 1..Len(pool), s \in Req : pool[i].conn # conn'[s]
    BY <2>1 DEF Pools, PoolOf
  <2> QED
    BY <1>1, <1>3, <2>2 DEF Pools, PoolOf
<1> QED
  BY <1>2, <1>3

\* The fresh connections of the pool are as far from anybody's use as the pool.
LEMMA FreshPool ==
    ASSUME SharedType, Pools
    PROVE  Fresh(pool) \in Seq(Entry) /\ Len(Fresh(pool)) <= PoolMax /\ PoolOf(Fresh(pool))
<1> DEFINE q == Fresh(pool)
<1>1. pool \in Seq(Entry) /\ Len(pool) <= PoolMax /\ PoolMax \in Nat
  BY RequestAssumption DEF SharedType
<1>2. /\ q \in Seq(Entry) /\ Len(q) <= Len(pool)
      /\ \E at \in [1..Len(q) -> 1..Len(pool)] :
           /\ \A n \in 1..Len(q) : q[n] = pool[at[n]]
           /\ \A n, k \in 1..Len(q) : at[n] = at[k] => n = k
  BY <1>1, FreshIs
<1> HIDE DEF q
<1>3. PICK at \in [1..Len(q) -> 1..Len(pool)] :
           /\ \A n \in 1..Len(q) : q[n] = pool[at[n]]
           /\ \A n, k \in 1..Len(q) : at[n] = at[k] => n = k
  BY <1>2
<1>4. PoolOf(q)
  <2>0. \A n \in 1..Len(q) : at[n] \in 1..Len(pool)
    OBVIOUS
  <2>1. \A n \in 1..Len(q) : Made(q[n].conn, Past)
    BY <1>3, <2>0 DEF Pools, PoolOf
  <2>2. \A n, k \in 1..Len(q) : q[n].conn = q[k].conn => n = k
    BY <1>3, <2>0 DEF Pools, PoolOf
  <2>3. \A n \in 1..Len(q), r \in Req : q[n].conn # conn[r]
    BY <1>3, <2>0 DEF Pools, PoolOf
  <2> QED
    BY <2>1, <2>2, <2>3 DEF PoolOf
<1>5. Len(q) <= PoolMax
  BY <1>1, <1>2
<1> QED
  BY <1>2, <1>4, <1>5 DEF q

-----------------------------------------------------------------------------
(* The steps of the candidates.                                            *)

\* An attempt that fails is the only thing to go.
LEMMA AttemptFails ==
    ASSUME IInv, NEW r \in Req, NEW c \in flying[r],
           flying' = [flying EXCEPT ![r] = @ \ {c}],
           UNCHANGED <<shared, pc, kind, via, todo, spare, stage, tried, conn, answer, history>>
    PROVE  IInv'
<1>1. Typed /\ Uses /\ Pools /\ \A s \in Req : Alone(s)
  BY DEF IInv
<1>2. SharedType'
  BY <1>1 DEF Typed, SharedType, shared, history
<1>3. LocalType'
  BY <1>1 DEF Typed, LocalType, history
<1>4. flying'[r] = flying[r] \ {c} /\ \A s \in Req \ {r} : flying'[s] = flying[s]
  BY <1>1 DEF Typed, LocalType
<1>5. pc' = pc /\ conn' = conn /\ dirty' = dirty /\ pool' = pool /\ site' = site
  BY DEF shared, history
<1>6. Uses' /\ Pools'
  BY <1>1, <1>5 DEF Uses, Pools, PoolOf, Made
<1>7. Alone(r)'
  <2>1. Flights(r)'
    BY <1>1, <1>4, <1>5 DEF Alone, Flights, Hedged, RaceSafe
  <2>2. Copies(r)'
    BY <1>1, <1>5 DEF Alone, Copies, RetrySafe, history
  <2>3. Ahead(r)'
    BY <1>1, <1>5 DEF Alone, Ahead, history
  <2> QED
    BY <2>1, <2>2, <2>3 DEF Alone
<1>8. ASSUME NEW s \in Req \ {r} PROVE Alone(s)'
  <2>1. Same(s)
    BY <1>4 DEF Same, history
  <2> QED
    BY <1>1, <1>5, <2>1, AloneKept
<1> QED
  BY <1>2, <1>3, <1>6, <1>7, <1>8 DEF IInv, Typed

\* The next candidate of a request is no longer ahead, nor is its address missed.
LEMMA StartKeeps ==
    ASSUME IInv, NEW r \in Req, Start(r)
    PROVE  IInv'
<1>1. Typed /\ Uses /\ Pools /\ \A s \in Req : Alone(s)
  BY DEF IInv
<1> DEFINE h == Head(todo[r])
           n == Len(todo[r])
<1>2. /\ n \in Nat /\ n # 0 /\ h = todo[r][1]
      /\ \A i \in 1..n : todo[r][i] \in Candidate
      /\ Tail(todo[r]) \in Seq(Candidate) /\ Len(Tail(todo[r])) = n - 1
      /\ \A i \in 1..(n - 1) : Tail(todo[r])[i] = todo[r][i + 1]
  BY <1>1 DEF Start, Typed, LocalType
<1>3. /\ pc[r] \in {"dial", "hedge"} /\ (pc[r] = "dial" => flying[r] = {})
      /\ flying' = [flying EXCEPT ![r] = @ \cup {h}]
      /\ missed' = [missed EXCEPT ![r] = @ \ {h.addr}]
      /\ todo' = [todo EXCEPT ![r] = Tail(@)]
      /\ UNCHANGED <<site, agent, lastGood, pool, pc, kind, via, spare, stage, tried, conn, answer,
                     dirty, copies, headed>>
  BY DEF Start, shared
<1> HIDE DEF h, n
<1>4. SharedType'
  BY <1>1, <1>3 DEF Typed, SharedType
<1>5. h \in Candidate
  BY <1>2
<1>6. /\ flying'[r] = flying[r] \cup {h} /\ missed'[r] = missed[r] \ {h.addr}
      /\ todo'[r] = Tail(todo[r])
      /\ \A s \in Req \ {r} : flying'[s] = flying[s] /\ missed'[s] = missed[s] /\ todo'[s] = todo[s]
  BY <1>1, <1>3 DEF Typed, LocalType
<1>7. LocalType'
  BY <1>1, <1>2, <1>3, <1>5 DEF Typed, LocalType
<1>8. Uses' /\ Pools'
  BY <1>1, <1>3 DEF Uses, Pools, PoolOf, Made
<1>9. Alone(r)'
  <2>1. Flights(r)'
    BY <1>1, <1>3, <1>6 DEF Alone, Flights, Hedged, RaceSafe
  <2>2. Copies(r)'
    BY <1>1, <1>3 DEF Alone, Copies, RetrySafe
  <2>3. ASSUME NEW a \in missed'[r]
        PROVE  \/ \E i \in 1..(n - 1) : todo[r][i + 1].addr = a
               \/ \E c \in spare[r] : c.addr = a
    <3>1. a \in missed[r] /\ a # h.addr
      BY <1>6
    <3>2. (\E i \in 1..n : todo[r][i].addr = a) \/ \E c \in spare[r] : c.addr = a
      BY <1>1, <1>3, <3>1 DEF Alone, Ahead, n
    <3>3. ASSUME NEW i \in 1..n, todo[r][i].addr = a PROVE \E k \in 1..(n - 1) : todo[r][k + 1].addr = a
      <4>1. i # 1
        BY <1>2, <3>1, <3>3
      <4>2. (i - 1) \in 1..(n - 1) /\ (i - 1) + 1 = i
        BY <1>2, <4>1
      <4> QED
        BY <3>3, <4>2
    <3> QED
      BY <3>2, <3>3
  <2>4. Ahead(r)'
    <3>1. /\ pc[r] # "done" => answer[r] = "none"
          /\ answer[r] = "502 spent" => missed[r] = {}
      BY <1>1 DEF Alone, Ahead
    <3>2. Len(todo'[r]) = n - 1 /\ \A i \in 1..(n - 1) : todo'[r][i] = todo[r][i + 1]
      BY <1>2, <1>6
    <3>3. \A a \in missed'[r] : \/ \E i \in 1..Len(todo'[r]) : todo'[r][i].addr = a
                              \/ \E c \in spare'[r] : c.addr = a
      BY <1>3, <2>3, <3>2
    <3>4. missed'[r] \subseteq missed[r]
      BY <1>6
    <3> QED
      BY <1>3, <3>1, <3>3, <3>4 DEF Ahead
  <2> QED
    BY <2>1, <2>2, <2>4 DEF Alone
<1>10. ASSUME NEW s \in Req \ {r} PROVE Alone(s)'
  <2>1. Same(s)
    BY <1>3, <1>6 DEF Same
  <2> QED
    BY <1>1, <1>3, <2>1, AloneKept
<1> QED
  BY <1>4, <1>7, <1>8, <1>9, <1>10 DEF IInv, Typed

\* The second wave is dialled at once.
LEMMA SecondWaveKeeps ==
    ASSUME IInv, NEW r \in Req, SecondWave(r)
    PROVE  IInv'
<1>1. Typed /\ Uses /\ Pools /\ \A s \in Req : Alone(s)
  BY DEF IInv
<1> DEFINE out == {c.addr : c \in spare[r]}
<1>2. /\ pc[r] = "hedge"
      /\ flying' = [flying EXCEPT ![r] = @ \cup spare[r]]
      /\ missed' = [missed EXCEPT ![r] = @ \ out]
      /\ spare' = [spare EXCEPT ![r] = {}]
      /\ UNCHANGED <<site, agent, lastGood, pool, pc, kind, via, todo, stage, tried, conn, answer,
                     dirty, copies, headed>>
  BY DEF SecondWave, shared
<1>3. \A c \in spare[r] : c.addr \in out
  OBVIOUS
<1> HIDE DEF out
<1>4. SharedType'
  BY <1>1, <1>2 DEF Typed, SharedType
<1>5. /\ flying'[r] = flying[r] \cup spare[r] /\ missed'[r] = missed[r] \ out /\ spare'[r] = {}
      /\ \A s \in Req \ {r} : flying'[s] = flying[s] /\ missed'[s] = missed[s] /\ spare'[s] = spare[s]
  BY <1>1, <1>2 DEF Typed, LocalType
<1>6. LocalType'
  BY <1>1, <1>2 DEF Typed, LocalType
<1>7. Uses' /\ Pools'
  BY <1>1, <1>2 DEF Uses, Pools, PoolOf, Made
<1>8. Alone(r)'
  <2>1. Flights(r)'
    BY <1>1, <1>2, <1>5 DEF Alone, Flights, Hedged, RaceSafe
  <2>2. Copies(r)'
    BY <1>1, <1>2 DEF Alone, Copies, RetrySafe
  <2>3. Ahead(r)'
    <3>1. \A a \in missed[r] : (\E i \in 1..Len(todo[r]) : todo[r][i].addr = a) \/ a \in out
      BY <1>1, <1>2, <1>3 DEF Alone, Ahead
    <3>2. /\ pc[r] # "done" => answer[r] = "none"
          /\ answer[r] = "502 spent" => missed[r] = {}
      BY <1>1 DEF Alone, Ahead
    <3> QED
      BY <1>2, <1>5, <3>1, <3>2 DEF Ahead
  <2> QED
    BY <2>1, <2>2, <2>3 DEF Alone
<1>9. ASSUME NEW s \in Req \ {r} PROVE Alone(s)'
  <2>1. Same(s)
    BY <1>2, <1>5 DEF Same
  <2> QED
    BY <1>1, <1>2, <2>1, AloneKept
<1> QED
  BY <1>4, <1>6, <1>7, <1>8, <1>9 DEF IInv, Typed

\* The list is laid out anew: every address of it is ahead.
LEMMA MoreKeeps ==
    ASSUME IInv, NEW r \in Req, More(r)
    PROVE  IInv'
<1>1. Typed /\ Uses /\ Pools /\ \A s \in Req : Alone(s)
  BY DEF IInv
<1> DEFINE k == NextSource(r)
           src == Sources(r)[k]
<1>2. /\ pc[r] = "dial" /\ todo[r] = <<>> /\ flying[r] = {}
      /\ k \in DOMAIN Sources(r)
      /\ UNCHANGED <<site, agent, lastGood, pool, pc, kind, via, spare, flying, conn, answer,
                     dirty, copies, headed>>
  BY DEF More, shared
<1>3. PICK ips \in {src.ips, <<>>} :
        /\ stage' = [stage EXCEPT ![r] = src.st]
        /\ tried' = [tried EXCEPT ![r] = @ \cup ToSet(Without(ips, tried[r]))]
        /\ missed' = [missed EXCEPT ![r] = @ \cup ToSet(Without(ips, tried[r]))]
        /\ todo' = [todo EXCEPT ![r] = ByAddr(src.names, Without(ips, tried[r]))]
  BY DEF More
<1> DEFINE new == Without(ips, tried[r])
           l == ByAddr(src.names, new)
<1>4. src.st \in Stage /\ src.ips \in Seq(Edge) /\ src.names \in Seq(Mode) /\ Len(src.names) # 0
  BY <1>2, SourcesType
<1> HIDE DEF k, src
<1>5. new \in Seq(Addr)
  <2>0. <<>> \in Seq(Edge)
    OBVIOUS
  <2>1. ips \in Seq(Edge)
    BY <1>3, <1>4, <2>0
  <2>2. ips \in Seq(Addr)
    BY <2>1 DEF Addr
  <2> QED
    BY <2>2, WithoutIs
<1> HIDE DEF new
<1>6. l \in Seq(Candidate) /\ \A a \in ToSet(new) : \E i \in 1..Len(l) : l[i].addr = a
  BY <1>4, <1>5, ByAddrIs
<1>7. ToSet(new) \subseteq Addr
  BY <1>5 DEF ToSet
<1>8. /\ stage' = [stage EXCEPT ![r] = src.st]
      /\ tried' = [tried EXCEPT ![r] = @ \cup ToSet(new)]
      /\ missed' = [missed EXCEPT ![r] = @ \cup ToSet(new)]
      /\ todo' = [todo EXCEPT ![r] = l]
  BY <1>3 DEF new
<1> HIDE DEF l
<1>9. SharedType'
  BY <1>1, <1>2 DEF Typed, SharedType
<1>10. /\ todo'[r] = l /\ missed'[r] = missed[r] \cup ToSet(new)
       /\ \A s \in Req \ {r} : missed'[s] = missed[s] /\ todo'[s] = todo[s]
  BY <1>1, <1>8 DEF Typed, LocalType
<1>11. LocalType'
  BY <1>1, <1>2, <1>4, <1>6, <1>7, <1>8 DEF Typed, LocalType
<1>12. Uses' /\ Pools'
  BY <1>1, <1>2 DEF Uses, Pools, PoolOf, Made
<1>13. Alone(r)'
  <2>1. Flights(r)'
    BY <1>1, <1>2 DEF Alone, Flights, Hedged, RaceSafe
  <2>2. Copies(r)'
    BY <1>1, <1>2 DEF Alone, Copies, RetrySafe
  <2>3. Ahead(r)'
    <3>1. missed[r] = {}
      <4>1. Len(todo[r]) = 0 /\ spare[r] = {}
        BY <1>1, <1>2 DEF Alone, Flights
      <4>2. \A a \in missed[r] : \E i \in 1..0 : todo[r][i].addr = a
        BY <1>1, <1>2, <4>1 DEF Alone, Ahead
      <4> QED
        BY <4>2
    <3>2. answer[r] = "none"
      BY <1>1, <1>2 DEF Alone, Ahead
    <3> QED
      BY <1>2, <1>6, <1>10, <3>1, <3>2 DEF Ahead
  <2> QED
    BY <2>1, <2>2, <2>3 DEF Alone
<1>14. ASSUME NEW s \in Req \ {r} PROVE Alone(s)'
  <2>1. Same(s)
    BY <1>2, <1>10 DEF Same
  <2> QED
    BY <1>1, <1>2, <2>1, AloneKept
<1> QED
  BY <1>9, <1>11, <1>12, <1>13, <1>14 DEF IInv, Typed

\* The candidates are laid out: every address known is ahead, in the list or in
\* the second wave.
LEMMA PlanKeeps ==
    ASSUME IInv, NEW r \in Req, Plan(r)
    PROVE  IInv'
<1>1. Typed /\ Uses /\ Pools /\ \A s \in Req : Alone(s)
  BY DEF IInv
<1>2. /\ pc[r] = "resolve"
      /\ pc' = [pc EXCEPT ![r] = IF Hedged(r) THEN "hedge" ELSE "dial"]
      /\ UNCHANGED <<site, agent, lastGood, pool, kind, via, stage, flying, conn, answer,
                     dirty, copies, headed>>
  BY DEF Plan, shared
<1> DEFINE addrs(ips) == Endpoints(r, ips)
           seen(ips) == ToSet(ips) \cup ToSet(addrs(ips))
           wave(ips) == IF Hedged(r) THEN Without(Published, seen(ips)) ELSE <<>>
<1>3. PICK ips \in {Dns, <<>>} :
        /\ tried' = [tried EXCEPT ![r] = seen(ips)]
        /\ missed' = [missed EXCEPT ![r] = ToSet(addrs(ips)) \cup ToSet(wave(ips))]
        /\ todo' = [todo EXCEPT ![r] =
               IF Hedged(r) THEN ByAddr(Modes, addrs(ips)) ELSE ByMode(Modes, addrs(ips))]
        /\ spare' = [spare EXCEPT ![r] = ToSet(ByAddr(Modes, wave(ips)))]
  BY DEF Plan
<1> DEFINE al == addrs(ips)
           wl == wave(ips)
           sl == seen(ips)
           tl == IF Hedged(r) THEN ByAddr(Modes, al) ELSE ByMode(Modes, al)
           sp == ToSet(ByAddr(Modes, wl))
<1>4. /\ tried' = [tried EXCEPT ![r] = sl]
      /\ missed' = [missed EXCEPT ![r] = ToSet(al) \cup ToSet(wl)]
      /\ todo' = [todo EXCEPT ![r] = tl]
      /\ spare' = [spare EXCEPT ![r] = sp]
  BY <1>3
<1>5. ips \in Seq(Edge) /\ ips \in Seq(Addr) /\ Published \in Seq(Addr)
  <2>1. Edge \subseteq Addr
    BY DEF Addr
  <2>2. <<>> \in Seq(Edge)
    OBVIOUS
  <2>3. Dns \in Seq(Edge) /\ Published \in Seq(Edge)
    BY SourceAssumption
  <2>4. ips \in Seq(Edge)
    BY <1>3, <2>2, <2>3
  <2> QED
    BY <2>1, <2>3, <2>4
<1>6. al \in Seq(Addr)
  <2>1. lastGood \in Addr \cup {None}
    BY <1>1 DEF Typed, SharedType
  <2> QED
    BY <1>5, <2>1, EndpointsType
<1>7. sl \in SUBSET Addr
  BY <1>5, <1>6 DEF ToSet
<1>8. wl \in Seq(Addr) /\ (~Hedged(r) => wl = <<>>)
  <2>1. Without(Published, sl) \in Seq(Addr)
    BY <1>5, WithoutIs
  <2>2. <<>> \in Seq(Addr)
    OBVIOUS
  <2> QED
    BY <2>1, <2>2
<1> HIDE DEF addrs, seen, wave, al, wl, sl
<1>9. tl \in Seq(Candidate) /\ \A a \in ToSet(al) : \E i \in 1..Len(tl) : tl[i].addr = a
  BY <1>6, ModesType, ByAddrIs, ByModeIs
<1>10. sp \in SUBSET Candidate /\ \A a \in ToSet(wl) : \E c \in sp : c.addr = a
  <2> DEFINE l == ByAddr(Modes, wl)
  <2>1. l \in Seq(Candidate) /\ \A a \in ToSet(wl) : \E i \in 1..Len(l) : l[i].addr = a
    BY <1>8, ModesType, ByAddrIs
  <2> HIDE DEF l
  <2>2. ToSet(l) \subseteq Candidate /\ \A i \in 1..Len(l) : l[i] \in ToSet(l)
    BY <2>1 DEF ToSet
  <2>3. \A a \in ToSet(wl) : \E c \in ToSet(l) : c.addr = a
    BY <2>1, <2>2
  <2> QED
    BY <2>2, <2>3 DEF l
<1>11. ~Hedged(r) => sp = {}
  <2> SUFFICES ASSUME ~Hedged(r) PROVE sp = {}
    OBVIOUS
  <2>1. wl = <<>> /\ Len(<<>>) = 0
    BY <1>8
  <2>2. Len(Modes) * Len(<<>>) = 0
    BY ModesType, <2>1
  <2>3. DOMAIN ByAddr(Modes, <<>>) = 1..0
    BY <2>2 DEF ByAddr
  <2> QED
    BY <2>1, <2>3 DEF ToSet
<1>12. ToSet(al) \subseteq Addr /\ ToSet(wl) \subseteq Addr
  BY <1>6, <1>8 DEF ToSet
<1> HIDE DEF tl, sp
<1>13. SharedType'
  BY <1>1, <1>2 DEF Typed, SharedType
<1>14. /\ todo'[r] = tl /\ missed'[r] = ToSet(al) \cup ToSet(wl) /\ spare'[r] = sp
       /\ pc'[r] = IF Hedged(r) THEN "hedge" ELSE "dial"
       /\ \A s \in Req \ {r} : /\ missed'[s] = missed[s] /\ todo'[s] = todo[s]
                               /\ spare'[s] = spare[s] /\ pc'[s] = pc[s]
  BY <1>1, <1>2, <1>4 DEF Typed, LocalType
<1>15. LocalType'
  <2>1. pc' \in [Req -> Phase]
    BY <1>1, <1>2 DEF Typed, LocalType, Phase
  <2>2. /\ tried' \in [Req -> SUBSET Addr] /\ missed' \in [Req -> SUBSET Addr]
        /\ todo' \in [Req -> Seq(Candidate)] /\ spare' \in [Req -> SUBSET Candidate]
    BY <1>1, <1>4, <1>7, <1>9, <1>10, <1>12 DEF Typed, LocalType
  <2> QED
    BY <1>1, <1>2, <2>1, <2>2 DEF Typed, LocalType
<1>16. Uses' /\ Pools'
  BY <1>1, <1>2, <1>14, QuietMove DEF Typed
<1>17. Alone(r)'
  <2>1. Hedged(r)' <=> Hedged(r)
    BY <1>2 DEF Hedged, RaceSafe
  <2>2. Flights(r)'
    <3>1. flying'[r] = {}
      BY <1>1, <1>2 DEF Alone, Flights
    <3> QED
      BY <1>11, <1>14, <2>1, <3>1 DEF Flights
  <2>3. Copies(r)'
    <3>1. pc[r] = "resolve" /\ pc'[r] \in {"dial", "hedge"}
      BY <1>2, <1>14
    <3> QED
      BY <1>1, <1>2, <3>1 DEF Alone, Copies, RetrySafe
  <2>4. Ahead(r)'
    <3>1. answer[r] = "none"
      BY <1>1, <1>2 DEF Alone, Ahead
    <3> QED
      BY <1>2, <1>9, <1>10, <1>14, <3>1 DEF Ahead
  <2> QED
    BY <2>2, <2>3, <2>4 DEF Alone
<1>18. ASSUME NEW s \in Req \ {r} PROVE Alone(s)'
  <2>1. Same(s)
    BY <1>2, <1>14 DEF Same
  <2> QED
    BY <1>1, <1>2, <2>1, AloneKept
<1> QED
  BY <1>13, <1>15, <1>16, <1>17, <1>18 DEF IInv, Typed

\* An answer is adopted: the race is over, and the connection is its own.
LEMMA AdoptKeeps ==
    ASSUME IInv, NEW r \in Req, NEW c \in flying[r], Adopt(r, c)
    PROVE  IInv'
<1>1. Typed /\ Uses /\ Pools /\ \A s \in Req : Alone(s)
  BY DEF IInv
<1>0. PICK o : o = OnConn(r, c)
  OBVIOUS
<1>2. /\ conn' = [conn EXCEPT ![r] = o]
      /\ dirty' = dirty \cup {o}
      /\ pc' = [pc EXCEPT ![r] = "stream"]
      /\ flying' = [flying EXCEPT ![r] = {}]
      /\ todo' = [todo EXCEPT ![r] = <<>>]
      /\ spare' = [spare EXCEPT ![r] = {}]
      /\ UNCHANGED <<site, agent, lastGood, pool, kind, via, stage, tried, answer, headed, missed>>
      /\ copies' = IF RetrySafe(kind[r]) THEN copies ELSE [copies EXCEPT ![r] = @ \cup {o}]
  BY <1>0 DEF Adopt, Adopted, Written
<1>3. pc[r] \in {"dial", "hedge"} /\ conn[r] = None
  <2>1. pc[r] \in {"dial", "hedge"}
    BY <1>1 DEF Alone, Flights
  <2> QED
    BY <1>1, <2>1 DEF Uses
<1>4. c \in Candidate
  BY <1>1 DEF Typed, LocalType
<1>5. o \in Conn /\ o.by = r /\ o # None /\ r # Past
  BY <1>0, <1>4, RequestAssumption DEF OnConn, Conn, Candidate
<1>6. /\ conn'[r] = o /\ pc'[r] = "stream" /\ flying'[r] = {}
      /\ copies'[r] = IF RetrySafe(kind[r]) THEN copies[r] ELSE copies[r] \cup {o}
      /\ \A s \in Req \ {r} : /\ conn'[s] = conn[s] /\ pc'[s] = pc[s] /\ flying'[s] = flying[s]
                              /\ todo'[s] = todo[s] /\ spare'[s] = spare[s] /\ copies'[s] = copies[s]
  BY <1>1, <1>2 DEF Typed, LocalType
<1>7. SharedType'
  BY <1>1, <1>2, <1>5 DEF Typed, SharedType
<1>8. LocalType'
  <2>1. pc' \in [Req -> Phase] /\ conn' \in [Req -> Conn \cup {None}] /\ copies' \in [Req -> SUBSET Conn]
    BY <1>1, <1>2, <1>5 DEF Typed, LocalType, Phase
  <2>2. <<>> \in Seq(Candidate)
    OBVIOUS
  <2> QED
    BY <1>1, <1>2, <2>1, <2>2 DEF Typed, LocalType
<1>9. \A d, x : Made(d, x) => Made(d, x)'
  BY <1>3, <1>6 DEF Made
<1>10. \A d, x : Made(d, x) /\ x \in {Past} \cup (Req \ {r}) => d # o
  BY <1>3, <1>5 DEF Made
<1>11. Uses'
  <2>1. \A s \in Req : conn'[s] # None <=> pc'[s] \in {"reuse", "stream"}
    BY <1>1, <1>5, <1>6 DEF Uses
  <2>2. \A s \in Req : conn'[s] # None => Made(conn[s], s)'
    <3>1. ASSUME NEW s \in Req \ {r}, conn'[s] # None PROVE Made(conn[s], s)'
      <4>1. Made(conn[s], s)
        BY <1>1, <1>6, <3>1 DEF Uses
      <4> QED
        BY <1>3, <1>6, <3>1, <4>1 DEF Made
    <3>2. Made(conn[r], r)'
      BY <1>5, <1>6 DEF Made
    <3> QED
      BY <3>1, <3>2
  <2>3. \A s \in Req \ {r} : conn[s] # o
    BY <1>1, <1>5, <1>10 DEF Uses
  <2>4. \A s, u \in Req : conn'[s] # None /\ conn'[s] = conn'[u] => s = u
    BY <1>1, <1>6, <2>3 DEF Uses
  <2>5. \A d \in dirty' : \E s \in Req : conn'[s] = d
    <3>1. \A d \in dirty : \E s \in Req : conn[s] = d /\ d # None
      BY <1>1, RequestAssumption DEF Uses, Typed, SharedType
    <3>2. \A d \in dirty : \E s \in Req \ {r} : conn[s] = d
      BY <1>3, <3>1
    <3> QED
      BY <1>2, <1>6, <3>2
  <2> QED
    BY <2>1, <2>2, <2>4, <2>5 DEF Uses
<1>12. Pools'
  <2>0. \A i \in 1..Len(pool) : Made(pool[i].conn, Past)
    BY <1>1 DEF Pools, PoolOf
  <2>1. \A i \in 1..Len(pool) : Made(pool[i].conn, Past)' /\ pool[i].conn # o
    BY <1>2, <1>3, <1>6, <1>10, <2>0 DEF Made
  <2>2. \A i \in 1..Len(pool), s \in Req : pool[i].conn # conn'[s]
    BY <1>1, <1>6, <2>1 DEF Pools, PoolOf
  <2> QED
    BY <1>1, <1>2, <2>1, <2>2 DEF Pools, PoolOf
<1>13. Alone(r)'
  <2>1. Flights(r)'
    BY <1>6 DEF Flights
  <2>2. Copies(r)'
    <3>1. /\ RetrySafe(kind[r]) => copies[r] = {}
          /\ \A d \in copies[r] : d.by # r
          /\ copies[r] = {} \/ headed[r] = TRUE
      BY <1>1, <1>3 DEF Alone, Copies
    <3>2. RetrySafe(kind[r])' <=> RetrySafe(kind[r])
      BY <1>2 DEF RetrySafe
    <3>3. \A d \in copies'[r] : d.by = r => d = o
      BY <1>6, <3>1
    <3>4. copies'[r] \subseteq {o} \/ headed'[r] = TRUE
      BY <1>2, <1>6, <3>1
    <3>5. RetrySafe(kind[r]) => copies'[r] = {}
      BY <1>6, <3>1
    <3> QED
      BY <1>6, <3>2, <3>3, <3>4, <3>5 DEF Copies
  <2>3. Ahead(r)'
    BY <1>1, <1>2, <1>3, <1>6 DEF Alone, Ahead
  <2> QED
    BY <2>1, <2>2, <2>3 DEF Alone
<1>14. ASSUME NEW s \in Req \ {r} PROVE Alone(s)'
  <2>1. Same(s)
    BY <1>2, <1>6 DEF Same
  <2> QED
    BY <1>1, <1>2, <2>1, AloneKept
<1> QED
  BY <1>7, <1>8, <1>11, <1>12, <1>13, <1>14 DEF IInv, Typed

-----------------------------------------------------------------------------
(* The steps that end a request.                                           *)

LEMMA NothingTodo == <<>> \in Seq(Candidate)
OBVIOUS

\* Nothing of an ended request is left, and a spent one has dialled everything.
LEMMA Ending ==
    ASSUME Typed, \A s \in Req : Alone(s), NEW r \in Req,
           NEW how \in {"502", "502 spent", "whole", "cut"}, Ended(r, how),
           how = "502 spent" => missed[r] = {}, site' = site
    PROVE  /\ LocalType' /\ \A s \in Req : Alone(s)'
           /\ pc'[r] = "done" /\ conn'[r] = None
           /\ \A s \in Req \ {r} : pc'[s] = pc[s] /\ conn'[s] = conn[s]
<1>1. /\ pc' = [pc EXCEPT ![r] = "done"] /\ answer' = [answer EXCEPT ![r] = how]
      /\ kind' = [kind EXCEPT ![r] = NoKind] /\ via' = [via EXCEPT ![r] = FALSE]
      /\ todo' = [todo EXCEPT ![r] = <<>>] /\ spare' = [spare EXCEPT ![r] = {}]
      /\ stage' = [stage EXCEPT ![r] = "known"] /\ tried' = [tried EXCEPT ![r] = {}]
      /\ flying' = [flying EXCEPT ![r] = {}] /\ conn' = [conn EXCEPT ![r] = None]
      /\ copies' = [copies EXCEPT ![r] = {}] /\ headed' = [headed EXCEPT ![r] = FALSE]
      /\ missed' = [missed EXCEPT ![r] = IF how = "502 spent" THEN @ ELSE {}]
  BY DEF Ended
<1>2. LocalType'
  <2>1. pc' \in [Req -> Phase] /\ answer' \in [Req -> Answers] /\ stage' \in [Req -> Stage]
    BY <1>1 DEF Typed, LocalType, Phase, Answers, Stage
  <2>2. kind' \in [Req -> Kind]
    <3>1. NoKind \in Kind
      BY DEF NoKind, Kind
    <3> QED
      BY <1>1, <3>1 DEF Typed, LocalType
  <2>3. <<>> \in Seq(Candidate)
    BY NothingTodo, Zenon
  <2>4. via' \in [Req -> BOOLEAN] /\ headed' \in [Req -> BOOLEAN]
    BY <1>1 DEF Typed, LocalType
  <2>5. /\ todo' \in [Req -> Seq(Candidate)] /\ spare' \in [Req -> SUBSET Candidate]
        /\ tried' \in [Req -> SUBSET Addr] /\ flying' \in [Req -> SUBSET Candidate]
        /\ conn' \in [Req -> Conn \cup {None}] /\ copies' \in [Req -> SUBSET Conn]
        /\ missed' \in [Req -> SUBSET Addr]
    BY <1>1, <2>3 DEF Typed, LocalType
  <2> QED
    BY <2>1, <2>2, <2>4, <2>5 DEF LocalType
<1>3. /\ pc'[r] = "done" /\ answer'[r] = how /\ flying'[r] = {} /\ conn'[r] = None
      /\ copies'[r] = {} /\ missed'[r] = IF how = "502 spent" THEN missed[r] ELSE {}
  BY <1>1 DEF Typed, LocalType
<1>4. ASSUME NEW s \in Req \ {r} PROVE Same(s)
  BY <1>1 DEF Typed, LocalType, Same
<1>5. Alone(r)'
  <2>1. Flights(r)'
    BY <1>3 DEF Flights
  <2>2. Copies(r)'
    BY <1>3 DEF Copies
  <2>3. Ahead(r)'
    BY <1>3 DEF Ahead
  <2> QED
    BY <2>1, <2>2, <2>3 DEF Alone
<1>6. ASSUME NEW s \in Req \ {r} PROVE Alone(s)'
  BY <1>4, <1>6, AloneKept
<1>7. \A s \in Req \ {r} : pc'[s] = pc[s] /\ conn'[s] = conn[s]
  BY <1>4 DEF Same
<1> QED
  BY <1>2, <1>3, <1>5, <1>6, <1>7

\* A request that has no connection is refused.
LEMMA RefuseKeeps ==
    ASSUME IInv, NEW r \in Req, NEW how \in {"502", "502 spent"}, Refuse(r, how),
           pc[r] \in {"resolve", "dial", "hedge"}, how = "502 spent" => missed[r] = {}
    PROVE  IInv'
<1>1. Typed /\ Uses /\ Pools /\ \A s \in Req : Alone(s)
  BY DEF IInv
<1>2. /\ Ended(r, how) /\ site' = site /\ agent' = agent /\ pool' = pool /\ dirty' = dirty
      /\ lastGood' = IF via[r] THEN lastGood ELSE None
  BY DEF Refuse
<1>3. SharedType'
  BY <1>1, <1>2 DEF Typed, SharedType
<1>4. /\ LocalType' /\ \A s \in Req : Alone(s)'
      /\ pc'[r] = "done" /\ conn'[r] = None
      /\ \A s \in Req \ {r} : pc'[s] = pc[s] /\ conn'[s] = conn[s]
  BY <1>1, <1>2, Ending
<1>5. conn[r] = None
  BY <1>1 DEF Uses
<1>6. dirty' = dirty \ {conn[r]}
  BY <1>1, <1>2, <1>5, RequestAssumption DEF Typed, SharedType
<1>7. Uses' /\ Pools'
  BY <1>1, <1>2, <1>4, <1>6, LetGo DEF Typed
<1> QED
  BY <1>3, <1>4, <1>7 DEF IInv, Typed

\* Spent means that nothing is ahead.
LEMMA SpentIs ==
    ASSUME IInv, NEW r \in Req, pc[r] \in {"dial", "hedge"}, Spent(r)
    PROVE  missed[r] = {}
<1>1. Alone(r)
  BY DEF IInv
<1>2. todo[r] = <<>> /\ spare[r] = {}
  BY <1>1 DEF Spent, Alone, Flights
<1>3. Len(todo[r]) = 0
  BY <1>2
<1>4. \A a \in missed[r] : \E i \in 1..0 : todo[r][i].addr = a
  BY <1>1, <1>2, <1>3 DEF Alone, Ahead
<1> QED
  BY <1>4

\* A connection is dropped with the request that used it.
LEMMA DropKeeps ==
    ASSUME IInv, NEW r \in Req, NEW how \in {"502", "cut"}, Ended(r, how),
           pc[r] \in {"reuse", "stream"}, dirty' = dirty \ {conn[r]}, UNCHANGED shared
    PROVE  IInv'
<1>1. Typed /\ Uses /\ Pools /\ \A s \in Req : Alone(s)
  BY DEF IInv
<1>2. site' = site /\ agent' = agent /\ pool' = pool /\ lastGood' = lastGood
  BY DEF shared
<1>3. SharedType'
  BY <1>1, <1>2 DEF Typed, SharedType
<1>4. /\ LocalType' /\ \A s \in Req : Alone(s)'
      /\ pc'[r] = "done" /\ conn'[r] = None
      /\ \A s \in Req \ {r} : pc'[s] = pc[s] /\ conn'[s] = conn[s]
  BY <1>1, <1>2, Ending
<1>5. Uses' /\ Pools'
  BY <1>1, <1>2, <1>4, LetGo DEF Typed
<1> QED
  BY <1>3, <1>4, <1>5 DEF IInv, Typed

\* A whole response gives its connection back to the pool, or drops it.
LEMMA CompletesKeeps ==
    ASSUME IInv, NEW r \in Req, NEW keep \in BOOLEAN, Completes(r, keep)
    PROVE  IInv'
<1>1. Typed /\ Uses /\ Pools /\ \A s \in Req : Alone(s)
  BY DEF IInv
<1>2. /\ pc[r] = "stream" /\ Ended(r, "whole") /\ site' = site /\ agent' = agent
      /\ lastGood' = Learn(r) /\ dirty' = dirty \ {conn[r]}
      /\ pool' = pool \/ PutBack(conn[r])
  BY DEF Completes
<1>3. /\ LocalType' /\ \A s \in Req : Alone(s)'
      /\ pc'[r] = "done" /\ conn'[r] = None
      /\ \A s \in Req \ {r} : pc'[s] = pc[s] /\ conn'[s] = conn[s]
  BY <1>1, <1>2, Ending
<1>4. conn[r] \in Conn
  BY <1>1, <1>2 DEF Uses, Typed, LocalType
<1>5. Uses' /\ (pool' = pool => Pools')
  BY <1>1, <1>2, <1>3, LetGo DEF Typed
<1>6. lastGood' \in Addr \cup {None}
  <2>1. Winner(r) \in Addr
    BY <1>4 DEF Winner, Conn, Addr
  <2> QED
    BY <1>1, <1>2, <2>1 DEF Learn, Typed, SharedType
<1>7. ASSUME PutBack(conn[r])
      PROVE  pool' \in Seq(Entry) /\ Len(pool') <= PoolMax /\ Pools'
  <2> DEFINE q == Fresh(pool)
             e == [conn |-> conn[r], age |-> 0]
  <2>1. q \in Seq(Entry) /\ Len(q) <= PoolMax /\ PoolOf(q)
    BY <1>1, FreshPool DEF Typed
  <2>2. pool' = IF Len(q) < PoolMax THEN Append(q, e) ELSE q
    BY <1>7 DEF PutBack
  <2>3. e \in Entry /\ e.conn = conn[r]
    BY <1>4 DEF Entry
  <2> HIDE DEF q, e
  <2>4. \A c, x : Made(c, x) => Made(c, x)'
    BY <1>3 DEF Made
  <2>5. \A i \in 1..Len(q) : q[i].conn # None
    <3>1. \A i \in 1..Len(q) : q[i] \in Entry
      BY <2>1
    <3> QED
      BY <3>1, RequestAssumption DEF Entry
  <2>6. /\ \A i \in 1..Len(q) : Made(q[i].conn, Past) /\ q[i].conn # conn[r]
        /\ \A i, j \in 1..Len(q) : q[i].conn = q[j].conn => i = j
        /\ \A i \in 1..Len(q), s \in Req : q[i].conn # conn'[s]
    BY <1>3, <2>1, <2>5 DEF PoolOf
  <2>7. CASE pool' = q
    BY <2>1, <2>4, <2>6, <2>7 DEF Pools, PoolOf
  <2>8. CASE Len(q) < PoolMax /\ pool' = Append(q, e)
    <3>1. /\ pool' \in Seq(Entry) /\ Len(pool') = Len(q) + 1 /\ Len(pool') <= PoolMax
          /\ pool'[Len(q) + 1] = e /\ \A i \in 1..Len(q) : pool'[i] = q[i]
      BY <2>1, <2>3, <2>8, RequestAssumption
    <3>2. \A i \in 1..Len(pool') : i \in 1..Len(q) \/ i = Len(q) + 1
      BY <2>1, <3>1
    <3>3. Made(conn[r], Past) \/ conn[r].by = r
      BY <1>1, <1>2, <1>4 DEF Uses, Made
    <3>4. \A i \in 1..Len(pool') : pool'[i].conn.by \in Req /\ pool'[i].conn.by # Past
                => pc'[pool'[i].conn.by] = "done"
      <4>1. \A i \in 1..Len(q) : Made(q[i].conn, Past)
        BY <2>6
      <4>2. conn[r].by \in Req /\ conn[r].by # Past => pc'[conn[r].by] = "done"
        BY <1>3, <3>3 DEF Made
      <4>3. \A i \in 1..Len(q) : q[i].conn.by \in Req /\ q[i].conn.by # Past
                => pc'[q[i].conn.by] = "done"
        BY <1>3, <4>1 DEF Made
      <4> QED
        BY <2>3, <3>1, <3>2, <4>2, <4>3
    <3>5. \A i, j \in 1..Len(pool') : pool'[i].conn = pool'[j].conn => i = j
      BY <2>3, <2>6, <3>1, <3>2
    <3>6. \A i \in 1..Len(pool'), s \in Req : pool'[i].conn # conn'[s]
      <4>1. \A s \in Req : conn'[s] # conn[r]
        BY <1>1, <1>3, <1>4, RequestAssumption DEF Uses
      <4> QED
        BY <2>3, <2>6, <3>1, <3>2, <4>1
    <3>7. Pools'
      BY <3>4, <3>5, <3>6 DEF Pools, PoolOf, Made
    <3> QED
      BY <3>1, <3>7
  <2> QED
    BY <2>2, <2>7, <2>8
<1>8. pool' \in Seq(Entry) /\ Len(pool') <= PoolMax /\ Pools'
  BY <1>1, <1>2, <1>5, <1>7 DEF Typed, SharedType
<1>9. SharedType'
  BY <1>1, <1>2, <1>6, <1>8 DEF Typed, SharedType
<1> QED
  BY <1>3, <1>5, <1>8, <1>9 DEF IInv, Typed

-----------------------------------------------------------------------------
(* The steps of the pooled connection.                                     *)

\* A request that dials after a pooled connection may be repeated, or has had
\* an answer there.
LEMMA DialsAgainKeeps ==
    ASSUME IInv, NEW r \in Req, pc[r] = "reuse", DialsAgain(r),
           headed' \in [Req -> BOOLEAN],
           \A s \in Req \ {r} : headed'[s] = headed[s],
           RetrySafe(kind[r]) \/ headed'[r] = TRUE
    PROVE  IInv'
<1>1. Typed /\ Uses /\ Pools /\ \A s \in Req : Alone(s)
  BY DEF IInv
<1>2. /\ conn' = [conn EXCEPT ![r] = None] /\ pc' = [pc EXCEPT ![r] = "resolve"]
      /\ dirty' = dirty \ {conn[r]}
      /\ UNCHANGED <<site, agent, lastGood, pool, kind, via, todo, spare, stage, tried, flying,
                     answer, copies, missed>>
  BY DEF DialsAgain, shared
<1>3. /\ conn'[r] = None /\ pc'[r] = "resolve"
      /\ \A s \in Req \ {r} : conn'[s] = conn[s] /\ pc'[s] = pc[s]
  BY <1>1, <1>2 DEF Typed, LocalType
<1>4. SharedType'
  BY <1>1, <1>2 DEF Typed, SharedType
<1>5. LocalType'
  <2>1. pc' \in [Req -> Phase] /\ conn' \in [Req -> Conn \cup {None}]
    BY <1>1, <1>2 DEF Typed, LocalType, Phase
  <2> QED
    BY <1>1, <1>2, <2>1 DEF Typed, LocalType
<1>6. Uses' /\ Pools'
  BY <1>1, <1>2, <1>3, LetGo DEF Typed
<1>7. Alone(r)'
  <2>1. Flights(r)'
    BY <1>1, <1>2, <1>3 DEF Alone, Flights
  <2>2. Copies(r)'
    <3>1. /\ RetrySafe(kind[r]) => copies[r] = {}
          /\ \A c \in copies[r] : c.by # r
      BY <1>1 DEF Alone, Copies
    <3>2. RetrySafe(kind[r])' <=> RetrySafe(kind[r])
      BY <1>2 DEF RetrySafe
    <3> QED
      BY <1>2, <1>3, <3>1, <3>2 DEF Copies
  <2>3. Ahead(r)'
    BY <1>1, <1>2, <1>3 DEF Alone, Ahead
  <2> QED
    BY <2>1, <2>2, <2>3 DEF Alone
<1>8. ASSUME NEW s \in Req \ {r} PROVE Alone(s)'
  <2>1. Same(s)
    BY <1>2, <1>3 DEF Same
  <2> QED
    BY <1>1, <1>2, <2>1, AloneKept
<1> QED
  BY <1>4, <1>5, <1>6, <1>7, <1>8 DEF IInv, Typed
LEMMA ReuseFailsKeeps ==
    ASSUME IInv, NEW r \in Req, ReuseFails(r)
    PROVE  IInv'
<1>1. pc[r] = "reuse"
  BY DEF ReuseFails
<1>2. CASE RetrySafe(kind[r])
  <2>1. DialsAgain(r) /\ headed' = headed
    BY <1>2 DEF ReuseFails
  <2>2. headed \in [Req -> BOOLEAN]
    BY DEF IInv, Typed, LocalType
  <2> QED
    BY <1>1, <1>2, <2>1, <2>2, DialsAgainKeeps
<1>3. CASE ~RetrySafe(kind[r])
  <2>1. Ended(r, "502") /\ dirty' = dirty \ {conn[r]} /\ UNCHANGED shared
    BY <1>3 DEF ReuseFails
  <2> QED
    BY <1>1, <2>1, DropKeeps
<1> QED
  BY <1>2, <1>3
LEMMA ReuseDroppedKeeps ==
    ASSUME IInv, NEW r \in Req, ReuseDropped(r)
    PROVE  IInv'
<1>1. pc[r] = "reuse" /\ DialsAgain(r) /\ headed' = [headed EXCEPT ![r] = TRUE]
  BY DEF ReuseDropped
<1>2. headed \in [Req -> BOOLEAN]
  BY DEF IInv, Typed, LocalType
<1>3. headed' \in [Req -> BOOLEAN] /\ headed'[r] = TRUE /\ \A s \in Req \ {r} : headed'[s] = headed[s]
  BY <1>1, <1>2
<1> QED
  BY <1>1, <1>3, DialsAgainKeeps
LEMMA ReuseAdoptedKeeps ==
    ASSUME IInv, NEW r \in Req, ReuseAdopted(r)
    PROVE  IInv'
<1>1. Typed /\ Uses /\ Pools /\ \A s \in Req : Alone(s)
  BY DEF IInv
<1>2. /\ pc[r] = "reuse" /\ pc' = [pc EXCEPT ![r] = "stream"]
      /\ UNCHANGED <<site, agent, lastGood, pool, kind, via, todo, spare, stage, tried, flying,
                     conn, answer, dirty, copies, headed, missed>>
  BY DEF ReuseAdopted, shared, history
<1>3. pc'[r] = "stream" /\ \A s \in Req \ {r} : pc'[s] = pc[s]
  BY <1>1, <1>2 DEF Typed, LocalType
<1>4. SharedType'
  BY <1>1, <1>2 DEF Typed, SharedType
<1>5. LocalType'
  <2>1. pc' \in [Req -> Phase]
    BY <1>1, <1>2 DEF Typed, LocalType, Phase
  <2> QED
    BY <1>1, <1>2, <2>1 DEF Typed, LocalType
<1>6. \A c, x : Made(c, x) => Made(c, x)'
  BY <1>2, <1>3 DEF Made
<1>7. Uses'
  BY <1>1, <1>2, <1>3, <1>6 DEF Uses
<1>8. Pools'
  BY <1>1, <1>2, <1>6 DEF Pools, PoolOf
<1>9. Alone(r)'
  <2>1. Flights(r)'
    BY <1>1, <1>2, <1>3 DEF Alone, Flights
  <2>2. Copies(r)'
    <3>1. /\ RetrySafe(kind[r]) => copies[r] = {}
          /\ copies[r] \subseteq {conn[r]}
      BY <1>1, <1>2 DEF Alone, Copies
    <3>2. RetrySafe(kind[r])' <=> RetrySafe(kind[r])
      BY <1>2 DEF RetrySafe
    <3> QED
      BY <1>2, <1>3, <3>1, <3>2 DEF Copies
  <2>3. Ahead(r)'
    BY <1>1, <1>2, <1>3 DEF Alone, Ahead
  <2> QED
    BY <2>1, <2>2, <2>3 DEF Alone
<1>10. ASSUME NEW s \in Req \ {r} PROVE Alone(s)'
  <2>1. Same(s)
    BY <1>2, <1>3 DEF Same
  <2> QED
    BY <1>1, <1>2, <2>1, AloneKept
<1> QED
  BY <1>4, <1>5, <1>7, <1>8, <1>9, <1>10 DEF IInv, Typed

\* The first of some places of a list.
LEMMA FirstIs ==
    ASSUME NEW m \in Nat, NEW K \in SUBSET (1..m), K # {}
    PROVE  (CHOOSE i \in K : \A j \in K : i <= j) \in K
<1>1. /\ Cardinality(K) \in Nat
      /\ \A i \in K : Rank(K, i) \in 1..Cardinality(K)
      /\ \A i, k \in K : i < k => Rank(K, i) < Rank(K, k)
      /\ \A n \in 1..Cardinality(K) : \E i \in K : Rank(K, i) = n
  BY Numbered
<1>2. PICK i \in K : Rank(K, i) = 1
  <2>1. 1 \in 1..Cardinality(K)
    <3>1. PICK i \in K : TRUE
      OBVIOUS
    <3>2. Rank(K, i) \in 1..Cardinality(K)
      BY <1>1
    <3> QED
      BY <1>1, <3>2
  <2> QED
    BY <1>1, <2>1
<1>3. \A j \in K : i <= j
  <2> SUFFICES ASSUME NEW j \in K, j < i PROVE FALSE
    OBVIOUS
  <2> QED
    BY <1>1, <1>2
<1> QED
  BY <1>3

LEMMA Joined ==
    ASSUME NEW X, NEW a \in Seq(X), NEW b \in Seq(X)
    PROVE  (a \o b) \in Seq(X) /\ Len(a \o b) = Len(a) + Len(b)
OBVIOUS

\* One connection leaves the pool: the others keep their order.
LEMMA TakenIs ==
    ASSUME NEW X, NEW q \in Seq(X), NEW i \in 1..Len(q)
    PROVE  /\ Taken(q, i) \in Seq(X) /\ Len(Taken(q, i)) = Len(q) - 1
           /\ \A n \in 1..(Len(q) - 1) : Taken(q, i)[n] = IF n < i THEN q[n] ELSE q[n + 1]
<1>1. Taken(q, i) = SubSeq(q, 1, i - 1) \o SubSeq(q, i + 1, Len(q))
  BY DEF Taken, RemoveAt
<1> DEFINE a == SubSeq(q, 1, i - 1)
           b == SubSeq(q, i + 1, Len(q))
<1>2. /\ a \in Seq(X) /\ Len(a) = i - 1 /\ \A n \in 1..(i - 1) : a[n] = q[n]
      /\ b \in Seq(X) /\ Len(b) = Len(q) - i /\ \A n \in 1..(Len(q) - i) : b[n] = q[i + n]
  OBVIOUS
<1> HIDE DEF a, b
<1>3. Taken(q, i) \in Seq(X) /\ Len(Taken(q, i)) = Len(q) - 1
  <2>1. Taken(q, i) = a \o b
    BY <1>1 DEF a, b
  <2>2. a \o b \in Seq(X) /\ Len(a \o b) = Len(a) + Len(b)
    BY <1>2, Joined
  <2>3. Len(a) + Len(b) = Len(q) - 1
    BY <1>2
  <2> QED
    BY <2>1, <2>2, <2>3
<1>4. ASSUME NEW n \in 1..(Len(q) - 1) PROVE Taken(q, i)[n] = IF n < i THEN q[n] ELSE q[n + 1]
  <2>1. Taken(q, i) = a \o b
    BY <1>1 DEF a, b
  <2>2. CASE n < i
    BY <1>2, <2>1, <2>2
  <2>3. CASE ~(n < i)
    <3>1. n - (i - 1) \in 1..(Len(q) - i) /\ i + (n - (i - 1)) = n + 1
      BY <2>3
    <3>2. (a \o b)[n] = b[n - (i - 1)]
      BY <1>2, <2>3
    <3> QED
      BY <1>2, <2>1, <2>3, <3>1, <3>2
  <2> QED
    BY <2>2, <2>3
<1> QED
  BY <1>3, <1>4

\* A request arrives: it takes a connection that nobody uses, if one fits.
LEMMA BeginKeeps ==
    ASSUME IInv, NEW r \in Req, Begin(r)
    PROVE  IInv'
<1>1. Typed /\ Uses /\ Pools /\ \A s \in Req : Alone(s)
  BY DEF IInv
<1> DEFINE q == Fresh(pool)
           fit(k) == {i \in DOMAIN q : Reusable(q[i], RetrySafe(k))}
           first(k) == CHOOSE i \in fit(k) : \A j \in fit(k) : i <= j
           won(k) == IF fit(k) = {} THEN None ELSE q[first(k)].conn
<1>3. PICK k \in Kinds[r] :
        /\ kind' = [kind EXCEPT ![r] = k]
        /\ pc' = [pc EXCEPT ![r] = IF fit(k) = {} THEN "resolve" ELSE "reuse"]
        /\ pool' = IF fit(k) = {} THEN q ELSE Taken(q, first(k))
        /\ conn' = [conn EXCEPT ![r] = won(k)]
        /\ dirty' = dirty \cup ({won(k)} \ {None})
        /\ copies' = [copies EXCEPT ![r] = IF RetrySafe(k) THEN {} ELSE {won(k)} \ {None}]
  BY DEF Begin
<1>4. /\ pc[r] = "idle" /\ via' = [via EXCEPT ![r] = agent]
      /\ UNCHANGED <<site, agent, lastGood, todo, spare, stage, tried, flying, answer,
                     headed, missed>>
  BY DEF Begin
<1>5. k \in Kind
  BY <1>3, RequestAssumption
<1>6. q \in Seq(Entry) /\ Len(q) <= PoolMax /\ PoolOf(q) /\ Len(q) \in Nat
  BY <1>1, FreshPool DEF Typed
<1> HIDE DEF q
<1>7. \A i \in 1..Len(q) : q[i] \in Entry /\ q[i].conn \in Conn /\ q[i].conn # None
  <2>1. \A i \in 1..Len(q) : q[i] \in Entry
    BY <1>6
  <2> QED
    BY <2>1, RequestAssumption DEF Entry
<1>8. fit(k) \in SUBSET (1..Len(q))
  BY <1>6
<1>9a. PICK f : f = fit(k)
  OBVIOUS
<1>9b. PICK i : i = first(k)
  OBVIOUS
<1>9c. PICK got : got = won(k)
  <2> HIDE DEF won
  <2> QED
    OBVIOUS
<1>9. f = fit(k) /\ i = first(k) /\ got = won(k)
  BY <1>9a, <1>9b, <1>9c
<1>10. /\ kind' = [kind EXCEPT ![r] = k]
       /\ pc' = [pc EXCEPT ![r] = IF f = {} THEN "resolve" ELSE "reuse"]
       /\ pool' = IF f = {} THEN q ELSE Taken(q, i)
       /\ conn' = [conn EXCEPT ![r] = got]
       /\ dirty' = dirty \cup ({got} \ {None})
       /\ copies' = [copies EXCEPT ![r] = IF RetrySafe(k) THEN {} ELSE {got} \ {None}]
       /\ got = IF f = {} THEN None ELSE q[i].conn
  BY <1>3, <1>9
<1>11. f # {} => i \in 1..Len(q)
  <2> HIDE DEF fit
  <2>1. f # {} => i \in f
    BY <1>6, <1>8, <1>9, FirstIs
  <2> QED
    BY <1>8, <1>9, <2>1
<1> HIDE DEF fit, first, won
<1>12. \/ f = {} /\ got = None
       \/ f # {} /\ got \in Conn /\ got # None
  BY <1>7, <1>10, <1>11
<1>13. /\ pc'[r] = IF f = {} THEN "resolve" ELSE "reuse"
       /\ conn'[r] = got /\ kind'[r] = k
       /\ copies'[r] = IF RetrySafe(k) THEN {} ELSE {got} \ {None}
       /\ \A s \in Req \ {r} : /\ pc'[s] = pc[s] /\ conn'[s] = conn[s] /\ kind'[s] = kind[s]
                               /\ copies'[s] = copies[s] /\ via'[s] = via[s]
  BY <1>1, <1>4, <1>10 DEF Typed, LocalType
<1>14. \A c, x : Made(c, x) => Made(c, x)'
  BY <1>4, <1>13 DEF Made
<1>15. f # {} => Made(got, Past) /\ \A s \in Req : conn[s] # got
  BY <1>6, <1>10, <1>11 DEF PoolOf
<1>16. pool' \in Seq(Entry) /\ Len(pool') <= PoolMax /\ Pools'
  <2>1. \A n \in 1..Len(q) : Made(q[n].conn, Past) /\ q[n].conn # None /\ \A s \in Req : q[n].conn # conn[s]
    BY <1>6, <1>7 DEF PoolOf
  <2>2. \A n, m \in 1..Len(q) : q[n].conn = q[m].conn => n = m
    BY <1>6 DEF PoolOf
  <2>3. \A n \in 1..Len(q) : q[n].conn.by \in Req /\ q[n].conn.by # Past => pc'[q[n].conn.by] = "done"
    BY <1>14, <2>1 DEF Made
  <2>4. CASE f = {}
    <3>1. pool' = q /\ \A n \in 1..Len(q), s \in Req : q[n].conn # conn'[s]
      BY <1>10, <1>12, <1>13, <2>1, <2>4
    <3>2. Pools'
      BY <2>2, <2>3, <3>1 DEF Pools, PoolOf, Made
    <3> QED
      BY <1>6, <3>1, <3>2
  <2>5. CASE f # {}
    <3>1. i \in 1..Len(q) /\ got = q[i].conn /\ pool' = Taken(q, i)
      BY <1>10, <1>11, <2>5
    <3>2. /\ pool' \in Seq(Entry) /\ Len(pool') = Len(q) - 1
          /\ \A n \in 1..(Len(q) - 1) : pool'[n] = IF n < i THEN q[n] ELSE q[n + 1]
      BY <1>6, <3>1, TakenIs
    <3> DEFINE at(n) == IF n < i THEN n ELSE n + 1
    <3>3. \A n \in 1..Len(pool') : pool'[n] = q[at(n)] /\ at(n) \in 1..Len(q) /\ at(n) # i
      BY <1>6, <3>1, <3>2
    <3>4. \A n, m \in 1..Len(pool') : at(n) = at(m) => n = m
      BY <1>6, <3>1, <3>2
    <3> HIDE DEF at
    <3>5. \A n \in 1..Len(pool') : pool'[n].conn # got
      BY <2>2, <3>1, <3>3
    <3>6. \A n \in 1..Len(pool'), s \in Req : pool'[n].conn # conn'[s]
      BY <1>13, <2>1, <3>3, <3>5
    <3>7. \A n, m \in 1..Len(pool') : pool'[n].conn = pool'[m].conn => n = m
      BY <2>2, <3>3, <3>4
    <3>8. \A n \in 1..Len(pool') : pool'[n].conn.by \in Req /\ pool'[n].conn.by # Past
                => pc'[pool'[n].conn.by] = "done"
      BY <2>3, <3>3
    <3>9. Pools'
      BY <3>6, <3>7, <3>8 DEF Pools, PoolOf, Made
    <3>10. Len(pool') <= PoolMax
      BY <1>6, <3>2, RequestAssumption
    <3> QED
      BY <3>2, <3>9, <3>10
  <2> QED
    BY <2>4, <2>5
<1>17. SharedType'
  BY <1>1, <1>4, <1>10, <1>12, <1>16 DEF Typed, SharedType
<1>18. LocalType'
  <2>1. pc' \in [Req -> Phase] /\ kind' \in [Req -> Kind] /\ conn' \in [Req -> Conn \cup {None}]
    BY <1>1, <1>5, <1>10, <1>12 DEF Typed, LocalType, Phase
  <2>2. via' \in [Req -> BOOLEAN]
    <3>1. agent \in BOOLEAN /\ via \in [Req -> BOOLEAN]
      BY <1>1 DEF Typed, SharedType, LocalType
    <3> QED
      BY <1>4, <3>1
  <2>3. copies' \in [Req -> SUBSET Conn]
    BY <1>1, <1>10, <1>12 DEF Typed, LocalType
  <2> QED
    BY <1>1, <1>4, <2>1, <2>2, <2>3 DEF Typed, LocalType
<1>19. conn[r] = None
  BY <1>1, <1>4 DEF Uses
<1>20. Uses'
  <2>1. \A s \in Req : conn'[s] # None <=> pc'[s] \in {"reuse", "stream"}
    BY <1>1, <1>12, <1>13 DEF Uses
  <2>2. \A s \in Req : conn'[s] # None => Made(conn[s], s)'
    <3>1. ASSUME NEW s \in Req \ {r}, conn'[s] # None PROVE Made(conn[s], s)'
      <4>1. Made(conn[s], s)
        BY <1>1, <1>13, <3>1 DEF Uses
      <4> QED
        BY <1>4, <1>13, <3>1, <4>1 DEF Made
    <3>2. ASSUME conn'[r] # None PROVE Made(conn[r], r)'
      <4>1. Made(got, Past)
        BY <1>12, <1>13, <1>15, <3>2
      <4> QED
        BY <1>4, <1>13, <4>1, RequestAssumption DEF Made
    <3> QED
      BY <3>1, <3>2
  <2>3. \A s, u \in Req : conn'[s] # None /\ conn'[s] = conn'[u] => s = u
    BY <1>1, <1>12, <1>13, <1>15 DEF Uses
  <2>4. \A d \in dirty' : \E s \in Req : conn'[s] = d
    <3>1. \A d \in dirty : \E s \in Req \ {r} : conn[s] = d
      BY <1>1, <1>19, RequestAssumption DEF Uses, Typed, SharedType
    <3> QED
      BY <1>10, <1>13, <3>1
  <2> QED
    BY <2>1, <2>2, <2>3, <2>4 DEF Uses
<1>21. Alone(r)'
  <2>1. Flights(r)'
    BY <1>1, <1>4, <1>13 DEF Alone, Flights
  <2>2. Copies(r)'
    <3>1. RetrySafe(kind[r])' <=> RetrySafe(k)
      BY <1>4, <1>13 DEF RetrySafe
    <3>2. f # {} => got.by # r
      BY <1>4, <1>15, RequestAssumption DEF Made
    <3> QED
      BY <1>12, <1>13, <3>1, <3>2 DEF Copies
  <2>3. Ahead(r)'
    BY <1>1, <1>4, <1>13 DEF Alone, Ahead
  <2> QED
    BY <2>1, <2>2, <2>3 DEF Alone
<1>22. ASSUME NEW s \in Req \ {r} PROVE Alone(s)'
  <2>1. Same(s)
    BY <1>4, <1>13 DEF Same
  <2> QED
    BY <1>1, <1>4, <2>1, AloneKept
<1> QED
  BY <1>16, <1>17, <1>18, <1>20, <1>21, <1>22 DEF IInv, Typed

-----------------------------------------------------------------------------
(* The steps around the requests, and the start.                           *)

LEMMA NothingAlone ==
    ASSUME IInv, UNCHANGED local, UNCHANGED history, site' = site
    PROVE  LocalType' /\ Uses' /\ \A s \in Req : Alone(s)'
<1>1. Typed /\ Uses /\ \A s \in Req : Alone(s)
  BY DEF IInv
<1>2. LocalType'
  BY <1>1 DEF Typed, LocalType, local, history
<1>3. Uses'
  BY <1>1 DEF Uses, Made, local, history
<1>4. \A s \in Req : Same(s)
  BY DEF Same, local, history
<1> QED
  BY <1>1, <1>2, <1>3, <1>4, AloneKept
LEMMA AgesKeeps ==
    ASSUME IInv, NEW i \in 1..PoolMax, Ages(i)
    PROVE  IInv'
<1>1. Typed /\ Pools
  BY DEF IInv
<1>2. /\ i \in DOMAIN pool /\ pool[i].age < 2 /\ pool' = [pool EXCEPT ![i].age = @ + 1]
      /\ UNCHANGED <<site, agent, lastGood>> /\ UNCHANGED local /\ UNCHANGED history
  BY DEF Ages
<1>3. pool \in Seq(Entry) /\ Len(pool) \in Nat /\ DOMAIN pool = 1..Len(pool)
  BY <1>1 DEF Typed, SharedType
<1>4. \A j \in 1..Len(pool) : pool[j] \in Entry
  BY <1>3
<1>5. /\ DOMAIN pool' = DOMAIN pool
      /\ \A j \in 1..Len(pool) : pool'[j] \in Entry /\ pool'[j].conn = pool[j].conn
  <2>1. [pool[i] EXCEPT !.age = @ + 1] \in Entry /\ [pool[i] EXCEPT !.age = @ + 1].conn = pool[i].conn
    BY <1>2, <1>3, <1>4 DEF Entry
  <2>2. pool' = [pool EXCEPT ![i] = [pool[i] EXCEPT !.age = @ + 1]]
    BY <1>2
  <2> QED
    BY <1>3, <1>4, <2>1, <2>2
<1>6. pool' \in Seq(Entry) /\ Len(pool') = Len(pool)
  BY <1>2, <1>3, <1>5
<1>7. LocalType' /\ Uses' /\ \A s \in Req : Alone(s)'
  BY <1>2, NothingAlone
<1>8. pc' = pc /\ conn' = conn /\ dirty' = dirty
  BY <1>2 DEF local, history
<1>9. Pools'
  BY <1>1, <1>5, <1>6, <1>8 DEF Pools, PoolOf, Made
<1>10. SharedType'
  BY <1>1, <1>2, <1>6, <1>8 DEF Typed, SharedType
<1> QED
  BY <1>7, <1>9, <1>10 DEF IInv, Typed
LEMMA SwitchAgentKeeps ==
    ASSUME IInv, SwitchAgent
    PROVE  IInv'
<1>1. Typed /\ Pools
  BY DEF IInv
<1>2. /\ UNCHANGED <<site, lastGood, pool>> /\ UNCHANGED local /\ UNCHANGED history
      /\ agent' \in BOOLEAN
  BY DEF SwitchAgent
<1>3. LocalType' /\ Uses' /\ \A s \in Req : Alone(s)'
  BY <1>2, NothingAlone
<1>4. pc' = pc /\ conn' = conn /\ dirty' = dirty
  BY <1>2 DEF local, history
<1>5. Pools'
  BY <1>1, <1>2, <1>4 DEF Pools, PoolOf, Made
<1>6. SharedType'
  BY <1>1, <1>2, <1>4 DEF Typed, SharedType
<1> QED
  BY <1>3, <1>5, <1>6 DEF IInv, Typed
LEMMA UpstreamInit == Init => IInv
<1> SUFFICES ASSUME Init PROVE IInv
  OBVIOUS
<1>1. /\ site \in Site /\ agent \in BOOLEAN /\ lastGood = None /\ dirty = {}
      /\ pc = [r \in Req |-> "idle"] /\ kind = [r \in Req |-> NoKind]
      /\ via = [r \in Req |-> FALSE] /\ todo = [r \in Req |-> <<>>]
      /\ spare = [r \in Req |-> {}] /\ stage = [r \in Req |-> "known"]
      /\ tried = [r \in Req |-> {}] /\ flying = [r \in Req |-> {}]
      /\ conn = [r \in Req |-> None] /\ answer = [r \in Req |-> "none"]
      /\ copies = [r \in Req |-> {}] /\ headed = [r \in Req |-> FALSE]
      /\ missed = [r \in Req |-> {}]
  BY DEF Init
<1>2. LocalType
  <2>1. /\ "idle" \in Phase /\ NoKind \in Kind /\ "known" \in Stage /\ "none" \in Answers
    BY DEF Phase, NoKind, Kind, Stage, Answers
  <2>2. /\ pc \in [Req -> Phase] /\ kind \in [Req -> Kind] /\ stage \in [Req -> Stage]
        /\ answer \in [Req -> Answers] /\ todo \in [Req -> Seq(Candidate)]
    BY <1>1, <2>1, NothingTodo
  <2> QED
    BY <1>1, <2>2 DEF LocalType
<1>3. pool = <<>> \/ \E c \in Conn : c.by = Past /\ pool = <<[conn |-> c, age |-> 0]>>
  <2>1. Modes[1] \in Mode
    BY ModesType
  <2>2. \A a \in {Unspecified} \cup {Dns[i] : i \in DOMAIN Dns} : a \in Addr
    <3>1. \A i \in DOMAIN Dns : Dns[i] \in Edge
      BY SourceAssumption
    <3> QED
      BY <3>1 DEF Addr
  <2>3. \A c \in {[by |-> Past, mode |-> Modes[1], addr |-> a] :
                     a \in {Unspecified} \cup {Dns[i] : i \in DOMAIN Dns}} : c \in Conn /\ c.by = Past
    BY <2>1, <2>2 DEF Conn
  <2>4. pool \in {<<>>} \cup {<<[conn |-> c, age |-> 0]>> :
                    c \in {[by |-> Past, mode |-> Modes[1], addr |-> a] :
                              a \in {Unspecified} \cup {Dns[i] : i \in DOMAIN Dns}}}
    BY DEF Init
  <2> QED
    BY <2>3, <2>4
<1>4. /\ pool \in Seq(Entry) /\ Len(pool) \in {0, 1}
      /\ \A i \in 1..Len(pool) : i = 1 /\ pool[i].conn \in Conn /\ pool[i].conn.by = Past
  <2>1. CASE pool = <<>>
    <3>1. <<>> \in Seq(Entry) /\ Len(<<>>) = 0
      OBVIOUS
    <3> QED
      BY <2>1, <3>1
  <2>2. CASE \E c \in Conn : c.by = Past /\ pool = <<[conn |-> c, age |-> 0]>>
    <3>1. PICK c \in Conn : c.by = Past /\ pool = <<[conn |-> c, age |-> 0]>>
      BY <2>2
    <3> DEFINE e == [conn |-> c, age |-> 0]
    <3>2. e \in Entry /\ e.conn = c
      BY DEF Entry
    <3>3. pool = <<e>>
      BY <3>1
    <3> HIDE DEF e
    <3>4. pool \in Seq(Entry) /\ Len(pool) = 1 /\ pool[1] = e
      BY <3>2, <3>3
    <3> QED
      BY <3>1, <3>2, <3>4
  <2> QED
    BY <1>3, <2>1, <2>2
<1>5. SharedType
  <2>1. Len(pool) <= PoolMax
    BY <1>4, RequestAssumption
  <2> QED
    BY <1>1, <1>4, <2>1 DEF SharedType
<1>6. Uses
  BY <1>1 DEF Uses
<1>7. Pools
  BY <1>1, <1>4, RequestAssumption DEF Pools, PoolOf, Made
<1>8. \A r \in Req : Alone(r)
  BY <1>1 DEF Alone, Flights, Copies, Ahead
<1> QED
  BY <1>2, <1>5, <1>6, <1>7, <1>8 DEF IInv, Typed
LEMMA AttemptKeeps ==
    ASSUME IInv, NEW r \in Req, Attempt(r)
    PROVE  IInv'
<1>1. PICK c \in flying[r] : ConnectFails(r, c) \/ NoResponse(r, c) \/ GatewayAnswer(r, c) \/ Adopt(r, c)
  BY DEF Attempt
<1>2. CASE ConnectFails(r, c)
  BY <1>2, AttemptFails DEF ConnectFails
<1>3. CASE NoResponse(r, c)
  <2>1. CASE pc[r] = "dial" /\ ~RetrySafe(kind[r])
    <3>1. Refuse(r, "502")
      BY <1>3, <2>1 DEF NoResponse
    <3> QED
      BY <2>1, <3>1, RefuseKeeps
  <2>2. CASE ~(pc[r] = "dial" /\ ~RetrySafe(kind[r]))
    <3>1. /\ flying' = [flying EXCEPT ![r] = @ \ {c}]
          /\ UNCHANGED <<shared, pc, kind, via, todo, spare, stage, tried, conn, answer, history>>
      BY <1>3, <2>2 DEF NoResponse
    <3> QED
      BY <3>1, AttemptFails
  <2> QED
    BY <2>1, <2>2
<1>4. CASE GatewayAnswer(r, c)
  BY <1>4, AttemptFails DEF GatewayAnswer
<1>5. CASE Adopt(r, c)
  BY <1>5, AdoptKeeps
<1> QED
  BY <1>1, <1>2, <1>3, <1>4, <1>5
LEMMA StutterKeeps ==
    ASSUME IInv, UNCHANGED vars
    PROVE  IInv'
<1>1. UNCHANGED local /\ UNCHANGED history
  BY DEF vars, local, history
<1>2. site' = site /\ pool' = pool /\ agent' = agent /\ lastGood' = lastGood /\ dirty' = dirty
      /\ pc' = pc /\ conn' = conn
  BY DEF vars
<1>3. LocalType' /\ Uses' /\ \A s \in Req : Alone(s)'
  BY <1>1, <1>2, NothingAlone
<1>4. SharedType' /\ Pools'
  BY <1>2 DEF IInv, Typed, SharedType, Pools, PoolOf, Made
<1> QED
  BY <1>3, <1>4 DEF IInv, Typed

\* Every step keeps the inductive invariant.
LEMMA UpstreamStep == IInv /\ [Next]_vars => IInv'
<1> SUFFICES ASSUME IInv, [Next]_vars PROVE IInv'
  OBVIOUS
<1>1. ASSUME NEW r \in Req, Begin(r) PROVE IInv'
  BY <1>1, BeginKeeps
<1>2. ASSUME NEW r \in Req, Pooled(r) PROVE IInv'
  BY <1>2, ReuseFailsKeeps, ReuseDroppedKeeps, ReuseAdoptedKeeps DEF Pooled
<1>3. ASSUME NEW r \in Req, Dial(r) PROVE IInv'
  <2>1. CASE GiveUp(r)
    <3>1. pc[r] \in {"dial", "hedge"} /\ Spent(r) /\ Refuse(r, "502 spent")
      BY <2>1 DEF GiveUp
    <3> QED
      BY <3>1, SpentIs, RefuseKeeps
  <2>2. CASE Budget(r)
    BY <2>2, RefuseKeeps DEF Budget
  <2> QED
    BY <1>3, <2>1, <2>2, PlanKeeps, StartKeeps, SecondWaveKeeps, MoreKeeps, AttemptKeeps DEF Dial
<1>4. ASSUME NEW r \in Req, Finish(r) PROVE IInv'
  <2>1. CASE Breaks(r)
    BY <2>1, DropKeeps DEF Breaks
  <2> QED
    BY <1>4, <2>1, CompletesKeeps DEF Finish
<1>5. ASSUME NEW i \in 1..PoolMax, Ages(i) PROVE IInv'
  BY <1>5, AgesKeeps
<1>6. CASE SwitchAgent
  BY <1>6, SwitchAgentKeeps
<1>7. CASE UNCHANGED vars
  BY <1>7, StutterKeeps
<1> QED
  BY <1>1, <1>2, <1>3, <1>4, <1>5, <1>6, <1>7 DEF Next
LEMMA UpstreamInv == Spec => []IInv
BY UpstreamInit, UpstreamStep, PTL DEF Spec

-----------------------------------------------------------------------------
(* The theorems.                                                           *)

\* A POST, or any request that may not be repeated, is written to at most one
\* connection dialled for it, and to a second connection only after a pooled
\* one has answered it with a head: however many requests share the pool and
\* whatever becomes of their connections (forward_one).
THEOREM WrittenOnce == Spec => []NoBlindReplay
<1>1. IInv => NoBlindReplay
  <2> SUFFICES ASSUME IInv, NEW r \in Req
               PROVE  Cardinality(Own(r)) <= 1 /\ (Cardinality(copies[r]) > 1 => headed[r])
    BY DEF NoBlindReplay
  <2>1. Copies(r) /\ pc[r] \in Phase /\ headed[r] \in BOOLEAN
    BY DEF IInv, Alone, Typed, LocalType
  <2>2. \A S, x : S \subseteq {x} => Cardinality(S) <= 1
    <3> SUFFICES ASSUME NEW S, NEW x, S \subseteq {x} PROVE Cardinality(S) <= 1
      OBVIOUS
    <3>1. S = {} \/ S = {x}
      OBVIOUS
    <3>2. Cardinality({}) = 0 /\ Cardinality({x}) = 1
      BY FS_EmptySet, FS_Singleton
    <3> QED
      BY <3>1, <3>2
  <2>3. Own(r) \subseteq {conn[r]}
    BY <2>1 DEF Copies, Own, Phase
  <2>4. copies[r] \subseteq {conn[r]} \/ headed[r] = TRUE
    BY <2>1 DEF Copies, Phase
  <2>5. Cardinality(copies[r]) > 1 => headed[r]
    <3>1. CASE copies[r] \subseteq {conn[r]}
      <4>1. copies[r] = {} \/ copies[r] = {conn[r]}
        BY <3>1
      <4>2. Cardinality({}) = 0 /\ Cardinality({conn[r]}) = 1
        BY FS_EmptySet, FS_Singleton
      <4>3. ~(Cardinality(copies[r]) > 1)
        BY <4>1, <4>2
      <4> QED
        BY <4>3
    <3> QED
      BY <2>4, <3>1
  <2> QED
    BY <2>2, <2>3, <2>5
<1> QED
  BY <1>1, UpstreamInv, PTL

\* A signed-in request and one that is not read-only are out on one connection
\* at a time, and an adopted answer leaves no other attempt of its race.
THEOREM NeverRaced == Spec => []OneAtATime
<1>1. IInv => OneAtATime
  <2> SUFFICES ASSUME IInv, NEW r \in Req
               PROVE  /\ (kind[r].stateful \/ ~RaceSafe(kind[r])) => Cardinality(flying[r]) <= 1
                      /\ pc[r] \in {"reuse", "stream"} => flying[r] = {}
    BY DEF OneAtATime
  <2>1. Flights(r)
    BY DEF IInv, Alone
  <2>2. ASSUME kind[r].stateful \/ ~RaceSafe(kind[r]) PROVE Cardinality(flying[r]) <= 1
    <3>1. pc[r] # "hedge"
      BY <2>1, <2>2 DEF Flights, Hedged
    <3>2. \A c, d \in flying[r] : c = d
      BY <2>1, <3>1 DEF Flights
    <3>3. CASE flying[r] = {}
      <4>1. Cardinality(flying[r]) = 0
        BY <3>3, FS_EmptySet
      <4> QED
        BY <4>1
    <3>4. CASE flying[r] # {}
      <4>1. PICK c : flying[r] = {c}
        BY <3>2, <3>4
      <4>2. Cardinality(flying[r]) = 1
        BY <4>1, FS_Singleton
      <4> QED
        BY <4>2
    <3> QED
      BY <3>3, <3>4
  <2> QED
    BY <2>1, <2>2 DEF Flights
<1> QED
  BY <1>1, UpstreamInv, PTL

\* The pool keeps to its limit and holds only connections that nobody uses,
\* each once, and none with a byte of an earlier response left in it
\* (UpstreamPool::take, put); the types are part of it.
THEOREM NobodysConnections == Spec => []PoolIsIdle
<1>1. IInv => TypeOK
  <2> SUFFICES ASSUME IInv PROVE TypeOK
    OBVIOUS
  <2>1. SharedType /\ LocalType
    BY DEF IInv, Typed
  <2>2. /\ \A i \in DOMAIN pool : pool[i].age \in 0..2 /\ pool[i].conn \in Conn
        /\ Len(pool) <= PoolMax
    <3>1. \A i \in DOMAIN pool : pool[i] \in Entry
      BY <2>1 DEF SharedType
    <3> QED
      BY <2>1, <3>1 DEF SharedType, Entry
  <2>3. \A r \in Req : /\ ToSet(todo[r]) \subseteq Candidate
                       /\ spare[r] \subseteq Candidate
                       /\ flying[r] \subseteq Candidate
    <3> TAKE r \in Req
    <3>1. todo[r] \in Seq(Candidate) /\ spare[r] \subseteq Candidate /\ flying[r] \subseteq Candidate
      BY <2>1 DEF LocalType
    <3>2. ToSet(todo[r]) \subseteq Candidate
      BY <3>1 DEF ToSet
    <3> QED
      BY <3>1, <3>2
  <2>4. site \in Site /\ agent \in BOOLEAN /\ lastGood \in Addr \cup {None} /\ dirty \subseteq Conn
    BY <2>1 DEF SharedType
  <2>5. /\ pc \in [Req -> {"idle", "reuse", "resolve", "dial", "hedge", "stream", "done"}]
        /\ answer \in [Req -> {"none", "502", "502 spent", "whole", "cut"}]
    BY <2>1 DEF LocalType, Phase, Answers
  <2>6. /\ kind \in [Req -> Kind] /\ via \in [Req -> BOOLEAN] /\ stage \in [Req -> Stage]
        /\ tried \in [Req -> SUBSET Addr] /\ conn \in [Req -> Conn \cup {None}]
        /\ copies \in [Req -> SUBSET Conn]
        /\ headed \in [Req -> BOOLEAN] /\ missed \in [Req -> SUBSET Addr]
    BY <2>1 DEF LocalType
  <2> QED
    BY <2>2, <2>3, <2>4, <2>5, <2>6 DEF TypeOK
<1>2. IInv => PoolIsIdle
  <2> SUFFICES ASSUME IInv PROVE PoolIsIdle
    OBVIOUS
  <2>1. Uses /\ Pools /\ DOMAIN pool = 1..Len(pool)
    BY DEF IInv, Typed, SharedType
  <2> DEFINE idle == {pool[i].conn : i \in DOMAIN pool}
  <2>2. \A i, j \in DOMAIN pool : pool[i].conn = pool[j].conn => i = j
    BY <2>1 DEF Pools, PoolOf
  <2>3. \A r \in Req : conn[r] \notin idle
    BY <2>1 DEF Pools, PoolOf
  <2>4. \A r \in Req : \A s \in Req \ {r} : conn[r] # None => conn[r] # conn[s]
    BY <2>1 DEF Uses
  <2>5. idle \cap dirty = {}
    BY <2>1, <2>3 DEF Uses
  <2> QED
    BY <1>1, <2>2, <2>3, <2>4, <2>5 DEF PoolIsIdle
<1> QED
  BY <1>2, UpstreamInv, PTL

\* A request is told that all has failed only when every address it came to
\* know, the second wave's too, has been dialled.
THEOREM AllDialled == Spec => []GivesUpAfterAll
<1>1. IInv => GivesUpAfterAll
  BY DEF IInv, Alone, Ahead, GivesUpAfterAll
<1> QED
  BY <1>1, UpstreamInv, PTL
=============================================================================
