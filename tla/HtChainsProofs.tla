--------------------------- MODULE HtChainsProofs ---------------------------
(***************************************************************************)
(* Proofs about HtChains, for every set of keys, every hash function and   *)
(* every length of the table.  A table is reasoned about as the set of its *)
(* entries (Contents); the sequence Entries that rehash walks through      *)
(* enumerates that set.                                                    *)
(***************************************************************************)
EXTENDS HtChains, NatRecursion, FiniteSetTheorems

Entry == [key : Keys, value : Values]
BucketType == [nodes : Seq(Entry), capacity : Nat]
Tables(N) == [0..N - 1 -> BucketType]

SetOf(s) == {s[n] : n \in 1..Len(s)}
OneEach(s) == \A p, q \in 1..Len(s) : s[p].key = s[q].key => p = q

\* A bucket that may stand at i in a table of length N.
Fits(bucket, i, N) ==
    /\ bucket \in BucketType
    /\ bucket.capacity > Len(bucket.nodes)
    /\ \A n \in 1..Len(bucket.nodes) : hash_key(bucket.nodes[n].key, N) = i
    /\ OneEach(bucket.nodes)

InPlace(t, N) == t \in Tables(N) /\ \A i \in 0..N - 1 : Fits(t[i], i, N)

Contents(t, N) == {e \in Entry : \E i \in 0..N - 1 : e \in SetOf(t[i].nodes)}

\* The lemmas' conclusions about buckets and tables.
Holds(bucket, entries, n) == SetOf(bucket.nodes) = entries /\ Len(bucket.nodes) = n
Replaces(u, t, i, bucket) == u = [t EXCEPT ![i] = bucket]
Without(bucket, n) == [bucket EXCEPT !.nodes = RemoveAt(@, n)]
LongerBy(u, t, d) == Len(Entries(u)) \in Nat /\ Len(Entries(u)) = Len(Entries(t)) + d
Revalued(bucket, n, v) == [bucket EXCEPT !.nodes[n].value = v]
InTable(t, N, entries) == InPlace(t, N) /\ Contents(t, N) = entries

-----------------------------------------------------------------------------
(* Sequences of entries                                                    *)

LEMMA ConcatAt ==
    ASSUME NEW E, NEW a \in Seq(E), NEW b \in Seq(E)
    PROVE  /\ a \o b \in Seq(E)
           /\ Len(a \o b) = Len(a) + Len(b)
           /\ \A j \in 1..Len(a) : (a \o b)[j] = a[j]
           /\ \A j \in 1..Len(b) : (a \o b)[Len(a) + j] = b[j]
OBVIOUS

LEMMA SetOfConcat ==
    ASSUME NEW E, NEW a \in Seq(E), NEW b \in Seq(E)
    PROVE  SetOf(a \o b) = SetOf(a) \cup SetOf(b)
<1> DEFINE d == a \o b
<1>1. /\ Len(d) = Len(a) + Len(b) /\ Len(a) \in Nat /\ Len(b) \in Nat
      /\ \A j \in 1..Len(a) : d[j] = a[j]
      /\ \A j \in 1..Len(b) : d[Len(a) + j] = b[j]
  <2>1. Len(a) \in Nat /\ Len(b) \in Nat
    OBVIOUS
  <2> QED BY <2>1, ConcatAt
<1> HIDE DEF d
<1>2. ASSUME NEW j \in 1..Len(d) PROVE d[j] \in SetOf(a) \cup SetOf(b)
  <2>1. CASE j <= Len(a)
    BY <1>1, <2>1 DEF SetOf
  <2>2. CASE ~(j <= Len(a))
    <3> DEFINE k == j - Len(a)
    <3>1. k \in 1..Len(b) /\ j = Len(a) + k
      BY <1>1, <2>2
    <3> HIDE DEF k
    <3>2. d[j] = b[k]
      BY <1>1, <3>1
    <3> QED BY <3>1, <3>2 DEF SetOf
  <2> QED BY <2>1, <2>2
<1>3. \A j \in 1..Len(a) : a[j] \in SetOf(d)
  <2>1. \A j \in 1..Len(a) : j \in 1..Len(d) /\ d[j] = a[j]
    BY <1>1
  <2> QED BY <2>1 DEF SetOf
<1>4. \A j \in 1..Len(b) : b[j] \in SetOf(d)
  <2>1. \A j \in 1..Len(b) : Len(a) + j \in 1..Len(d) /\ d[Len(a) + j] = b[j]
    BY <1>1
  <2> QED BY <2>1 DEF SetOf
<1>5. SetOf(d) = SetOf(a) \cup SetOf(b)
  BY <1>2, <1>3, <1>4 DEF SetOf
<1> QED BY <1>5 DEF d

(* Keys stay different if none of the one is among the other's.            *)
LEMMA OneEachConcat ==
    ASSUME NEW E, NEW a \in Seq(E), NEW b \in Seq(E), OneEach(a), OneEach(b),
           \A e \in SetOf(a), g \in SetOf(b) : e.key # g.key
    PROVE  OneEach(a \o b)
<1> DEFINE d == a \o b
<1>1. /\ Len(d) = Len(a) + Len(b) /\ Len(a) \in Nat /\ Len(b) \in Nat
      /\ \A j \in 1..Len(a) : d[j] = a[j]
      /\ \A j \in 1..Len(b) : d[Len(a) + j] = b[j]
  <2>1. Len(a) \in Nat /\ Len(b) \in Nat
    OBVIOUS
  <2> QED BY <2>1, ConcatAt
<1> HIDE DEF d
<1>2. \A j \in 1..Len(d) : j > Len(a) => j - Len(a) \in 1..Len(b) /\ d[j] = b[j - Len(a)]
  <2>1. ASSUME NEW j \in 1..Len(d), j > Len(a)
        PROVE  j - Len(a) \in 1..Len(b) /\ d[j] = b[j - Len(a)]
    <3> DEFINE k == j - Len(a)
    <3>1. k \in 1..Len(b) /\ j = Len(a) + k
      BY <1>1, <2>1
    <3>2. d[j] = b[k]
      <4> HIDE DEF k
      <4> QED BY <1>1, <3>1
    <3> QED BY <3>1, <3>2
  <2> QED BY <2>1
<1>3. \A j \in 1..Len(a), m \in 1..Len(b) : a[j].key # b[m].key
  BY DEF SetOf
<1>4. ASSUME NEW p \in 1..Len(d), NEW q \in 1..Len(d), d[p].key = d[q].key PROVE p = q
  <2>1. CASE p <= Len(a) /\ q <= Len(a)
    <3>1. p \in 1..Len(a) /\ q \in 1..Len(a)
      BY <1>1, <2>1
    <3>2. d[p] = a[p] /\ d[q] = a[q]
      BY <1>1, <3>1
    <3> QED BY <1>4, <3>1, <3>2 DEF OneEach
  <2>2. CASE p > Len(a) /\ q > Len(a)
    <3>1. /\ p - Len(a) \in 1..Len(b) /\ d[p] = b[p - Len(a)]
          /\ q - Len(a) \in 1..Len(b) /\ d[q] = b[q - Len(a)]
      BY <1>2, <2>2
    <3>2. p - Len(a) = q - Len(a)
      BY <1>4, <3>1, Zenon DEF OneEach
    <3> QED BY <1>1, <3>2
  <2>3. CASE p <= Len(a) /\ q > Len(a)
    <3>1. p \in 1..Len(a) /\ q - Len(a) \in 1..Len(b) /\ d[q] = b[q - Len(a)]
      BY <1>1, <1>2, <2>3
    <3>2. d[p] = a[p]
      BY <1>1, <3>1
    <3> QED BY <1>3, <1>4, <3>1, <3>2, Zenon
  <2>4. CASE p > Len(a) /\ q <= Len(a)
    <3>1. q \in 1..Len(a) /\ p - Len(a) \in 1..Len(b) /\ d[p] = b[p - Len(a)]
      BY <1>1, <1>2, <2>4
    <3>2. d[q] = a[q]
      BY <1>1, <3>1
    <3> QED BY <1>3, <1>4, <3>1, <3>2, Zenon
  <2> QED BY <1>1, <2>1, <2>2, <2>3, <2>4
<1>5. OneEach(d)
  BY <1>4 DEF OneEach
<1> QED BY <1>5 DEF d

-----------------------------------------------------------------------------
(* Entries: the buckets one after another                                  *)

LEMMA HashInRange ==
    ASSUME NEW N \in Nat \ {0}, NEW k \in Keys
    PROVE  hash_key(k, N) \in 0..N - 1
<1>1. Hash[k] \in Nat
  BY HtAssumption
<1> QED BY <1>1 DEF hash_key

LEMMA LengthOf ==
    ASSUME NEW N \in Nat, NEW t, DOMAIN t = 0..N - 1
    PROVE  Cardinality(DOMAIN t) = N
<1>1. Cardinality(0..N - 1) = IF 0 > N - 1 THEN 0 ELSE (N - 1) - 0 + 1
  BY FS_Interval
<1> QED BY <1>1

\* f[n] holds the entries of the first n buckets.
Gathers(t, N, f) ==
    /\ f \in [0..N -> Seq(Entry)]
    /\ f[0] = <<>>
    /\ \A n \in 0..N - 1 : f[n + 1] = f[n] \o t[n].nodes

LEMMA EntriesAre ==
    ASSUME NEW N \in Nat, NEW t \in Tables(N)
    PROVE  \E f : Gathers(t, N, f) /\ Entries(t) = f[N]
<1>1. Cardinality(DOMAIN t) = N
  BY LengthOf DEF Tables
<1> DEFINE step == [p \in (0..N - 1) \X Seq(Entry) |-> p[2] \o t[p[1]].nodes]
           IsUpTo(u) == u = [i \in 0..N |-> IF i = 0 THEN <<>> ELSE u[i - 1] \o t[i - 1].nodes]
<1>2. \A n \in 0..N - 1 : t[n].nodes \in Seq(Entry)
  BY DEF Tables, BucketType
<1>3. \A n \in 0..N - 1, v \in Seq(Entry) :
         step[<<n, v>>] = v \o t[n].nodes /\ v \o t[n].nodes \in Seq(Entry)
  <2>1. ASSUME NEW n \in 0..N - 1, NEW v \in Seq(Entry)
        PROVE  step[<<n, v>>] = v \o t[n].nodes /\ v \o t[n].nodes \in Seq(Entry)
    <3>1. step[<<n, v>>] = v \o t[n].nodes
      OBVIOUS
    <3>2. v \o t[n].nodes \in Seq(Entry)
      BY <1>2, ConcatAt
    <3> QED BY <3>1, <3>2
  <2> QED BY <2>1
<1> HIDE DEF step
<1>4. PICK g : RecursUpTo(g, N, Seq(Entry), <<>>, step)
  <2>1. <<>> \in Seq(Entry)
    OBVIOUS
  <2>2. IsRecursionUpTo(N, Seq(Entry), <<>>, step)
    BY <1>3, <2>1, Zenon DEF IsRecursionUpTo
  <2> QED BY <2>2, RecursionUpTo
<1>5. IsUpTo(g)
  <2>1. ASSUME NEW i \in 0..N, i # 0 PROVE g[i] = g[i - 1] \o t[i - 1].nodes
    <3>1. i - 1 \in 0..N - 1 /\ i - 1 \in 0..N /\ (i - 1) + 1 = i
      BY <2>1
    <3>2. g[i] = step[<<i - 1, g[i - 1]>>] /\ g[i - 1] \in Seq(Entry)
      BY <1>4, <3>1 DEF RecursUpTo
    <3> QED BY <1>3, <3>1, <3>2
  <2>2. \A i \in 0..N : g[i] = IF i = 0 THEN <<>> ELSE g[i - 1] \o t[i - 1].nodes
    BY <1>4, <2>1 DEF RecursUpTo
  <2> QED BY <1>4, <2>2 DEF RecursUpTo
<1> DEFINE f == CHOOSE u : IsUpTo(u)
<1>6. IsUpTo(f)
  BY <1>5
<1>7. Entries(t) = f[N]
  BY <1>1 DEF Entries
<1> HIDE DEF f
<1>8. f[0] = <<>> /\ DOMAIN f = 0..N
  BY <1>6
<1>9. \A n \in 0..N - 1 : f[n + 1] = f[n] \o t[n].nodes
  <2>1. \A i \in 0..N : f[i] = IF i = 0 THEN <<>> ELSE f[i - 1] \o t[i - 1].nodes
    BY <1>6
  <2>2. ASSUME NEW n \in 0..N - 1 PROVE f[n + 1] = f[n] \o t[n].nodes
    <3>1. n + 1 \in 0..N /\ n + 1 # 0 /\ (n + 1) - 1 = n
      OBVIOUS
    <3> QED BY <2>1, <3>1
  <2> QED BY <2>2
<1> DEFINE S == {n \in 0..N : f[n] \in Seq(Entry)}
<1>10. 0..N \subseteq S
  <2>1. 0 \in S
    <3>1. <<>> \in Seq(Entry) /\ 0 \in 0..N
      OBVIOUS
    <3> QED BY <1>8, <3>1, Zenon
  <2>2. ASSUME NEW n \in 0..N - 1, n \in S PROVE n + 1 \in S
    <3>1. f[n] \o t[n].nodes \in Seq(Entry)
      BY <1>2, <2>2, ConcatAt
    <3>2. n + 1 \in 0..N
      OBVIOUS
    <3> QED BY <1>9, <3>1, <3>2, Zenon
  <2> HIDE DEF S
  <2> QED BY <2>1, <2>2, SetInductionUpTo
<1>11. f \in [0..N -> Seq(Entry)]
  BY <1>6, <1>10
<1> QED BY <1>7, <1>8, <1>9, <1>11 DEF Gathers

(* When one bucket is replaced, the number of entries changes by as much   *)
(* as its length.                                                          *)
LEMMA EntriesReplaced ==
    ASSUME NEW N \in Nat, NEW t \in Tables(N), NEW i \in 0..N - 1, NEW b \in BucketType,
           NEW u, Replaces(u, t, i, b)
    PROVE  /\ Len(Entries(t)) \in Nat /\ Len(Entries(u)) \in Nat
           /\ Len(Entries(u)) + Len(t[i].nodes) = Len(Entries(t)) + Len(b.nodes)
<1>1. u \in Tables(N) /\ u[i] = b /\ \A j \in 0..N - 1 : j # i => u[j] = t[j]
  BY DEF Tables, Replaces
<1>2. PICK f : Gathers(t, N, f) /\ Entries(t) = f[N]
  BY EntriesAre
<1>3. PICK g : Gathers(u, N, g) /\ Entries(u) = g[N]
  BY <1>1, EntriesAre
<1>4. /\ \A n \in 0..N : Len(f[n]) \in Nat /\ Len(g[n]) \in Nat
      /\ f[0] = <<>> /\ g[0] = <<>>
  BY <1>2, <1>3 DEF Gathers
<1>5. ASSUME NEW n \in 0..N - 1
      PROVE  /\ Len(t[n].nodes) \in Nat /\ Len(u[n].nodes) \in Nat
             /\ Len(f[n + 1]) = Len(f[n]) + Len(t[n].nodes)
             /\ Len(g[n + 1]) = Len(g[n]) + Len(u[n].nodes)
  <2>1. n \in 0..N /\ t[n].nodes \in Seq(Entry) /\ u[n].nodes \in Seq(Entry)
    BY <1>1 DEF Tables, BucketType
  <2>2. /\ f[n] \in Seq(Entry) /\ f[n + 1] = f[n] \o t[n].nodes
        /\ g[n] \in Seq(Entry) /\ g[n + 1] = g[n] \o u[n].nodes
    BY <1>2, <1>3, <2>1 DEF Gathers
  <2>3. /\ Len(f[n] \o t[n].nodes) = Len(f[n]) + Len(t[n].nodes)
        /\ Len(g[n] \o u[n].nodes) = Len(g[n]) + Len(u[n].nodes)
    BY <2>1, <2>2, ConcatAt
  <2>4. Len(t[n].nodes) \in Nat /\ Len(u[n].nodes) \in Nat
    BY <2>1
  <2> QED BY <2>2, <2>3, <2>4, Zenon
<1> DEFINE F(n) == Len(f[n])
           G(n) == Len(g[n])
           old == Len(t[i].nodes)
           new == Len(b.nodes)
           S == {n \in 0..N : (n <= i => G(n) = F(n)) /\ (n > i => G(n) + old = F(n) + new)}
<1>6. /\ F(0) = G(0) /\ old \in Nat /\ new \in Nat
      /\ \A n \in 0..N : F(n) \in Nat /\ G(n) \in Nat
  <2>1. Len(t[i].nodes) \in Nat /\ Len(u[i].nodes) \in Nat
    BY <1>5
  <2> QED BY <1>1, <1>4, <2>1
<1>7. \A n \in 0..N - 1 :
         /\ n # i => \E d \in Nat : F(n + 1) = F(n) + d /\ G(n + 1) = G(n) + d
         /\ n = i => F(n + 1) = F(n) + old /\ G(n + 1) = G(n) + new
  BY <1>1, <1>5
<1> HIDE DEF F, G, old, new
<1>8. 0 \in S
  BY <1>6
<1>9. ASSUME NEW n \in 0..N - 1, n \in S PROVE n + 1 \in S
  <2>1. F(n) \in Nat /\ G(n) \in Nat /\ n \in Int /\ i \in Int /\ n + 1 \in 0..N
    BY <1>6
  <2>2. CASE n < i
    <3>1. PICK d \in Nat : F(n + 1) = F(n) + d /\ G(n + 1) = G(n) + d
      BY <1>7, <2>1, <2>2
    <3>2. F(n) = G(n)
      BY <1>9, <2>1, <2>2
    <3> QED BY <2>1, <2>2, <3>1, <3>2
  <2>3. CASE n = i
    <3>1. F(n + 1) = F(n) + old /\ G(n + 1) = G(n) + new
      BY <1>7, <2>3
    <3>2. F(n) = G(n)
      BY <1>9, <2>1, <2>3
    <3>3. G(n + 1) + old = F(n + 1) + new
      BY <1>6, <2>1, <3>1, <3>2
    <3> QED BY <2>1, <2>3, <3>3
  <2>4. CASE n > i
    <3>1. PICK d \in Nat : F(n + 1) = F(n) + d /\ G(n + 1) = G(n) + d
      BY <1>7, <2>1, <2>4
    <3>2. G(n) + old = F(n) + new
      BY <1>9, <2>1, <2>4
    <3>3. G(n + 1) + old = F(n + 1) + new
      BY <1>6, <2>1, <3>1, <3>2
    <3> QED BY <2>1, <2>4, <3>3
  <2> QED BY <2>1, <2>2, <2>3, <2>4
<1>10. N \in S
  <2> HIDE DEF S
  <2> QED BY <1>8, <1>9, SetInductionUpTo
<1>11. G(N) + old = F(N) + new
  BY <1>10
<1>12. Len(g[N]) + Len(t[i].nodes) = Len(f[N]) + Len(b.nodes)
  BY <1>11 DEF F, G, old, new
<1>13. Len(f[N]) \in Nat /\ Len(g[N]) \in Nat
  BY <1>4
<1>14. /\ Len(Entries(t)) \in Nat /\ Len(Entries(u)) \in Nat
       /\ Len(Entries(u)) + Len(t[i].nodes) = Len(Entries(t)) + Len(b.nodes)
  BY <1>2, <1>3, <1>12, <1>13, Zenon
<1> QED BY <1>14

(* The walk over the buckets meets every entry, and no key twice.          *)
LEMMA EntriesEnumerate ==
    ASSUME NEW N \in Nat, NEW t, InPlace(t, N)
    PROVE  /\ Entries(t) \in Seq(Entry)
           /\ SetOf(Entries(t)) = Contents(t, N)
           /\ OneEach(Entries(t))
<1>1. t \in Tables(N) /\ \A n \in 0..N - 1 : Fits(t[n], n, N)
  BY DEF InPlace
<1>2. PICK f : Gathers(t, N, f) /\ Entries(t) = f[N]
  BY <1>1, EntriesAre
<1>3. \A n \in 0..N : f[n] \in Seq(Entry)
  BY <1>2 DEF Gathers
<1> DEFINE Before(n) == {e \in Entry : \E i \in 0..n - 1 : e \in SetOf(t[i].nodes)}
           S == {n \in 0..N : SetOf(f[n]) = Before(n) /\ OneEach(f[n])}
<1>4. 0 \in S
  <2>1. f[0] = <<>> /\ Before(0) = {}
    BY <1>2 DEF Gathers
  <2>2. SetOf(<<>>) = {} /\ OneEach(<<>>)
    BY DEF SetOf, OneEach
  <2> QED BY <2>1, <2>2
<1>5. ASSUME NEW n \in 0..N - 1, n \in S PROVE n + 1 \in S
  <2>1. n \in 0..N /\ n + 1 \in 0..N /\ f[n + 1] = f[n] \o t[n].nodes
    <3>1. n \in 0..N /\ n + 1 \in 0..N
      OBVIOUS
    <3>2. f[n + 1] = f[n] \o t[n].nodes
      BY <1>2 DEF Gathers
    <3> QED BY <3>1, <3>2
  <2>2. f[n] \in Seq(Entry) /\ t[n].nodes \in Seq(Entry)
    BY <1>1, <1>3, <2>1 DEF Fits, BucketType
  <2>3. SetOf(t[n].nodes) \subseteq Entry
    BY <2>2 DEF SetOf
  <2>4. Before(n + 1) = Before(n) \cup SetOf(t[n].nodes)
    <3>1. \A i \in Int : i \in 0..n <=> (i \in 0..n - 1 \/ i = n)
      OBVIOUS
    <3>2. 0..(n + 1) - 1 = 0..n
      OBVIOUS
    <3> QED BY <2>3, <3>1, <3>2
  <2>5. SetOf(f[n + 1]) = Before(n + 1)
    <3>1. SetOf(f[n + 1]) = SetOf(f[n]) \cup SetOf(t[n].nodes)
      BY <2>1, <2>2, SetOfConcat
    <3> QED BY <1>5, <2>4, <3>1
  <2>6. OneEach(f[n + 1])
    <3>1. OneEach(f[n]) /\ OneEach(t[n].nodes)
      BY <1>1, <1>5 DEF Fits
    <3>2. \A e \in SetOf(t[n].nodes) : hash_key(e.key, N) = n
      BY <1>1 DEF Fits, SetOf
    <3>3. \A e \in Before(n) : \E i \in 0..n - 1 : hash_key(e.key, N) = i
      <4>1. \A i \in 0..n - 1 : Fits(t[i], i, N)
        BY <1>1
      <4> QED BY <4>1 DEF Fits, SetOf
    <3>4. \A e \in SetOf(f[n]), g \in SetOf(t[n].nodes) : e.key # g.key
      <4>1. SetOf(f[n]) = Before(n) /\ \A i \in 0..n - 1 : i # n
        BY <1>5
      <4> HIDE DEF Before, S
      <4> QED BY <3>2, <3>3, <4>1, Zenon
    <3> QED BY <2>1, <2>2, <3>1, <3>4, OneEachConcat
  <2> HIDE DEF Before
  <2> QED BY <2>1, <2>5, <2>6
<1>6. N \in S
  <2> HIDE DEF S
  <2> QED BY <1>4, <1>5, SetInductionUpTo
<1>7. Before(N) = Contents(t, N)
  BY DEF Contents
<1> HIDE DEF Before
<1> QED BY <1>2, <1>3, <1>6, <1>7

-----------------------------------------------------------------------------
(* Buckets                                                                 *)

(* A table with another bucket in one place.                               *)
LEMMA BucketReplaced ==
    ASSUME NEW N \in Nat, NEW t, InPlace(t, N), NEW i \in 0..N - 1, NEW b, Fits(b, i, N),
           NEW u, Replaces(u, t, i, b)
    PROVE  InTable(u, N, {e \in Contents(t, N) : hash_key(e.key, N) # i} \cup SetOf(b.nodes))
<1>1. /\ t \in Tables(N) /\ b \in BucketType
      /\ \A n \in 0..N - 1 : Fits(t[n], n, N)
  BY DEF InPlace, Fits
<1>2. u \in Tables(N) /\ u[i] = b /\ \A j \in 0..N - 1 : j # i => u[j] = t[j]
  BY <1>1 DEF Tables, Replaces
<1>3. \A j \in 0..N - 1 : Fits(u[j], j, N)
  BY <1>1, <1>2
<1>4. InPlace(u, N)
  BY <1>2, <1>3 DEF InPlace
<1>5. \A j \in 0..N - 1 : \A e \in SetOf(t[j].nodes) : hash_key(e.key, N) = j
  BY <1>1 DEF Fits, SetOf
<1>6. \A j \in 0..N - 1 : \A e \in SetOf(u[j].nodes) : hash_key(e.key, N) = j
  BY <1>3 DEF Fits, SetOf
<1>7. SetOf(b.nodes) \subseteq Entry
  BY <1>1 DEF BucketType, SetOf
<1>8. Contents(u, N) = {e \in Contents(t, N) : hash_key(e.key, N) # i} \cup SetOf(b.nodes)
  BY <1>2, <1>5, <1>6, <1>7, Zenon DEF Contents
<1> QED BY <1>4, <1>8 DEF InTable

(* list_insert grows a full bucket, so that the sentinel keeps its place.  *)
LEMMA CapacityGrows ==
    ASSUME NEW b \in BucketType, NEW e \in Entry
    PROVE  LET c == list_insert(b, e)
           IN  /\ c \in BucketType
               /\ c.nodes = <<e>> \o b.nodes
               /\ b.capacity > Len(b.nodes) => c.capacity > Len(b.nodes) + 1
<1> DEFINE M == Max({2 * b.capacity, INITIAL_CAPACITY})
<1>1. b.capacity \in Nat /\ Len(b.nodes) \in Nat /\ b.nodes \in Seq(Entry)
  BY DEF BucketType
<1>2. M \in Nat /\ M >= 2 * b.capacity
  <2> DEFINE T == {2 * b.capacity, INITIAL_CAPACITY}
  <2>1. 2 * b.capacity \in Nat /\ INITIAL_CAPACITY \in Nat
    BY <1>1, HtAssumption
  <2>2. \E x \in T : \A y \in T : x >= y
    BY <2>1
  <2>3. M \in T /\ \A y \in T : M >= y
    BY <2>2 DEF Max
  <2> QED BY <2>1, <2>3
<1> HIDE DEF M
<1>3. <<e>> \in Seq(Entry) /\ <<e>> \o b.nodes \in Seq(Entry)
  BY <1>1, ConcatAt
<1>4. list_insert(b, e) = [nodes |-> <<e>> \o b.nodes, capacity |-> IF ~Full(b) THEN b.capacity ELSE M]
  BY DEF list_insert, M
<1>5. CASE Full(b)
  BY <1>1, <1>2, <1>3, <1>4, <1>5 DEF Full, BucketType
<1>6. CASE ~Full(b)
  BY <1>1, <1>3, <1>4, <1>6 DEF Full, BucketType
<1> QED BY <1>5, <1>6

LEMMA InsertFits ==
    ASSUME NEW N \in Nat, NEW i, NEW b, Fits(b, i, N), NEW e \in Entry, hash_key(e.key, N) = i,
           \A g \in SetOf(b.nodes) : g.key # e.key
    PROVE  /\ Fits(list_insert(b, e), i, N)
           /\ Holds(list_insert(b, e), SetOf(b.nodes) \cup {e}, Len(b.nodes) + 1)
<1> DEFINE c == list_insert(b, e)
           one == <<e>>
<1>1. b \in BucketType /\ b.capacity > Len(b.nodes) /\ OneEach(b.nodes) /\ b.nodes \in Seq(Entry)
  BY DEF Fits, BucketType
<1>2. c \in BucketType /\ c.nodes = one \o b.nodes /\ c.capacity > Len(b.nodes) + 1
  BY <1>1, CapacityGrows
<1>3. one \in Seq(Entry) /\ Len(one) = 1 /\ SetOf(one) = {e} /\ OneEach(one)
  BY DEF SetOf, OneEach
<1> HIDE DEF c, one
<1>4. Len(one \o b.nodes) = Len(one) + Len(b.nodes) /\ Len(b.nodes) \in Nat
  <2>1. Len(b.nodes) \in Nat
    BY <1>1
  <2>2. Len(one \o b.nodes) = Len(one) + Len(b.nodes)
    BY <1>1, <1>3, ConcatAt, Zenon
  <2> QED BY <2>1, <2>2
<1>5. Len(c.nodes) = Len(b.nodes) + 1
  BY <1>2, <1>3, <1>4
<1>6. SetOf(c.nodes) = SetOf(b.nodes) \cup {e}
  <2>1. SetOf(one \o b.nodes) = SetOf(one) \cup SetOf(b.nodes)
    BY <1>1, <1>3, SetOfConcat
  <2> QED BY <1>2, <1>3, <2>1
<1>7. OneEach(c.nodes)
  <2>1. \A g \in SetOf(one), h \in SetOf(b.nodes) : g.key # h.key
    BY <1>3
  <2>2. OneEach(one \o b.nodes)
    BY <1>1, <1>3, <2>1, OneEachConcat
  <2> QED BY <1>2, <2>2
<1>8. \A n \in 1..Len(c.nodes) : hash_key(c.nodes[n].key, N) = i
  <2>1. \A g \in SetOf(b.nodes) : hash_key(g.key, N) = i
    BY DEF Fits, SetOf
  <2>2. \A g \in SetOf(c.nodes) : hash_key(g.key, N) = i
    BY <1>6, <2>1
  <2> QED BY <2>2 DEF SetOf
<1>9. c.capacity > Len(c.nodes)
  BY <1>2, <1>5
<1>10. Fits(c, i, N)
  BY <1>2, <1>7, <1>8, <1>9 DEF Fits
<1> QED BY <1>5, <1>6, <1>10 DEF c, Holds

LEMMA RemoveAtIs ==
    ASSUME NEW E, NEW s \in Seq(E), NEW n \in 1..Len(s)
    PROVE  /\ RemoveAt(s, n) \in Seq(E)
           /\ Len(RemoveAt(s, n)) = Len(s) - 1
           /\ \A j \in 1..Len(s) - 1 : RemoveAt(s, n)[j] = IF j < n THEN s[j] ELSE s[j + 1]
<1> DEFINE a == SubSeq(s, 1, n - 1)
           b == SubSeq(s, n + 1, Len(s))
           d == a \o b
<1>1. Len(s) \in Nat /\ n \in Nat /\ n >= 1 /\ n <= Len(s)
  OBVIOUS
<1>2. a \in Seq(E) /\ Len(a) = n - 1 /\ \A j \in 1..n - 1 : a[j] = s[j]
  BY <1>1
<1>3. b \in Seq(E) /\ Len(b) = Len(s) - n /\ \A j \in 1..Len(s) - n : b[j] = s[n + j]
  BY <1>1
<1>4. RemoveAt(s, n) = d
  BY DEF RemoveAt
<1> HIDE DEF a, b
<1>5. /\ d \in Seq(E) /\ Len(d) = Len(a) + Len(b)
      /\ \A j \in 1..Len(a) : d[j] = a[j]
      /\ \A j \in 1..Len(b) : d[Len(a) + j] = b[j]
  <2>1. a \in Seq(E) /\ b \in Seq(E)
    BY <1>2, <1>3
  <2>2. Len(a) \in Nat /\ Len(b) \in Nat
    BY <2>1
  <2> HIDE DEF d
  <2> QED BY <2>1, <2>2, ConcatAt DEF d
<1> HIDE DEF d
<1>6. ASSUME NEW j \in 1..Len(s) - 1 PROVE d[j] = IF j < n THEN s[j] ELSE s[j + 1]
  <2>1. CASE j < n
    BY <1>1, <1>2, <1>5, <2>1
  <2>2. CASE ~(j < n)
    <3> DEFINE k == j - (n - 1)
    <3>1. k \in 1..Len(b) /\ j = Len(a) + k /\ n + k = j + 1 /\ k \in 1..Len(s) - n
      BY <1>1, <1>2, <1>3, <2>2
    <3> HIDE DEF k
    <3>2. d[j] = b[k] /\ b[k] = s[j + 1]
      BY <1>3, <1>5, <3>1
    <3> QED BY <2>2, <3>2
  <2> QED BY <2>1, <2>2
<1>7. Len(d) = Len(s) - 1
  BY <1>1, <1>2, <1>3, <1>5
<1> QED BY <1>4, <1>5, <1>6, <1>7

LEMMA RemoveFits ==
    ASSUME NEW N \in Nat, NEW i, NEW b, Fits(b, i, N), NEW n \in 1..Len(b.nodes),
           NEW c, c = [nodes |-> RemoveAt(b.nodes, n), capacity |-> b.capacity]
    PROVE  /\ Fits(c, i, N)
           /\ Holds(c, SetOf(b.nodes) \ {b.nodes[n]}, Len(b.nodes) - 1)
<1> DEFINE s == b.nodes
           r == RemoveAt(s, n)
<1>1. /\ b \in BucketType /\ b.capacity \in Nat /\ b.capacity > Len(s) /\ OneEach(s) /\ s \in Seq(Entry)
      /\ \A m \in 1..Len(s) : hash_key(s[m].key, N) = i
  BY DEF Fits, BucketType
<1>2. Len(s) \in Nat /\ n \in Nat /\ 1 <= n /\ n <= Len(s)
  BY <1>1
<1>3. c.nodes = r /\ c.capacity = b.capacity /\ (r \in Seq(Entry) => c \in BucketType)
  BY <1>1 DEF BucketType
<1> HIDE DEF s, r
<1>4. /\ r \in Seq(Entry) /\ Len(r) = Len(s) - 1
      /\ \A j \in 1..Len(s) - 1 : r[j] = IF j < n THEN s[j] ELSE s[j + 1]
  BY <1>1, RemoveAtIs DEF r, s
<1> DEFINE at(j) == IF j < n THEN j ELSE j + 1
<1>5. \A j \in 1..Len(s) - 1 : at(j) \in 1..Len(s) /\ at(j) # n
  BY <1>2
<1>6. \A m \in 1..Len(s) : m # n => \E j \in 1..Len(s) - 1 : at(j) = m
  <2>1. ASSUME NEW m \in 1..Len(s), m < n PROVE m \in 1..Len(s) - 1 /\ at(m) = m
    BY <1>2, <2>1
  <2>2. ASSUME NEW m \in 1..Len(s), m > n PROVE m - 1 \in 1..Len(s) - 1 /\ at(m - 1) = m
    BY <1>2, <2>2
  <2>3. \A m \in 1..Len(s) : m # n => m < n \/ m > n
    BY <1>2
  <2> QED BY <2>1, <2>2, <2>3
<1>7. \A j, k \in 1..Len(s) - 1 : at(j) = at(k) => j = k
  BY <1>2
<1>8. \A j \in 1..Len(s) - 1 : r[j] = s[at(j)]
  BY <1>4
<1> HIDE DEF at
<1>9. OneEach(r)
  <2>1. ASSUME NEW j \in 1..Len(s) - 1, NEW k \in 1..Len(s) - 1, r[j].key = r[k].key
        PROVE  j = k
    <3>1. at(j) \in 1..Len(s) /\ at(k) \in 1..Len(s) /\ s[at(j)].key = s[at(k)].key
      BY <1>5, <1>8, <2>1
    <3>2. at(j) = at(k)
      BY <1>1, <3>1 DEF OneEach
    <3> QED BY <1>7, <3>2
  <2> QED BY <1>4, <2>1 DEF OneEach
<1>10. \A m \in 1..Len(r) : hash_key(r[m].key, N) = i
  BY <1>1, <1>4, <1>5, <1>8
<1>11. SetOf(r) = SetOf(s) \ {s[n]}
  <2>1. \A m \in 1..Len(s) : s[m] = s[n] => m = n
    BY <1>1, <1>2 DEF OneEach
  <2>2. SetOf(r) = {s[at(j)] : j \in 1..Len(s) - 1}
    BY <1>4, <1>8 DEF SetOf
  <2>3. SetOf(s) = {s[j] : j \in 1..Len(s)}
    BY DEF SetOf
  <2>4. \A j \in 1..Len(s) - 1 : s[at(j)] \in SetOf(s) \ {s[n]}
    BY <1>5, <2>1, <2>3
  <2>5. \A m \in 1..Len(s) : s[m] # s[n] => \E j \in 1..Len(s) - 1 : s[m] = s[at(j)]
    BY <1>6
  <2> QED BY <2>2, <2>3, <2>4, <2>5, Zenon
<1>12. c.capacity > Len(c.nodes)
  BY <1>1, <1>2, <1>3, <1>4
<1>13. Fits(c, i, N)
  BY <1>3, <1>4, <1>9, <1>10, <1>12 DEF Fits
<1> QED BY <1>3, <1>4, <1>11, <1>13 DEF s, Holds

LEMMA UpdateFits ==
    ASSUME NEW N \in Nat, NEW i, NEW b, Fits(b, i, N), NEW n \in 1..Len(b.nodes), NEW v \in Values,
           NEW c, c = [nodes |-> [b.nodes EXCEPT ![n] = [key |-> b.nodes[n].key, value |-> v]],
                       capacity |-> b.capacity]
    PROVE  /\ Fits(c, i, N)
           /\ Holds(c, (SetOf(b.nodes) \ {b.nodes[n]}) \cup {[key |-> b.nodes[n].key, value |-> v]},
                    Len(b.nodes))
<1> DEFINE s == b.nodes
           e == [key |-> s[n].key, value |-> v]
<1>1. /\ b \in BucketType /\ b.capacity \in Nat /\ b.capacity > Len(s) /\ OneEach(s) /\ s \in Seq(Entry)
      /\ \A m \in 1..Len(s) : hash_key(s[m].key, N) = i /\ s[m] \in Entry
  BY DEF Fits, BucketType
<1>2. e \in Entry /\ e.key = s[n].key
  BY <1>1 DEF Entry
<1>3. c.nodes = [s EXCEPT ![n] = e] /\ c.capacity = b.capacity /\ (c.nodes \in Seq(Entry) => c \in BucketType)
  BY <1>1 DEF BucketType
<1> HIDE DEF s, e
<1>4. n \in 1..Len(s) /\ Len(s) \in Nat
  BY <1>1 DEF s
<1>5. /\ c.nodes \in Seq(Entry) /\ Len(c.nodes) = Len(s) /\ c.nodes[n] = e
      /\ \A m \in 1..Len(s) : m # n => c.nodes[m] = s[m]
  <2> DEFINE r == [s EXCEPT ![n] = e]
  <2>1. s \in [1..Len(s) -> Entry]
    BY <1>1
  <2>2. /\ r \in [1..Len(s) -> Entry] /\ r[n] = e
        /\ \A m \in 1..Len(s) : m # n => r[m] = s[m]
    BY <1>2, <1>4, <2>1
  <2>3. c.nodes = r
    BY <1>3
  <2> HIDE DEF r
  <2>4. r \in Seq(Entry) /\ Len(r) = Len(s)
    BY <1>4, <2>2
  <2> QED BY <2>2, <2>3, <2>4
<1>6. \A m \in 1..Len(s) : c.nodes[m].key = s[m].key
  BY <1>2, <1>5
<1>7. OneEach(c.nodes)
  BY <1>1, <1>5, <1>6, Zenon DEF OneEach
<1>8. \A m \in 1..Len(c.nodes) : hash_key(c.nodes[m].key, N) = i
  BY <1>1, <1>5, <1>6
<1>9. \A m \in 1..Len(s) : s[m] = s[n] => m = n
  BY <1>1, <1>4 DEF OneEach
<1>10. SetOf(c.nodes) = (SetOf(s) \ {s[n]}) \cup {e}
  BY <1>4, <1>5, <1>9 DEF SetOf
<1>11. Fits(c, i, N)
  BY <1>1, <1>3, <1>5, <1>7, <1>8 DEF Fits
<1> QED BY <1>5, <1>10, <1>11 DEF s, e, Holds

(* A bucket holds the entries whose keys hash to it.                       *)
LEMMA InBucket ==
    ASSUME NEW N \in Nat, NEW t, InPlace(t, N), NEW i \in 0..N - 1
    PROVE  /\ Fits(t[i], i, N)
           /\ SetOf(t[i].nodes) = {e \in Contents(t, N) : hash_key(e.key, N) = i}
<1>1. \A j \in 0..N - 1 : Fits(t[j], j, N)
  BY DEF InPlace
<1>2. \A j \in 0..N - 1 : \A e \in SetOf(t[j].nodes) : e \in Entry /\ hash_key(e.key, N) = j
  BY <1>1 DEF Fits, SetOf, BucketType
<1> QED BY <1>1, <1>2 DEF Contents

(* The table maps each key to at most one value.                           *)
LEMMA OneEntryPerKey ==
    ASSUME NEW N \in Nat, NEW t, InPlace(t, N),
           NEW e \in Contents(t, N), NEW g \in Contents(t, N), e.key = g.key
    PROVE  e = g
<1>1. PICK i \in 0..N - 1 : e \in SetOf(t[i].nodes)
  BY DEF Contents
<1>2. hash_key(e.key, N) = i
  BY <1>1, InBucket
<1>3. g \in SetOf(t[i].nodes) /\ OneEach(t[i].nodes)
  BY <1>2, InBucket DEF Fits
<1> QED BY <1>1, <1>3 DEF SetOf, OneEach

(* bucket_find_node finds the node of a key that the table holds.          *)
LEMMA FindNode ==
    ASSUME NEW N \in Nat, NEW t, InPlace(t, N), NEW k \in Keys, NEW i \in 0..N - 1, i = hash_key(k, N)
    PROVE  /\ bucket_find_node(t[i], k) = {} => \A e \in Contents(t, N) : e.key # k
           /\ \A n \in bucket_find_node(t[i], k) :
                 n \in 1..Len(t[i].nodes) /\ t[i].nodes[n] \in Contents(t, N) /\ t[i].nodes[n].key = k
<1> DEFINE s == t[i].nodes
<1>1. Fits(t[i], i, N) /\ SetOf(s) = {e \in Contents(t, N) : hash_key(e.key, N) = i}
  BY InBucket
<1>2. s \in Seq(Entry) /\ Len(s) \in Nat /\ DOMAIN s = 1..Len(s) /\ OneEach(s)
  BY <1>1 DEF Fits, BucketType
<1>3. ASSUME NEW e \in Contents(t, N), e.key = k PROVE bucket_find_node(t[i], k) # {}
  <2>1. PICK n \in 1..Len(s) : s[n] = e
    BY <1>1, <1>3 DEF SetOf
  <2>2. \A m \in 1..n - 1 : m \in 1..Len(s) /\ m # n
    BY <1>2
  <2>3. \A m \in 1..n - 1 : s[m].key # k
    BY <1>2, <1>3, <2>1, <2>2 DEF OneEach
  <2>4. n \in bucket_find_node(t[i], k)
    BY <1>2, <1>3, <2>1, <2>3 DEF bucket_find_node
  <2> QED BY <2>4
<1>4. ASSUME NEW n \in bucket_find_node(t[i], k)
      PROVE  n \in 1..Len(s) /\ s[n] \in Contents(t, N) /\ s[n].key = k
  <2>1. n \in 1..Len(s) /\ s[n].key = k
    BY <1>2 DEF bucket_find_node
  <2>2. s[n] \in SetOf(s)
    BY <2>1 DEF SetOf
  <2> QED BY <1>1, <2>1, <2>2
<1> QED BY <1>3, <1>4

-----------------------------------------------------------------------------
(* What the operations do to a table                                       *)

LEMMA Entering ==
    ASSUME NEW N \in Nat, NEW t, InPlace(t, N), NEW e \in Entry, NEW i \in 0..N - 1,
           hash_key(e.key, N) = i, \A g \in Contents(t, N) : g.key # e.key,
           NEW u, Replaces(u, t, i, list_insert(t[i], e))
    PROVE  /\ InTable(u, N, Contents(t, N) \cup {e})
           /\ Len(Entries(t)) \in Nat /\ Len(Entries(u)) = Len(Entries(t)) + 1
<1> DEFINE b == list_insert(t[i], e)
           rest == {g \in Contents(t, N) : hash_key(g.key, N) # i}
<1>1. t \in Tables(N) /\ t[i] \in BucketType
  BY DEF InPlace, Tables
<1>2. Fits(t[i], i, N) /\ SetOf(t[i].nodes) = {g \in Contents(t, N) : hash_key(g.key, N) = i}
  BY InBucket
<1>3. \A g \in SetOf(t[i].nodes) : g.key # e.key
  BY <1>2
<1>4. Fits(b, i, N) /\ Holds(b, SetOf(t[i].nodes) \cup {e}, Len(t[i].nodes) + 1)
  BY <1>2, <1>3, InsertFits
<1> HIDE DEF b
<1>5. Replaces(u, t, i, b) /\ b \in BucketType
  BY <1>4 DEF b, Fits
<1>6. InTable(u, N, rest \cup SetOf(b.nodes))
  BY <1>4, <1>5, BucketReplaced
<1>7. /\ Len(Entries(t)) \in Nat /\ Len(Entries(u)) \in Nat
      /\ Len(Entries(u)) + Len(t[i].nodes) = Len(Entries(t)) + Len(b.nodes)
  BY <1>1, <1>5, EntriesReplaced
<1>8. Len(t[i].nodes) \in Nat
  BY <1>1 DEF BucketType
<1>9. rest \cup SetOf(b.nodes) = Contents(t, N) \cup {e}
  BY <1>2, <1>4 DEF Holds
<1>10. Len(Entries(u)) = Len(Entries(t)) + 1
  BY <1>4, <1>7, <1>8 DEF Holds
<1> HIDE DEF rest
<1> QED BY <1>6, <1>7, <1>9, <1>10, Zenon

LEMMA Removing ==
    ASSUME NEW N \in Nat, NEW t, InPlace(t, N), NEW i \in 0..N - 1, NEW n \in 1..Len(t[i].nodes),
           NEW u, Replaces(u, t, i, Without(t[i], n))
    PROVE  /\ InTable(u, N, Contents(t, N) \ {t[i].nodes[n]})
           /\ LongerBy(u, t, -1)
<1> DEFINE b == [nodes |-> RemoveAt(t[i].nodes, n), capacity |-> t[i].capacity]
           rest == {g \in Contents(t, N) : hash_key(g.key, N) # i}
<1>1. t \in Tables(N) /\ t[i] \in BucketType
  BY DEF InPlace, Tables
<1>2. Fits(t[i], i, N) /\ SetOf(t[i].nodes) = {g \in Contents(t, N) : hash_key(g.key, N) = i}
  BY InBucket
<1>3. Fits(b, i, N) /\ Holds(b, SetOf(t[i].nodes) \ {t[i].nodes[n]}, Len(t[i].nodes) - 1)
  BY <1>2, RemoveFits
<1>4. Replaces(u, t, i, b)
  <2>1. b = Without(t[i], n)
    BY <1>1 DEF BucketType, Without
  <2> HIDE DEF b
  <2> QED BY <2>1 DEF Replaces
<1> HIDE DEF b
<1>5. Replaces(u, t, i, b) /\ b \in BucketType
  BY <1>3, <1>4 DEF Fits
<1>6. InTable(u, N, rest \cup SetOf(b.nodes))
  BY <1>3, <1>5, BucketReplaced
<1>7. /\ Len(Entries(t)) \in Nat /\ Len(Entries(u)) \in Nat
      /\ Len(Entries(u)) + Len(t[i].nodes) = Len(Entries(t)) + Len(b.nodes)
  BY <1>1, <1>5, EntriesReplaced
<1>8. Len(t[i].nodes) \in Nat /\ t[i].nodes[n] \in SetOf(t[i].nodes)
  BY <1>1 DEF BucketType, SetOf
<1>9. rest \cup SetOf(b.nodes) = Contents(t, N) \ {t[i].nodes[n]}
  BY <1>2, <1>3, <1>8 DEF Holds
<1>10. LongerBy(u, t, -1)
  BY <1>3, <1>7, <1>8 DEF Holds, LongerBy
<1> HIDE DEF rest
<1> QED BY <1>6, <1>9, <1>10, Zenon

LEMMA Updating ==
    ASSUME NEW N \in Nat, NEW t, InPlace(t, N), NEW i \in 0..N - 1, NEW n \in 1..Len(t[i].nodes),
           NEW v \in Values, NEW u, Replaces(u, t, i, Revalued(t[i], n, v))
    PROVE  /\ InTable(u, N, (Contents(t, N) \ {t[i].nodes[n]})
                                \cup {[key |-> t[i].nodes[n].key, value |-> v]})
           /\ LongerBy(u, t, 0)
<1> DEFINE e == [key |-> t[i].nodes[n].key, value |-> v]
           nodes == [t[i].nodes EXCEPT ![n] = e]
           b == [nodes |-> nodes, capacity |-> t[i].capacity]
           rest == {g \in Contents(t, N) : hash_key(g.key, N) # i}
<1>1. t \in Tables(N) /\ t[i] \in BucketType /\ t[i].nodes[n] \in Entry
  BY DEF InPlace, Tables, BucketType
<1>2. Fits(t[i], i, N) /\ SetOf(t[i].nodes) = {g \in Contents(t, N) : hash_key(g.key, N) = i}
  BY InBucket
<1>3. /\ Fits(b, i, N)
      /\ Holds(b, (SetOf(t[i].nodes) \ {t[i].nodes[n]}) \cup {e}, Len(t[i].nodes))
  BY <1>2, UpdateFits
<1>4. Replaces(u, t, i, b)
  <2>1. e = [t[i].nodes[n] EXCEPT !.value = v]
    BY <1>1 DEF Entry
  <2> HIDE DEF e, nodes
  <2>2. b = [t[i] EXCEPT !.nodes = nodes]
    BY <1>1 DEF BucketType
  <2> HIDE DEF b
  <2> QED BY <2>1, <2>2, Zenon DEF Replaces, nodes, Revalued
<1> HIDE DEF b, e, nodes
<1>5. Replaces(u, t, i, b) /\ b \in BucketType
  BY <1>3, <1>4 DEF Fits
<1>6. InTable(u, N, rest \cup SetOf(b.nodes))
  BY <1>3, <1>5, BucketReplaced
<1>7. /\ Len(Entries(t)) \in Nat /\ Len(Entries(u)) \in Nat
      /\ Len(Entries(u)) + Len(t[i].nodes) = Len(Entries(t)) + Len(b.nodes)
  BY <1>1, <1>5, EntriesReplaced
<1>8. Len(t[i].nodes) \in Nat /\ t[i].nodes[n] \in SetOf(t[i].nodes)
  BY <1>1 DEF BucketType, SetOf
<1>9. rest \cup SetOf(b.nodes) = (Contents(t, N) \ {t[i].nodes[n]}) \cup {e}
  BY <1>2, <1>3, <1>8 DEF Holds
<1>10. LongerBy(u, t, 0)
  BY <1>3, <1>7, <1>8 DEF Holds, LongerBy
<1>11. InTable(u, N, (Contents(t, N) \ {t[i].nodes[n]}) \cup {e})
  <2> HIDE DEF rest
  <2> QED BY <1>6, <1>9, Zenon
<1> QED BY <1>10, <1>11, Zenon DEF e

(* A new table has nothing in it.                                          *)
LEMMA NewTable ==
    ASSUME NEW N \in Nat
    PROVE  /\ InPlace(NewArray(N), N)
           /\ Contents(NewArray(N), N) = {}
           /\ Entries(NewArray(N)) = <<>>
<1> DEFINE t == NewArray(N)
<1>1. BucketCapacity \in Nat /\ BucketCapacity > 0
  BY HtAssumption
<1>2. bucket_init \in BucketType /\ bucket_init.nodes = <<>> /\ bucket_init.capacity > 0
  <2>1. <<>> \in Seq(Entry)
    OBVIOUS
  <2> QED BY <1>1, <2>1 DEF bucket_init, BucketType
<1>3. t \in Tables(N) /\ \A i \in 0..N - 1 : t[i] = bucket_init
  BY <1>2 DEF NewArray, Tables
<1> HIDE DEF t
<1>4. Len(<<>>) = 0
  OBVIOUS
<1>5. InPlace(t, N)
  BY <1>2, <1>3, <1>4 DEF InPlace, Fits, OneEach
<1>6. Contents(t, N) = {}
  BY <1>2, <1>3, <1>4 DEF Contents, SetOf
<1>7. Entries(t) \in Seq(Entry) /\ SetOf(Entries(t)) = {}
  BY <1>5, <1>6, EntriesEnumerate
<1>8. Entries(t) = <<>>
  <2> DEFINE s == Entries(t)
  <2> HIDE DEF s
  <2>1. s \in Seq(Entry) /\ SetOf(s) = {}
    BY <1>7 DEF s
  <2>2. Len(s) \in Nat /\ \A n \in 1..Len(s) : FALSE
    BY <2>1 DEF SetOf
  <2>3. Len(s) = 0
    <3>1. Len(s) >= 1 => 1 \in 1..Len(s)
      BY <2>2
    <3> QED BY <2>2, <3>1
  <2>4. s = <<>>
    BY <2>1, <2>3
  <2> QED BY <2>4 DEF s
<1> QED BY <1>5, <1>6, <1>8 DEF t

-----------------------------------------------------------------------------
(* Growth                                                                  *)

\* One step of bucket_move_all.
MovedTo(t, e, len) == [t EXCEPT ![hash_key(e.key, len)] = list_insert(@, e)]

(* bucket_move_all moves the entries one after another.                    *)
LEMMA MoveRecurs ==
    ASSUME NEW len \in Nat \ {0}, NEW s \in Seq(Entry)
    PROVE  \E f : /\ f \in [0..Len(s) -> Tables(len)]
                  /\ f[0] = NewArray(len)
                  /\ \A m \in 0..Len(s) - 1 : f[m + 1] = MovedTo(f[m], s[m + 1], len)
                  /\ \A m \in 0..Len(s) : bucket_move_all(s, m, len) = f[m]
<1> DEFINE N == Len(s)
           V == Tables(len)
           step == [p \in (0..N - 1) \X V |-> MovedTo(p[2], s[p[1] + 1], len)]
           IsTable(u) == u = [m \in 0..N |->
                                IF m = 0 THEN NewArray(len)
                                ELSE [u[m - 1] EXCEPT ![hash_key(s[m].key, len)] = list_insert(@, s[m])]]
           By(u) == \A m \in 0..N : u[m] = IF m = 0 THEN NewArray(len) ELSE MovedTo(u[m - 1], s[m], len)
<1>1. N \in Nat /\ NewArray(len) \in V
  BY NewTable DEF InPlace
<1>2. ASSUME NEW t \in V, NEW e \in Entry PROVE MovedTo(t, e, len) \in V
  <2> DEFINE i == hash_key(e.key, len)
             b == list_insert(t[i], e)
  <2>1. i \in 0..len - 1
    BY HashInRange DEF Entry
  <2> HIDE DEF i
  <2>2. t[i] \in BucketType
    BY <2>1 DEF Tables
  <2>3. b \in BucketType
    BY <2>2, CapacityGrows
  <2>4. MovedTo(t, e, len) = [t EXCEPT ![i] = b]
    BY DEF MovedTo, i
  <2> HIDE DEF b
  <2> QED BY <2>1, <2>3, <2>4 DEF Tables
<1>3. ASSUME NEW n \in 0..N - 1, NEW t \in V
      PROVE  step[<<n, t>>] = MovedTo(t, s[n + 1], len) /\ step[<<n, t>>] \in V
  <2>1. step[<<n, t>>] = MovedTo(t, s[n + 1], len)
    OBVIOUS
  <2>2. s[n + 1] \in Entry
    OBVIOUS
  <2> QED BY <1>2, <2>1, <2>2
<1> HIDE DEF step, V
<1>4. PICK g : RecursUpTo(g, N, V, NewArray(len), step)
  <2>1. IsRecursionUpTo(N, V, NewArray(len), step)
    BY <1>1, <1>3 DEF IsRecursionUpTo
  <2> HIDE DEF N
  <2> QED BY <1>1, <2>1, RecursionUpTo
<1>5. g \in [0..N -> V] /\ g[0] = NewArray(len) /\ \A m \in 0..N - 1 : g[m + 1] = step[<<m, g[m]>>]
  BY <1>4 DEF RecursUpTo
<1>6. IsTable(g)
  <2>1. ASSUME NEW m \in 0..N, m # 0 PROVE g[m] = MovedTo(g[m - 1], s[m], len)
    <3>1. m - 1 \in 0..N - 1 /\ m - 1 \in 0..N /\ (m - 1) + 1 = m
      BY <2>1
    <3>2. g[m] = step[<<m - 1, g[m - 1]>>] /\ g[m - 1] \in V
      BY <1>5, <3>1
    <3>3. step[<<m - 1, g[m - 1]>>] = MovedTo(g[m - 1], s[(m - 1) + 1], len)
      BY <1>3, <3>1, <3>2
    <3> QED BY <3>1, <3>2, <3>3
  <2>2. \A m \in 0..N : g[m] = IF m = 0 THEN NewArray(len) ELSE MovedTo(g[m - 1], s[m], len)
    BY <1>5, <2>1
  <2>3. g = [m \in 0..N |-> IF m = 0 THEN NewArray(len) ELSE MovedTo(g[m - 1], s[m], len)]
    BY <1>5, <2>2
  <2> QED BY <2>3 DEF MovedTo
<1> DEFINE f == CHOOSE u : IsTable(u)
<1>7. IsTable(f)
  BY <1>6
<1>8. \A m \in 0..N : bucket_move_all(s, m, len) = f[m]
  BY DEF bucket_move_all
<1> HIDE DEF f
<1>9. f = [m \in 0..N |-> f[m]] /\ By(f)
  <2>1. f = [m \in 0..N |-> IF m = 0 THEN NewArray(len) ELSE MovedTo(f[m - 1], s[m], len)]
    BY <1>7 DEF MovedTo
  <2> QED BY <2>1
<1>10. f[0] = NewArray(len) /\ \A m \in 0..N - 1 : f[m + 1] = MovedTo(f[m], s[m + 1], len)
  <2>1. \A m \in 0..N - 1 : m + 1 \in 0..N /\ m + 1 # 0 /\ (m + 1) - 1 = m
    BY <1>1
  <2>2. 0 \in 0..N
    BY <1>1
  <2> HIDE DEF N
  <2> QED BY <1>9, <2>1, <2>2
<1> DEFINE S == {m \in 0..N : f[m] \in V}
<1>11. 0..N \subseteq S
  <2>1. 0 \in S
    BY <1>1, <1>10
  <2>2. ASSUME NEW m \in 0..N - 1, m \in S PROVE m + 1 \in S
    <3>1. m + 1 \in 0..N /\ s[m + 1] \in Entry
      BY <1>1
    <3>2. f[m + 1] \in V
      BY <1>2, <1>10, <2>2, <3>1
    <3> QED BY <3>1, <3>2
  <2> HIDE DEF S, N
  <2> QED BY <1>1, <2>1, <2>2, SetInductionUpTo
<1>12. f \in [0..N -> V]
  BY <1>9, <1>11
<1> QED BY <1>8, <1>10, <1>12 DEF V

(* The new table holds the entries moved so far, each in its place.        *)
LEMMA Moving ==
    ASSUME NEW len \in Nat \ {0}, NEW s \in Seq(Entry), OneEach(s), NEW n \in 0..Len(s)
    PROVE  /\ InTable(bucket_move_all(s, n, len), len, {s[p] : p \in 1..n})
           /\ Len(Entries(bucket_move_all(s, n, len))) = n
<1> DEFINE N == Len(s)
           First(m) == {s[p] : p \in 1..m}
<1>1. PICK f : /\ f \in [0..N -> Tables(len)]
               /\ f[0] = NewArray(len)
               /\ \A m \in 0..N - 1 : f[m + 1] = MovedTo(f[m], s[m + 1], len)
               /\ \A m \in 0..N : bucket_move_all(s, m, len) = f[m]
  BY MoveRecurs
<1> DEFINE S == {m \in 0..N : InTable(f[m], len, First(m)) /\ Len(Entries(f[m])) = m}
<1>2. 0 \in S
  <2>1. InTable(f[0], len, {}) /\ Entries(f[0]) = <<>>
    BY <1>1, NewTable DEF InTable
  <2>2. First(0) = {} /\ 0 \in 0..N /\ Len(<<>>) = 0
    OBVIOUS
  <2> HIDE DEF First
  <2> QED BY <2>1, <2>2, Zenon
<1>3. ASSUME NEW m \in 0..N - 1, m \in S PROVE m + 1 \in S
  <2> DEFINE e == s[m + 1]
             i == hash_key(e.key, len)
  <2>1. m + 1 \in 1..N /\ m + 1 \in 0..N /\ e \in Entry /\ m \in Nat
    OBVIOUS
  <2>2. \A p \in 1..m : p \in 1..N /\ p # m + 1
    OBVIOUS
  <2>3. InPlace(f[m], len) /\ Contents(f[m], len) = First(m) /\ Len(Entries(f[m])) = m
    BY <1>3 DEF InTable
  <2>4. \A g \in First(m) : g.key # e.key
    BY <2>1, <2>2 DEF OneEach
  <2>5. First(m + 1) = First(m) \cup {e}
    <3>1. \A p \in Int : p \in 1..m + 1 <=> p \in 1..m \/ p = m + 1
      BY <2>1
    <3> QED BY <3>1, <2>1
  <2>6. f[m + 1] = MovedTo(f[m], e, len)
    BY <1>1
  <2> HIDE DEF First, e
  <2>7. i \in 0..len - 1
    BY <2>1, HashInRange DEF Entry
  <2>8. Replaces(f[m + 1], f[m], i, list_insert(f[m][i], e))
    BY <2>6 DEF MovedTo, Replaces
  <2>9. \A g \in Contents(f[m], len) : g.key # e.key
    BY <2>3, <2>4, Zenon
  <2>10. hash_key(e.key, len) = i
    OBVIOUS
  <2> HIDE DEF i
  <2>11. /\ InTable(f[m + 1], len, Contents(f[m], len) \cup {e})
         /\ Len(Entries(f[m + 1])) = Len(Entries(f[m])) + 1
    <3>1. len \in Nat
      OBVIOUS
    <3> QED BY <2>1, <2>3, <2>7, <2>8, <2>9, <2>10, <3>1, Entering
  <2>12. InTable(f[m + 1], len, First(m + 1)) /\ Len(Entries(f[m + 1])) = m + 1
    BY <2>3, <2>5, <2>11, Zenon
  <2> QED BY <2>1, <2>12
<1>4. n \in S
  <2> HIDE DEF S, N
  <2>1. N \in Nat /\ n \in 0..N
    BY DEF N
  <2> QED BY <1>2, <1>3, <2>1, SetInductionUpTo
<1> HIDE DEF First
<1>5. bucket_move_all(s, n, len) = f[n]
  BY <1>1
<1> QED BY <1>4, <1>5, Zenon DEF First

-----------------------------------------------------------------------------
(* The map that a table stands for                                         *)

KeysOf(entries) == {e.key : e \in entries}

Mapped(t) == [k \in Keys |-> LET at == {i \in DOMAIN Entries(t) : Entries(t)[i].key = k}
                             IN  IF at = {} THEN Nothing
                                 ELSE Entries(t)[CHOOSE i \in at : TRUE].value]

\* The map that takes the keys of the entries to their values.
Reads(f, entries) ==
    /\ f = [k \in Keys |-> f[k]]
    /\ \A e \in entries : f[e.key] = e.value
    /\ \A k \in Keys : (\A e \in entries : e.key # k) => f[k] = Nothing

LEMMA KeysInEntries ==
    ASSUME NEW s \in Seq(Entry)
    PROVE  KeysIn(s) = KeysOf(SetOf(s))
BY DEF KeysIn, KeysOf, SetOf

LEMMA TableReads ==
    ASSUME NEW N \in Nat, NEW t, NEW C, InTable(t, N, C)
    PROVE  /\ Reads(Mapped(t), C)
           /\ C \subseteq Entry
           /\ \A e, g \in C : e.key = g.key => e = g
           /\ KeysIn(Entries(t)) = KeysOf(C)
           /\ Entries(t) \in Seq(Entry)
           /\ OneEach(Entries(t))
           /\ SetOf(Entries(t)) = C
<1> DEFINE s == Entries(t)
           f == Mapped(t)
           at(k) == {i \in DOMAIN s : s[i].key = k}
<1>1. InPlace(t, N) /\ Contents(t, N) = C
  BY DEF InTable
<1>2. s \in Seq(Entry) /\ SetOf(s) = C /\ OneEach(s)
  BY <1>1, EntriesEnumerate
<1>3. f = [k \in Keys |-> IF at(k) = {} THEN Nothing ELSE s[CHOOSE i \in at(k) : TRUE].value]
  BY DEF Mapped
<1> HIDE DEF s, f
<1>4. C \subseteq Entry /\ \A e, g \in C : e.key = g.key => e = g
  BY <1>1, OneEntryPerKey DEF Contents
<1>5. f = [k \in Keys |-> f[k]]
  BY <1>3
<1>6. ASSUME NEW e \in C PROVE f[e.key] = e.value
  <2>1. e.key \in Keys
    BY <1>4 DEF Entry
  <2>2. PICK n \in 1..Len(s) : s[n] = e
    BY <1>2 DEF SetOf
  <2>3. n \in at(e.key)
    BY <1>2, <2>2
  <2> DEFINE c == CHOOSE i \in at(e.key) : TRUE
  <2>4. c \in at(e.key)
    BY <2>3
  <2>5. f[e.key] = s[c].value
    BY <1>3, <2>1, <2>3
  <2> HIDE DEF c
  <2>6. c \in 1..Len(s) /\ s[c].key = e.key
    BY <1>2, <2>4
  <2>7. c = n
    BY <1>2, <2>2, <2>6 DEF OneEach
  <2> QED BY <2>2, <2>5, <2>7
<1>7. ASSUME NEW k \in Keys, \A e \in C : e.key # k PROVE f[k] = Nothing
  <2>1. \A i \in 1..Len(s) : s[i] \in C
    BY <1>2 DEF SetOf
  <2>2. at(k) = {}
    BY <1>2, <1>7, <2>1
  <2> QED BY <1>3, <2>2
<1>8. Reads(f, C)
  BY <1>5, <1>6, <1>7 DEF Reads
<1>9. KeysIn(s) = KeysOf(C)
  BY <1>2, KeysInEntries
<1> QED BY <1>2, <1>4, <1>8, <1>9 DEF s, f

LEMMA SameMap ==
    ASSUME NEW C, NEW f, NEW g, Reads(f, C), Reads(g, C)
    PROVE  f = g
<1>1. ASSUME NEW k \in Keys PROVE f[k] = g[k]
  BY DEF Reads
<1> QED BY <1>1 DEF Reads

(* Entries with another key do not matter for a key.                       *)
LEMMA MapAt ==
    ASSUME NEW C, NEW D, NEW f, NEW g, Reads(f, C), Reads(g, D), NEW k \in Keys,
           \A e \in C : e.key # k => e \in D,
           \A e \in D : e.key # k => e \in C
    PROVE  g = [f EXCEPT ![k] = g[k]]
<1>1. ASSUME NEW j \in Keys, j # k PROVE g[j] = f[j]
  <2>1. CASE \E e \in C : e.key = j
    BY <1>1, <2>1 DEF Reads
  <2>2. CASE \A e \in C : e.key # j
    <3>1. \A e \in D : e.key # j
      BY <1>1, <2>2
    <3> QED BY <2>2, <3>1 DEF Reads
  <2> QED BY <2>1, <2>2
<1> QED BY <1>1 DEF Reads

LEMMA EmptyMap ==
    ASSUME NEW f, Reads(f, {})
    PROVE  f = [k \in Keys |-> Nothing]
BY DEF Reads

-----------------------------------------------------------------------------
(* The invariant: the table is in place and counted, and holds the heap's  *)
(* keys unless a rehash freed them; only then is freed memory used.        *)

GoodAt(N, C, l, t, n, h, b) ==
    /\ InTable(t, N, C)
    /\ n = Len(Entries(t))
    /\ l \in {"none", "live", "undefined"}
    /\ l = "live" => N # 0
    /\ l = "none" => N = 0
    /\ h \subseteq LongKeys
    /\ b \in BOOLEAN
    /\ ~b => h = KeysOf(C) \cap LongKeys
    /\ l = "undefined" => b

At(N, C) == GoodAt(N, C, life, arr, n_elements, heap, bereft)
Inv == \E N \in Nat, C \in SUBSET Entry : At(N, C)

LEMMA AtLength ==
    ASSUME NEW N \in Nat, NEW t, NEW C, InTable(t, N, C)
    PROVE  /\ Cardinality(DOMAIN t) = N
           /\ t \in Tables(N)
<1>1. t \in Tables(N)
  BY DEF InTable, InPlace
<1>2. DOMAIN t = 0..N - 1
  BY <1>1 DEF Tables
<1> QED BY <1>1, <1>2, LengthOf

LEMMA AtNew ==
    ASSUME NEW N \in Nat
    PROVE  InTable(NewArray(N), N, {}) /\ Len(Entries(NewArray(N))) = 0
<1>1. InTable(NewArray(N), N, {}) /\ Entries(NewArray(N)) = <<>>
  BY NewTable DEF InTable
<1> QED BY <1>1

LEMMA InitAt == ASSUME Init PROVE At(0, {})
<1>1. InTable(arr, 0, {}) /\ Len(Entries(arr)) = 0
  BY AtNew DEF Init
<1> QED BY <1>1 DEF Init, At, GoodAt, KeysOf

(* A table that holds what it should is not dangling.                      *)
LEMMA Uncorrupted ==
    ASSUME NEW C, NEW h, h = KeysOf(C) \cap LongKeys
    PROVE  ~Dangling(KeysOf(C), h)
BY DEF Dangling

(* rehash, and with it probe_load_factor, leave the entries as they are.   *)
LEMMA Rehashing ==
    ASSUME NEW N \in Nat \ {0}, NEW t, NEW C, InTable(t, N, C), NEW h, h \subseteq LongKeys,
           ~bereft => h = KeysOf(C) \cap LongKeys, bereft \in BOOLEAN, life = "live",
           NEW len \in Nat \ {0}, rehash(t, h, len)
    PROVE  \E M \in Nat \ {0} :
               /\ InTable(arr', M, C) /\ Len(Entries(arr')) = Len(Entries(t))
               /\ heap' \subseteq LongKeys /\ bereft' \in BOOLEAN
               /\ ~bereft' => heap' = KeysOf(C) \cap LongKeys
               /\ life' \in {"live", "undefined"} /\ (life' = "undefined" => bereft')
<1> DEFINE s == Entries(t)
           moved(n) == SubSeq(s, 1, n)
           Kept == /\ heap' = h /\ life' = life /\ bereft' = bereft
<1>1. /\ s \in Seq(Entry) /\ OneEach(s) /\ SetOf(s) = C /\ KeysIn(s) = KeysOf(C)
      /\ \A e, g \in C : e.key = g.key => e = g
  BY TableReads
<1> USE DEF rehash
<1>2. CASE Dangling(KeysIn(s), h) /\ life' = "undefined" /\ arr' = t /\ heap' = h /\ UNCHANGED bereft
  <2>1. bereft
    BY <1>1, <1>2, Uncorrupted
  <2> QED BY <1>2, <2>1
<1>3. CASE /\ arr' = bucket_move_all(s, Len(s), len)
           /\ heap' = h /\ UNCHANGED <<life, bereft>>
  <2>1. Len(s) \in 0..Len(s)
    BY <1>1
  <2>2. {s[p] : p \in 1..Len(s)} = C
    BY <1>1 DEF SetOf
  <2> HIDE DEF s
  <2>3. InTable(arr', len, {s[p] : p \in 1..Len(s)}) /\ Len(Entries(arr')) = Len(s)
    BY <1>1, <1>3, <2>1, Moving
  <2>4. InTable(arr', len, C) /\ Len(Entries(arr')) = Len(s)
    BY <2>2, <2>3, Zenon
  <2> QED BY <1>3, <2>4 DEF s
<1>4. CASE arr' = t /\ heap' = h /\ UNCHANGED <<life, bereft>>
  BY <1>4
<1>5. CASE /\ \E n \in 0..Len(s) - 1 :
                 /\ heap' = h \ KeysIn(moved(n))
                 /\ bereft' = (bereft \/ KeysIn(moved(n)) \cap LongKeys # {})
           /\ arr' = t /\ UNCHANGED life
  <2>1. PICK n \in 0..Len(s) - 1 :
                 /\ heap' = h \ KeysIn(moved(n))
                 /\ bereft' = (bereft \/ KeysIn(moved(n)) \cap LongKeys # {})
    BY <1>5
  <2> HIDE DEF moved
  <2>2. bereft' \in BOOLEAN /\ heap' \subseteq LongKeys
    BY <2>1
  <2>3. ~bereft' => heap' = h /\ ~bereft
    BY <2>1
  <2> QED BY <1>5, <2>2, <2>3
<1> QED BY <1>2, <1>3, <1>4, <1>5

LEMMA Probing ==
    ASSUME NEW N \in Nat \ {0}, NEW t, NEW C, InTable(t, N, C), NEW h, h \subseteq LongKeys,
           ~bereft => h = KeysOf(C) \cap LongKeys, bereft \in BOOLEAN, life = "live",
           arr_len = N, probe_load_factor(t, h, Len(Entries(t)))
    PROVE  \E M \in Nat :
               /\ GoodAt(M, C, life', arr', Len(Entries(t)), heap', bereft')
               /\ life' \in {"live", "undefined"}
<1>1. CASE arr' = t /\ heap' = h /\ UNCHANGED <<life, bereft>>
  <2>1. GoodAt(N, C, life', arr', Len(Entries(t)), heap', bereft')
    BY <1>1 DEF GoodAt
  <2> QED BY <1>1, <2>1
<1>2. CASE rehash(t, h, 2 * arr_len)
  <2>1. 2 * arr_len \in Nat \ {0}
    OBVIOUS
  <2>2. PICK M \in Nat \ {0} :
               /\ InTable(arr', M, C) /\ Len(Entries(arr')) = Len(Entries(t))
               /\ heap' \subseteq LongKeys /\ bereft' \in BOOLEAN
               /\ ~bereft' => heap' = KeysOf(C) \cap LongKeys
               /\ life' \in {"live", "undefined"} /\ (life' = "undefined" => bereft')
    BY <1>2, <2>1, Rehashing
  <2>3. GoodAt(M, C, life', arr', Len(Entries(t)), heap', bereft')
    BY <2>2 DEF GoodAt
  <2> QED BY <2>2, <2>3
<1> QED BY <1>1, <1>2 DEF probe_load_factor

-----------------------------------------------------------------------------
(* The operations, each with what it does to the map                       *)

\* The invariant and a step of KeyValueMap.
Kept == (\E N \in Nat, C \in SUBSET Entry : At(N, C)') /\ (Map!Next \/ UNCHANGED <<map, reply>>)

LEMMA MapIs == map = Mapped(arr) /\ map' = Mapped(arr')
BY DEF map, Mapped

LEMMA MapReads ==
    ASSUME NEW N, NEW C, N \in Nat, At(N, C)
    PROVE  Reads(map, C)
<1>1. InTable(arr, N, C)
  BY DEF At, GoodAt
<1> QED BY <1>1, MapIs, TableReads

LEMMA MapReadsNext ==
    ASSUME NEW N, NEW C, N \in Nat, At(N, C)'
    PROVE  Reads(map', C)
<1>1. InTable(arr', N, C)
  BY DEF At, GoodAt
<1> QED BY <1>1, MapIs, TableReads

LEMMA LookUp ==
    ASSUME NEW N \in Nat, NEW C, At(N, C), life = "live", NEW k \in Keys
    PROVE  /\ N # 0 /\ arr_len = N /\ InPlace(arr, N) /\ Contents(arr, N) = C
           /\ Place(k) = hash_key(k, N) /\ Place(k) \in 0..N - 1
           /\ bucket_find_node(Bucket(k), k) = {} => \A e \in C : e.key # k
           /\ \A n \in bucket_find_node(Bucket(k), k) :
                 /\ n \in 1..Len(arr[Place(k)].nodes)
                 /\ arr[Place(k)].nodes[n] \in C
                 /\ arr[Place(k)].nodes[n].key = k
<1>1. N # 0 /\ InTable(arr, N, C)
  BY DEF At, GoodAt
<1>2. InPlace(arr, N) /\ Contents(arr, N) = C
  BY <1>1 DEF InTable
<1>3. arr_len = N
  BY <1>1, AtLength DEF arr_len
<1>4. Place(k) = hash_key(k, N) /\ Place(k) \in 0..N - 1
  <2>1. hash_key(k, N) \in 0..N - 1
    BY <1>1, HashInRange
  <2> QED BY <1>3, <2>1 DEF Place
<1>5. Bucket(k) = arr[Place(k)]
  BY DEF Bucket
<1> QED BY <1>1, <1>2, <1>3, <1>4, <1>5, FindNode

(* Only after a rehash that gave up is freed memory used.                  *)
LEMMA UsedAfterFree ==
    ASSUME NEW N \in Nat, NEW C, At(N, C), NEW keys, keys \subseteq KeysOf(C), Dangling(keys, heap),
           UseAfterFree
    PROVE  At(N, C)' /\ UNCHANGED <<map, reply>>
<1>1. ~bereft => ~Dangling(keys, heap)
  BY DEF At, GoodAt, Dangling
<1>2. bereft
  BY <1>1
<1>3. At(N, C)'
  BY <1>2 DEF At, GoodAt, UseAfterFree
<1>4. map' = map
  BY MapIs DEF UseAfterFree
<1> QED BY <1>3, <1>4 DEF UseAfterFree

LEMMA CtorKept ==
    ASSUME NEW N \in Nat, NEW C \in SUBSET Entry, At(N, C), hashtable_ctor
    PROVE  Kept
<1>1. CASE /\ life' = "live" /\ arr' = NewArray(STARTING_ARRLEN) /\ n_elements' = 0
           /\ heap' = {} /\ reply' = Done /\ bereft' = FALSE
  <2>1. STARTING_ARRLEN \in Nat /\ STARTING_ARRLEN # 0
    BY HtAssumption
  <2>2. InTable(arr', STARTING_ARRLEN, {}) /\ Len(Entries(arr')) = 0
    BY <1>1, <2>1, AtNew
  <2>3. At(STARTING_ARRLEN, {})'
    BY <1>1, <2>1, <2>2 DEF At, GoodAt, KeysOf
  <2>4. map' = [k \in Keys |-> Nothing]
    BY <2>1, <2>3, MapReadsNext, EmptyMap
  <2>5. Map!Clear
    BY <1>1, <2>4 DEF Map!Clear, Map!Empty, Map!Done, Done
  <2> QED BY <2>1, <2>3, <2>5 DEF Kept, Map!Next
<1>2. CASE reply' = Failed /\ UNCHANGED <<life, arr, n_elements, heap, bereft>>
  <2>1. At(N, C)'
    BY <1>2 DEF At
  <2>2. C = {}
    <3>1. N = 0 /\ Contents(arr, N) = C
      BY DEF hashtable_ctor, At, GoodAt, InTable
    <3> QED BY <3>1 DEF Contents
  <2>3. map' = [k \in Keys |-> Nothing]
    <3>1. At(N, {})'
      BY <2>1, <2>2
    <3> QED BY <3>1, MapReadsNext, EmptyMap
  <2>4. Map!Clear
    BY <1>2, <2>3 DEF Map!Clear, Map!Empty, Map!Failed, Failed
  <2> QED BY <2>1, <2>4 DEF Kept, Map!Next
<1> QED BY <1>1, <1>2 DEF hashtable_ctor

LEMMA DtorKept ==
    ASSUME NEW N \in Nat, NEW C \in SUBSET Entry, At(N, C), hashtable_dtor
    PROVE  Kept
<1>1. KeysIn(Entries(arr)) = KeysOf(C)
  BY TableReads DEF At, GoodAt
<1>2. CASE Dangling(KeysIn(Entries(arr)), heap) /\ UseAfterFree
  <2>1. At(N, C)' /\ UNCHANGED <<map, reply>>
    BY <1>1, <1>2, UsedAfterFree
  <2> QED BY <2>1 DEF Kept
<1>3. CASE /\ life' = "none" /\ arr' = NewArray(0) /\ n_elements' = 0
           /\ heap' = heap \ KeysIn(Entries(arr)) /\ reply' = Done
           /\ UNCHANGED bereft
  <2>1. InTable(arr', 0, {}) /\ Len(Entries(arr')) = 0
    BY <1>3, AtNew
  <2>2. heap' \subseteq LongKeys /\ (~bereft => heap' = {}) /\ bereft \in BOOLEAN
    BY <1>1, <1>3 DEF At, GoodAt
  <2>3. At(0, {})'
    BY <1>3, <2>1, <2>2 DEF At, GoodAt, KeysOf
  <2>4. map' = [k \in Keys |-> Nothing]
    BY <2>3, MapReadsNext, EmptyMap
  <2>5. Map!Clear
    BY <1>3, <2>4 DEF Map!Clear, Map!Empty, Map!Done, Done
  <2> QED BY <2>3, <2>5 DEF Kept, Map!Next
<1> QED BY <1>2, <1>3 DEF hashtable_dtor

LEMMA AstrayKept ==
    ASSUME NEW N \in Nat, NEW C \in SUBSET Entry, At(N, C), NEW k \in Keys, Astray(k)
    PROVE  Kept
<1> DEFINE keys == Compared(Bucket(k), k)
<1>1. life = "live" /\ Dangling(keys, heap) /\ UseAfterFree
  BY DEF Astray
<1>2. InPlace(arr, N) /\ Contents(arr, N) = C /\ Place(k) \in 0..N - 1 /\ Bucket(k) = arr[Place(k)]
  BY <1>1, LookUp DEF Bucket
<1>3. SetOf(Bucket(k).nodes) \subseteq C
  BY <1>2, InBucket
<1>4. DOMAIN Bucket(k).nodes = 1..Len(Bucket(k).nodes)
  BY <1>2 DEF InPlace, Tables, BucketType
<1>5. keys \subseteq KeysOf(C)
  BY <1>3, <1>4 DEF Compared, SetOf, KeysOf
<1> HIDE DEF keys
<1>6. At(N, C)' /\ UNCHANGED <<map, reply>>
  BY <1>1, <1>5, UsedAfterFree
<1> QED BY <1>6 DEF Kept

LEMMA GetKept ==
    ASSUME NEW N \in Nat, NEW C \in SUBSET Entry, At(N, C), NEW k \in Keys, hashtable_get(k)
    PROVE  Kept
<1> DEFINE found == bucket_find_node(Bucket(k), k)
<1>1. life = "live" /\ UNCHANGED <<life, arr, n_elements, heap, bereft>>
  BY DEF hashtable_get, Sound
<1>2. At(N, C)' /\ map' = map /\ Reads(map, C)
  BY <1>1, MapIs, MapReads DEF At
<1>3. /\ found = {} => \A e \in C : e.key # k
      /\ \A n \in found : Bucket(k).nodes[n] \in C /\ Bucket(k).nodes[n].key = k
  BY <1>1, LookUp DEF Bucket
<1>4. CASE found = {}
  <2>1. map[k] = Nothing /\ reply' = Failed
    BY <1>2, <1>3, <1>4 DEF Reads, hashtable_get
  <2>2. Map!Get(k)
    BY <1>2, <2>1 DEF Map!Get, Map!Failed, Failed
  <2> QED BY <1>2, <2>2 DEF Kept, Map!Next
<1>5. CASE found # {}
  <2> DEFINE n == CHOOSE n \in found : TRUE
             e == Bucket(k).nodes[n]
  <2>1. n \in found
    BY <1>5
  <2>2. reply' = [failed |-> FALSE, value |-> e.value]
    BY <1>5 DEF hashtable_get
  <2> HIDE DEF n
  <2>3. e \in C /\ e.key = k
    BY <1>3, <2>1
  <2> HIDE DEF e
  <2>4. map[k] = e.value /\ map[k] # Nothing
    <3>1. e.value \in Values
      BY <2>3 DEF Entry
    <3> QED BY <1>2, <2>3, <3>1, HtAssumption DEF Reads
  <2>5. Map!Get(k)
    BY <1>2, <2>2, <2>4 DEF Map!Get
  <2> QED BY <1>2, <2>5 DEF Kept, Map!Next
<1> QED BY <1>4, <1>5

LEMMA RefuseKept ==
    ASSUME NEW N \in Nat, NEW C \in SUBSET Entry, At(N, C), NEW k \in Keys, Refuse(k)
    PROVE  Kept
<1>1. /\ life = "live" /\ UNCHANGED <<life, arr, n_elements, heap, bereft>> /\ reply' = Failed
      /\ bucket_find_node(Bucket(k), k) = {}
  BY DEF Refuse, Sound
<1>2. At(N, C)' /\ map' = map /\ Reads(map, C)
  BY <1>1, MapIs, MapReads DEF At
<1>3. map[k] = Nothing
  BY <1>1, <1>2, LookUp DEF Reads
<1>4. Map!Refuse(k)
  BY <1>1, <1>2, <1>3 DEF Map!Refuse, Map!Failed, Failed
<1> QED BY <1>2, <1>4 DEF Kept, Map!Next

LEMMA UpdateKept ==
    ASSUME NEW N \in Nat, NEW C \in SUBSET Entry, At(N, C), NEW k \in Keys, NEW v \in Values,
           Update(k, v)
    PROVE  Kept
<1>1. life = "live" /\ reply' = Done /\ UNCHANGED <<life, n_elements, heap, bereft>>
  BY DEF Update, Sound
<1>2. PICK i, n, old :
          /\ i = Place(k) /\ n \in bucket_find_node(Bucket(k), k) /\ old = arr[i].nodes[n]
          /\ arr' = [arr EXCEPT ![i].nodes[n].value = v]
  BY DEF Update
<1>3. /\ InPlace(arr, N) /\ Contents(arr, N) = C /\ i \in 0..N - 1
      /\ n \in 1..Len(arr[i].nodes) /\ old \in C /\ old.key = k
  BY <1>1, <1>2, LookUp
<1> DEFINE new == [key |-> k, value |-> v]
           D == (C \ {old}) \cup {new}
<1>4. Replaces(arr', arr, i, Revalued(arr[i], n, v))
  BY <1>2 DEF Replaces, Revalued
<1>5. InTable(arr', N, D) /\ LongerBy(arr', arr, 0)
  <2>1. /\ InTable(arr', N, (Contents(arr, N) \ {arr[i].nodes[n]}) \cup {[key |-> arr[i].nodes[n].key, value |-> v]})
        /\ LongerBy(arr', arr, 0)
    BY <1>3, <1>4, Updating
  <2>2. arr[i].nodes[n] = old
    BY <1>2
  <2> QED BY <1>3, <2>1, <2>2, Zenon
<1>6. /\ KeysOf(D) = KeysOf(C) /\ D \in SUBSET Entry
      /\ \A e, g \in C : e.key = g.key => e = g
  <2>1. new \in Entry /\ new.key = k
    BY DEF Entry
  <2>2. \A e, g \in C : e.key = g.key => e = g
    <3>1. InTable(arr, N, C)
      BY DEF At, GoodAt
    <3> QED BY <3>1, TableReads
  <2> HIDE DEF new
  <2>3. KeysOf(D) = KeysOf(C)
    BY <1>3, <2>1 DEF KeysOf
  <2> QED BY <2>1, <2>2, <2>3
<1>7. new.key = k /\ new.value = v
  OBVIOUS
<1>8. /\ new \in D
      /\ \A e \in C : e.key # k => e \in D
      /\ \A e \in D : e.key # k => e \in C
  <2> HIDE DEF new
  <2> QED BY <1>3, <1>7
<1> HIDE DEF D, new
<1>9. At(N, D)'
  <2>1. Len(Entries(arr)) \in Nat
    <3>1. Entries(arr) \in Seq(Entry)
      BY TableReads DEF At, GoodAt
    <3> QED BY <3>1
  <2>2. Len(Entries(arr')) = Len(Entries(arr))
    BY <1>5, <2>1 DEF LongerBy
  <2> QED BY <1>1, <1>5, <1>6, <2>2 DEF At, GoodAt
<1>10. map' = [map EXCEPT ![k] = v]
  <2>1. Reads(map, C) /\ Reads(map', D)
    BY <1>9, MapReads, MapReadsNext
  <2>2. map'[k] = v
    BY <1>7, <1>8, <2>1 DEF Reads
  <2>3. map' = [map EXCEPT ![k] = map'[k]]
    BY <1>8, <2>1, MapAt
  <2> QED BY <2>2, <2>3
<1>11. Map!Add(k, v)
  BY <1>1, <1>10 DEF Map!Add, Map!Done, Done
<1> QED BY <1>6, <1>9, <1>11 DEF Kept, Map!Next

LEMMA DelKept ==
    ASSUME NEW N \in Nat, NEW C \in SUBSET Entry, At(N, C), NEW k \in Keys, hashtable_del(k)
    PROVE  Kept
<1>1. life = "live"
  BY DEF hashtable_del, Sound
<1>2. CASE /\ bucket_find_node(Bucket(k), k) = {} /\ reply' = Failed
           /\ UNCHANGED <<life, arr, n_elements, heap, bereft>>
  <2>1. At(N, C)' /\ map' = map /\ Reads(map, C)
    BY <1>2, MapIs, MapReads DEF At
  <2>2. map[k] = Nothing
    BY <1>1, <1>2, <2>1, LookUp DEF Reads
  <2>3. map' = [map EXCEPT ![k] = Nothing]
    BY <2>1, <2>2 DEF Reads
  <2>4. Map!Del(k)
    BY <1>2, <2>2, <2>3 DEF Map!Del, Map!Failed, Failed
  <2> QED BY <2>1, <2>4 DEF Kept, Map!Next
<1>3. CASE /\ \E n \in bucket_find_node(Bucket(k), k) :
                 arr' = [arr EXCEPT ![Place(k)].nodes = RemoveAt(@, n)]
           /\ heap' = heap \ {k}
           /\ n_elements' = n_elements - 1
           /\ reply' = Done
           /\ UNCHANGED <<life, bereft>>
  <2>1. PICK i, n, old :
            /\ i = Place(k) /\ n \in bucket_find_node(Bucket(k), k) /\ old = arr[i].nodes[n]
            /\ arr' = [arr EXCEPT ![i].nodes = RemoveAt(@, n)]
    BY <1>3
  <2>2. /\ InPlace(arr, N) /\ Contents(arr, N) = C /\ i \in 0..N - 1
        /\ n \in 1..Len(arr[i].nodes) /\ old \in C /\ old.key = k
    BY <1>1, <2>1, LookUp
  <2> DEFINE D == C \ {old}
  <2>3. Replaces(arr', arr, i, Without(arr[i], n))
    BY <2>1 DEF Replaces, Without
  <2>4. InTable(arr', N, D) /\ LongerBy(arr', arr, -1)
    <3>1. /\ InTable(arr', N, Contents(arr, N) \ {arr[i].nodes[n]})
          /\ LongerBy(arr', arr, -1)
      BY <2>2, <2>3, Removing
    <3>2. arr[i].nodes[n] = old
      BY <2>1
    <3> QED BY <2>2, <3>1, <3>2, Zenon
  <2>5. \A e, g \in C : e.key = g.key => e = g
    <3>1. InTable(arr, N, C)
      BY DEF At, GoodAt
    <3> QED BY <3>1, TableReads
  <2>6. KeysOf(D) = KeysOf(C) \ {k} /\ D \in SUBSET Entry
    BY <2>2, <2>5 DEF KeysOf
  <2>7. /\ \A e \in C : e.key # k => e \in D
        /\ \A e \in D : e \in C /\ e.key # k
    BY <2>2, <2>5
  <2> HIDE DEF D
  <2>8. At(N, D)'
    BY <1>3, <2>4, <2>6 DEF At, GoodAt, LongerBy
  <2>9. Reads(map, C) /\ Reads(map', D)
    BY <2>8, MapReads, MapReadsNext
  <2>10. map' = [map EXCEPT ![k] = map'[k]]
    BY <2>7, <2>9, MapAt
  <2>11. map'[k] = Nothing
    BY <2>7, <2>9 DEF Reads
  <2>12. map[k] # Nothing
    <3>1. map[k] = old.value /\ old.value \in Values
      BY <2>2, <2>9 DEF Reads, Entry
    <3> QED BY <3>1, HtAssumption
  <2>13. Map!Del(k)
    BY <1>3, <2>10, <2>11, <2>12 DEF Map!Del, Map!Done, Done
  <2> QED BY <2>6, <2>8, <2>13 DEF Kept, Map!Next
<1> QED BY <1>2, <1>3 DEF hashtable_del

LEMMA EnterKept ==
    ASSUME NEW N \in Nat, NEW C \in SUBSET Entry, At(N, C), NEW k \in Keys, NEW v \in Values,
           Enter(k, v)
    PROVE  Kept
<1> DEFINE i == Place(k)
           e == [key |-> k, value |-> v]
           t == [arr EXCEPT ![i] = list_insert(@, e)]
           h == heap \cup ({k} \cap LongKeys)
           D == C \cup {e}
<1>1. /\ life = "live" /\ bucket_find_node(Bucket(k), k) = {} /\ reply' = Done
      /\ n_elements' = n_elements + 1
      /\ probe_load_factor(t, h, n_elements + 1)
  BY DEF Enter, Sound
<1>2. /\ N # 0 /\ arr_len = N /\ InPlace(arr, N) /\ Contents(arr, N) = C
      /\ i = hash_key(k, N) /\ i \in 0..N - 1
      /\ \A g \in C : g.key # k
  BY <1>1, LookUp
<1> HIDE DEF i
<1>3. e \in Entry /\ e.key = k /\ e.value = v
  BY DEF Entry
<1>4. Replaces(t, arr, i, list_insert(arr[i], e))
  BY DEF Replaces
<1> HIDE DEF t, e
<1>5. InTable(t, N, D) /\ Len(Entries(t)) = Len(Entries(arr)) + 1
  <2>1. hash_key(e.key, N) = i /\ \A g \in Contents(arr, N) : g.key # e.key
    BY <1>2, <1>3
  <2>2. /\ InTable(t, N, Contents(arr, N) \cup {e})
        /\ Len(Entries(t)) = Len(Entries(arr)) + 1
    BY <1>2, <1>3, <1>4, <2>1, Entering
  <2> QED BY <1>2, <2>2
<1>6. D \in SUBSET Entry /\ KeysOf(D) = KeysOf(C) \cup {k}
  BY <1>3 DEF KeysOf
<1> HIDE DEF D
<1>7. h \subseteq LongKeys /\ bereft \in BOOLEAN /\ (~bereft => h = KeysOf(D) \cap LongKeys)
  BY <1>6 DEF At, GoodAt
<1>8. n_elements' = Len(Entries(t))
  BY <1>1, <1>5 DEF At, GoodAt
<1> HIDE DEF h
<1>9. PICK M \in Nat : GoodAt(M, D, life', arr', Len(Entries(t)), heap', bereft')
  <2>1. probe_load_factor(t, h, Len(Entries(t))) /\ N \in Nat \ {0}
    BY <1>1, <1>2, <1>8
  <2> QED BY <1>1, <1>2, <1>5, <1>7, <2>1, Probing
<1>10. At(M, D)'
  BY <1>8, <1>9 DEF At
<1>11. map' = [map EXCEPT ![k] = v]
  <2>1. Reads(map, C) /\ Reads(map', D)
    BY <1>10, MapReads, MapReadsNext
  <2>2. map'[k] = v
    BY <1>3, <2>1 DEF Reads, D
  <2>3. /\ \A g \in C : g.key # k => g \in D
        /\ \A g \in D : g.key # k => g \in C
    BY <1>3 DEF D
  <2>4. map' = [map EXCEPT ![k] = map'[k]]
    BY <2>1, <2>3, MapAt
  <2> QED BY <2>2, <2>4
<1>12. Map!Add(k, v)
  BY <1>1, <1>11 DEF Map!Add, Map!Done, Done
<1> QED BY <1>6, <1>10, <1>12 DEF Kept, Map!Next

LEMMA NextKept == ASSUME Inv, [Next]_vars PROVE Kept
<1> PICK N \in Nat, C \in SUBSET Entry : At(N, C)
  BY DEF Inv
<1>1. CASE hashtable_ctor
  BY <1>1, CtorKept
<1>2. CASE hashtable_dtor
  BY <1>2, DtorKept
<1>3. ASSUME NEW k \in Keys, hashtable_get(k) PROVE Kept
  BY <1>3, GetKept
<1>4. ASSUME NEW k \in Keys, hashtable_del(k) PROVE Kept
  BY <1>4, DelKept
<1>5. ASSUME NEW k \in Keys, Astray(k) PROVE Kept
  BY <1>5, AstrayKept
<1>6. ASSUME NEW k \in Keys, NEW v \in Values, hashtable_add(k, v) PROVE Kept
  BY <1>6, UpdateKept, RefuseKept, EnterKept DEF hashtable_add
<1>7. CASE UNCHANGED vars
  <2>1. At(N, C)' /\ map' = map /\ reply' = reply
    BY <1>7, MapIs DEF vars, At
  <2> QED BY <2>1 DEF Kept
<1> QED BY <1>1, <1>2, <1>3, <1>4, <1>5, <1>6, <1>7 DEF Next, Over

-----------------------------------------------------------------------------
(* Theorems                                                                *)

(* What is true of a table of some length with some contents is kept by    *)
(* every call of ht_chains.c, failing ones included.                       *)
THEOREM Inductive == Spec => []Inv
<1>1. Init => Inv
  BY InitAt DEF Inv
<1>2. Inv /\ [Next]_vars => Inv'
  BY NextKept DEF Kept, Inv
<1> QED BY <1>1, <1>2, PTL DEF Spec

(* Every entry stands where a look-up of its key searches, and is counted, *)
(* whatever rehashes succeeded or failed.                                  *)
THEOREM EntriesAlwaysInPlace == Spec => []EntriesInPlace
<1>1. Inv => EntriesInPlace
  <2> SUFFICES ASSUME NEW N \in Nat, NEW C \in SUBSET Entry, At(N, C) PROVE EntriesInPlace
    BY DEF Inv
  <2>1. InPlace(arr, N) /\ n_elements = Len(Entries(arr)) /\ arr_len = N
    BY AtLength DEF At, GoodAt, InTable, arr_len
  <2>2. DOMAIN arr = 0..N - 1 /\ \A i \in 0..N - 1 : Fits(arr[i], i, N)
    BY <2>1 DEF InPlace, Tables
  <2>3. ASSUME NEW i \in 0..N - 1, NEW n \in DOMAIN arr[i].nodes
        PROVE  /\ hash_key(arr[i].nodes[n].key, N) = i
               /\ n \in bucket_find_node(arr[i], arr[i].nodes[n].key)
    <3> DEFINE s == arr[i].nodes
    <3>1. s \in Seq(Entry) /\ OneEach(s) /\ \A m \in 1..Len(s) : hash_key(s[m].key, N) = i
      BY <2>2 DEF Fits, BucketType
    <3>2. n \in 1..Len(s) /\ Len(s) \in Nat
      BY <3>1
    <3>3. \A m \in 1..n - 1 : m \in 1..Len(s) /\ m # n
      BY <3>2
    <3>4. \A m \in 1..n - 1 : s[m].key # s[n].key
      BY <3>1, <3>2, <3>3 DEF OneEach
    <3> QED BY <3>1, <3>2, <3>4 DEF bucket_find_node
  <2>4. \A i \in 0..N - 1 : arr[i].capacity > Len(arr[i].nodes)
    BY <2>2 DEF Fits
  <2> QED BY <2>1, <2>2, <2>3, <2>4 DEF EntriesInPlace
<1> QED BY <1>1, Inductive, PTL

(* The long keys on the heap are those of the table, unless a rehash gave  *)
(* up in the middle.                                                       *)
THEOREM TableAlwaysOwnsItsKeys == Spec => []OwnsItsKeys
<1>1. Inv => OwnsItsKeys
  <2> SUFFICES ASSUME NEW N \in Nat, NEW C \in SUBSET Entry, At(N, C) PROVE OwnsItsKeys
    BY DEF Inv
  <2>1. KeysIn(Entries(arr)) = KeysOf(C)
    BY TableReads DEF At, GoodAt
  <2> QED BY <2>1 DEF OwnsItsKeys, At, GoodAt
<1> QED BY <1>1, Inductive, PTL

(* Freed memory is used only after such a rehash.                          *)
THEOREM FreedOnlyByAFailedMove == Spec => [](life = "undefined" => bereft)
<1>1. Inv => (life = "undefined" => bereft)
  BY DEF Inv, At, GoodAt
<1> QED BY <1>1, Inductive, PTL

(* The hash table implements the map of KeyValueMap.                       *)
THEOREM TableImplementsMap == Spec => ImplementsMap
<1>1. Init => Map!Init
  <2> SUFFICES ASSUME Init PROVE Map!Init
    OBVIOUS
  <2>1. map = [k \in Keys |-> Nothing]
    BY InitAt, MapReads, EmptyMap
  <2> QED BY <2>1 DEF Init, Map!Init, Map!Empty, Map!Done, Done
<1>2. Inv /\ [Next]_vars => [Map!Next]_<<map, reply>>
  BY NextKept DEF Kept
<1> QED BY <1>1, <1>2, Inductive, PTL DEF Spec, ImplementsMap, Map!Spec
=============================================================================
