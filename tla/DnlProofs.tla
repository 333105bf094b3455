------------------------------ MODULE DnlProofs ------------------------------
(***************************************************************************)
(* Proofs about the domain name lists.  The buckets of a map are taken     *)
(* apart from its record first: what a bucket may hold, and what replacing *)
(* one or doubling them all does to the addresses that are held.           *)
(***************************************************************************)
EXTENDS Dnl, SequenceLemmas

Entries == [name : Seq(STRING), tag : Tags]

\* P is a pool: its names have labels and a hash
PoolOk(P) ==
  P \in Seq(Entries) /\ \A a \in DOMAIN P : P[a].name # <<>> /\ Hash[P[a].name] \in Nat

Bucket(P) == [state : {"FREE", "HEAD", "NEXT"}, list : Seq(DOMAIN P)]

\* the bucket of the name n in a map of 2^l buckets that leaves out s bits
At(l, s, n) == ((Hash[n] \div 2 ^ s) % 2 ^ l) + 1

\* b may be bucket i: its names belong there, each once
BucketOk(P, l, s, i, b) ==
  /\ b \in Bucket(P) /\ IsInjective(b.list) /\ (b.state = "HEAD" <=> b.list # <<>>)
  /\ \A a \in ToSet(b.list) : At(l, s, P[a].name) = i
  /\ \A a, c \in ToSet(b.list) : P[a].name = P[c].name => a = c

BucketsOk(P, l, s, bs) ==
  /\ bs \in Seq(Bucket(P)) /\ Len(bs) = 2 ^ l
  /\ \A i \in 1..(2 ^ l) : BucketOk(P, l, s, i, bs[i])

\* the addresses in the lists
Held(bs) == UNION {ToSet(bs[i].list) : i \in DOMAIN bs}

Head1(b) == IF b.state = "HEAD" THEN 1 ELSE 0

-----------------------------------------------------------------------------
(* Buckets *)

(* Every name has a bucket. *)
LEMMA AtIn ==
  ASSUME NEW l \in Nat, NEW s \in Nat, NEW n, Hash[n] \in Nat
  PROVE  At(l, s, n) \in 1..(2 ^ l) /\ Hash[n] \div 2 ^ s \in Nat
<1>1. PICK c \in Nat \ {0} : c = 2 ^ l
  BY PowerOfTwo
<1>2. PICK d \in Nat \ {0} : d = 2 ^ s
  BY PowerOfTwo
<1>3. PICK h \in Nat : h = Hash[n]
  OBVIOUS
<1>4. h \div d \in Nat
  <2>1. h \div d \in Int
    OBVIOUS
  <2>2. h = (h \div d) * d + (h % d)
    OBVIOUS
  <2>3. h % d \in 0..(d - 1)
    OBVIOUS
  <2>4. PICK q \in Int, r \in 0..(d - 1) : q = h \div d /\ r = h % d /\ h = q * d + r
    BY <2>1, <2>2, <2>3
  <2>5. ASSUME q <= -1 PROVE FALSE
    <3>1. q * d <= -d
      BY <2>5
    <3> QED
      BY <2>4, <3>1
  <2> QED
    BY <2>4, <2>5
<1>5. PICK q \in Nat : q = h \div d
  BY <1>4
<1>6. q % c \in 0..(c - 1)
  OBVIOUS
<1> QED
  BY <1>1, <1>2, <1>3, <1>5, <1>6 DEF At

(* Powers of two, as sizes. *)
LEMMA Size ==
  ASSUME NEW l \in Nat
  PROVE  2 ^ l \in Nat \ {0}
BY PowerOfTwo

(* What is held, and where. *)
LEMMA HeldAt ==
  ASSUME NEW P, PoolOk(P), NEW l \in Nat, NEW s \in Nat, NEW bs, BucketsOk(P, l, s, bs)
  PROVE  /\ Held(bs) \subseteq DOMAIN P /\ IsFiniteSet(Held(bs))
         /\ \A a \in DOMAIN P : /\ At(l, s, P[a].name) \in 1..(2 ^ l)
                                /\ a \in Held(bs) <=> a \in ToSet(bs[At(l, s, P[a].name)].list)
         /\ \A a, c \in Held(bs) : P[a].name = P[c].name => a = c
<1>1. /\ P \in Seq(Entries) /\ bs \in Seq(Bucket(P)) /\ DOMAIN bs = 1..(2 ^ l)
      /\ \A i \in 1..(2 ^ l) : BucketOk(P, l, s, i, bs[i])
  BY DEF PoolOk, BucketsOk
<1>2. ASSUME NEW i \in 1..(2 ^ l), NEW a \in ToSet(bs[i].list)
      PROVE  a \in DOMAIN P /\ At(l, s, P[a].name) = i
  <2>1. bs[i].list \in Seq(DOMAIN P) /\ At(l, s, P[a].name) = i
    BY <1>1 DEF BucketOk, Bucket
  <2> QED
    BY <2>1, ToSetMembers
<1>3. ASSUME NEW a \in Held(bs)
      PROVE  a \in DOMAIN P /\ a \in ToSet(bs[At(l, s, P[a].name)].list)
  <2>1. PICK i \in 1..(2 ^ l) : a \in ToSet(bs[i].list)
    BY <1>1 DEF Held
  <2> QED
    BY <1>2, <2>1
<1>4. ASSUME NEW a \in DOMAIN P PROVE At(l, s, P[a].name) \in 1..(2 ^ l)
  BY AtIn DEF PoolOk
<1>5. IsFiniteSet(Held(bs))
  <2>1. DOMAIN P = 1..Len(P) /\ Len(P) \in Nat
    BY <1>1
  <2>2. IsFiniteSet(DOMAIN P)
    BY <2>1, FS_Interval
  <2>3. Held(bs) \in SUBSET (DOMAIN P)
    BY <1>3
  <2> QED
    BY <2>2, <2>3, FS_Subset
<1>6. ASSUME NEW a \in DOMAIN P, a \in ToSet(bs[At(l, s, P[a].name)].list) PROVE a \in Held(bs)
  BY <1>1, <1>4, <1>6 DEF Held
<1>7. ASSUME NEW a \in Held(bs), NEW c \in Held(bs), P[a].name = P[c].name PROVE a = c
  <2>1. PICK i \in 1..(2 ^ l) : i = At(l, s, P[a].name)
    BY <1>3, <1>4
  <2>2. a \in ToSet(bs[i].list) /\ c \in ToSet(bs[i].list)
    BY <1>3, <1>7, <2>1
  <2> QED
    BY <1>1, <1>7, <2>2 DEF BucketOk
<1> QED
  BY <1>3, <1>4, <1>5, <1>6, <1>7

\* d is bs with b in the place of bucket i
IsReplaced(l, bs, i, b, d) ==
  /\ d[i] = b /\ \A j \in 1..(2 ^ l) : j # i => d[j] = bs[j]
  /\ Held(d) = (Held(bs) \ ToSet(bs[i].list)) \cup ToSet(b.list)
  /\ Cardinality(Held(d)) = Cardinality(Held(bs)) - Len(bs[i].list) + Len(b.list)
  /\ HeadCount(d) = HeadCount(bs) - Head1(bs[i]) + Head1(b)

(* One bucket is replaced. *)
LEMMA BucketReplaced ==
  ASSUME NEW P, PoolOk(P), NEW l \in Nat, NEW s \in Nat, NEW bs, BucketsOk(P, l, s, bs),
         NEW i \in 1..(2 ^ l), NEW b, BucketOk(P, l, s, i, b), NEW d, d = [bs EXCEPT ![i] = b]
  PROVE  BucketsOk(P, l, s, d) /\ IsReplaced(l, bs, i, b, d)
<1> DEFINE old == bs[i]
           R == Held(bs) \ ToSet(old.list)
           B == ToSet(b.list)
<1>0. PICK N \in Nat \ {0} : N = 2 ^ l
  BY Size
<1>1. /\ bs \in Seq(Bucket(P)) /\ DOMAIN bs = 1..N /\ Len(bs) = N
      /\ \A j \in 1..N : BucketOk(P, l, s, j, bs[j])
  BY <1>0 DEF BucketsOk
<1>2. b \in Bucket(P) /\ old \in Bucket(P)
  BY <1>0, <1>1 DEF BucketOk
<1>3. /\ d \in Seq(Bucket(P)) /\ Len(d) = N /\ DOMAIN d = 1..N
      /\ d[i] = b /\ \A j \in 1..N : j # i => d[j] = bs[j]
  BY <1>0, <1>1, <1>2
<1>4. BucketsOk(P, l, s, d)
  BY <1>0, <1>1, <1>3 DEF BucketsOk
<1>5. /\ \A a \in Held(bs) : a \in DOMAIN P /\ a \in ToSet(bs[At(l, s, P[a].name)].list)
      /\ IsFiniteSet(Held(bs))
      /\ \A a \in DOMAIN P : At(l, s, P[a].name) \in 1..N
  BY <1>0, HeldAt
<1>6. Held(d) = R \cup B
  <2>1. ASSUME NEW x \in Held(d) PROVE x \in R \cup B
    <3>1. PICK j \in 1..N : x \in ToSet(d[j].list)
      BY <1>3 DEF Held
    <3>2. CASE j = i
      BY <1>3, <3>1, <3>2
    <3>3. CASE j # i
      <4>1. x \in ToSet(bs[j].list)
        BY <1>3, <3>1, <3>3
      <4>2. x \in Held(bs) /\ At(l, s, P[x].name) = j
        BY <1>1, <4>1 DEF Held, BucketOk
      <4>3. x \notin ToSet(old.list)
        BY <1>0, <1>1, <3>3, <4>2 DEF BucketOk
      <4> QED
        BY <4>2, <4>3
    <3> QED
      BY <3>2, <3>3
  <2>2. ASSUME NEW x \in B PROVE x \in Held(d)
    BY <1>0, <1>3 DEF Held
  <2>3. ASSUME NEW x \in R PROVE x \in Held(d)
    <3>1. PICK j \in 1..N : x \in ToSet(bs[j].list)
      BY <1>1 DEF Held
    <3>2. j # i
      BY <3>1
    <3>3. x \in ToSet(d[j].list)
      BY <1>3, <3>1, <3>2
    <3> QED
      BY <1>3, <3>3 DEF Held
  <2> HIDE DEF R, B
  <2> QED
    BY <2>1, <2>2, <2>3
<1>7. ToSet(old.list) \subseteq Held(bs) /\ R \cap B = {}
  <2>1. ToSet(old.list) \subseteq Held(bs)
    BY <1>0, <1>1 DEF Held
  <2>2. ASSUME NEW x \in R, x \in B PROVE FALSE
    <3>1. At(l, s, P[x].name) = i
      BY <2>2 DEF BucketOk
    <3>2. x \in ToSet(bs[i].list)
      BY <1>5, <3>1
    <3> QED
      BY <3>2
  <2> QED
    BY <2>1, <2>2
<1>8. /\ IsFiniteSet(B) /\ Cardinality(B) = Len(b.list) /\ Len(b.list) \in Nat
      /\ IsFiniteSet(ToSet(old.list)) /\ Cardinality(ToSet(old.list)) = Len(old.list)
      /\ Len(old.list) \in Nat
  <2>1. /\ b.list \in Seq(DOMAIN P) /\ old.list \in Seq(DOMAIN P)
    BY <1>2 DEF Bucket
  <2>2. IsInjective(b.list) /\ IsInjective(old.list)
    BY <1>0, <1>1 DEF BucketOk
  <2> HIDE DEF old
  <2> QED
    BY <2>1, <2>2, InjectiveLen
<1>9. Cardinality(Held(d)) = Cardinality(Held(bs)) - Len(old.list) + Len(b.list)
  <2> HIDE DEF B
  <2>1. Held(bs) \cap ToSet(old.list) = ToSet(old.list)
    BY <1>7
  <2>2. IsFiniteSet(R) /\ Cardinality(R) = Cardinality(Held(bs)) - Len(old.list)
    <3>1. PICK K, O : K = Held(bs) /\ O = ToSet(old.list)
      OBVIOUS
    <3>2. IsFiniteSet(K) /\ K \cap O = O /\ R = K \ O /\ Cardinality(O) = Len(old.list)
      BY <1>5, <1>8, <2>1, <3>1
    <3>3. IsFiniteSet(K \ O) /\ Cardinality(K \ O) = Cardinality(K) - Cardinality(K \cap O)
      BY <3>2, FS_Difference
    <3> QED
      BY <3>1, <3>2, <3>3
  <2> HIDE DEF R
  <2>3. Cardinality(R \cup B) = Cardinality(R) + Cardinality(B) - Cardinality(R \cap B)
    BY <1>8, <2>2, FS_Union
  <2>4. Cardinality(R \cap B) = 0
    BY <1>7, FS_EmptySet
  <2>5. Cardinality(Held(bs)) \in Nat
    BY <1>5, FS_CardinalityType
  <2>6. PICK h \in Nat, x \in Nat, y \in Nat :
           h = Cardinality(Held(bs)) /\ x = Len(old.list) /\ y = Len(b.list)
    BY <1>8, <2>5
  <2>7. Cardinality(R) = h - x /\ Cardinality(B) = y
    BY <1>8, <2>2, <2>6
  <2>8. Cardinality(R \cup B) = h - x + y
    BY <2>3, <2>4, <2>7
  <2> QED
    BY <1>6, <2>6, <2>8
<1>10. HeadCount(d) = HeadCount(bs) - Head1(old) + Head1(b)
  <2> DEFINE X == {j \in DOMAIN bs : bs[j].state = "HEAD"}
             Y == {j \in DOMAIN d : d[j].state = "HEAD"}
             Z == X \ {i}
  <2>1. IsFiniteSet(X)
    <3>1. IsFiniteSet(1..N)
      BY FS_Interval
    <3>2. X \in SUBSET (1..N)
      BY <1>1
    <3> QED
      BY <3>1, <3>2, FS_Subset
  <2>2. Cardinality(X) \in Nat /\ IsFiniteSet(Z)
        /\ Cardinality(Z) = IF i \in X THEN Cardinality(X) - 1 ELSE Cardinality(X)
    BY <2>1, FS_RemoveElement, FS_CardinalityType
  <2>3. i \in X <=> old.state = "HEAD"
    BY <1>0, <1>1
  <2>4. Y = IF b.state = "HEAD" THEN Z \cup {i} ELSE Z
    <3>1. \A j \in 1..N : j \in Y <=> IF j = i THEN b.state = "HEAD" ELSE j \in X
      BY <1>1, <1>3
    <3> QED
      BY <1>0, <1>1, <1>3, <3>1
  <2>5. i \notin Z /\ IsFiniteSet(Z \cup {i}) /\ Cardinality(Z \cup {i}) = Cardinality(Z) + 1
    <3>1. i \notin Z
      OBVIOUS
    <3> HIDE DEF Z
    <3> QED
      BY <2>2, <3>1, FS_AddElement
  <2>6. HeadCount(bs) = Cardinality(X) /\ HeadCount(d) = Cardinality(Y)
    BY DEF HeadCount
  <2> HIDE DEF X, Y, Z, old
  <2> QED
    BY <2>2, <2>3, <2>4, <2>5, <2>6 DEF Head1
<1> QED
  BY <1>0, <1>3, <1>4, <1>6, <1>9, <1>10 DEF IsReplaced

-----------------------------------------------------------------------------
(* Twice the buckets *)

HomeIn(P, l, s, i) == {a \in DOMAIN P : At(l, s, P[a].name) = i}

\* what resize_map2 makes of the buckets
Doubled(P, l, s, bs) ==
  [i \in 1..(2 * 2 ^ l) |->
     IF i <= 2 ^ l THEN HeadOrFree(Within(bs[i].list, HomeIn(P, l + 1, s, i)))
     ELSE HeadOrFree(Reverse(Within(bs[i - 2 ^ l].list, HomeIn(P, l + 1, s, i))))]

(* With one bit more of its hash, a name stays where it is or moves to the  *)
(* same place of the second half (the assertions in resize_map2).           *)
LEMMA AtSplits ==
  ASSUME NEW l \in Nat, NEW s \in Nat, NEW n, Hash[n] \in Nat
  PROVE  /\ At(l + 1, s, n) \in 1..(2 * 2 ^ l)
         /\ At(l, s, n) = IF At(l + 1, s, n) <= 2 ^ l THEN At(l + 1, s, n) ELSE At(l + 1, s, n) - 2 ^ l
<1>1. PICK N \in Nat \ {0} : N = 2 ^ l
  BY Size
<1>2. PICK h \in Nat : h = Hash[n] \div 2 ^ s
  BY AtIn
<1>3. 2 ^ (l + 1) = 2 * N
  BY <1>1, PowerDoubles
<1>4. PICK r : r = h % (2 * N)
  OBVIOUS
<1>5. r \in 0..(2 * N - 1) /\ h % N = IF r < N THEN r ELSE r - N
  BY <1>4, HomeSplits
<1>6. At(l, s, n) = (h % N) + 1 /\ At(l + 1, s, n) = r + 1
  BY <1>1, <1>2, <1>3, <1>4 DEF At
<1> QED
  BY <1>1, <1>5, <1>6

(* Nothing is lost and all is in its place when the buckets are doubled. *)
LEMMA DoubledOk ==
  ASSUME NEW P, PoolOk(P), NEW l \in Nat, NEW s \in Nat, NEW bs, BucketsOk(P, l, s, bs)
  PROVE  LET d == Doubled(P, l, s, bs)
         IN /\ BucketsOk(P, l + 1, s, d) /\ Held(d) = Held(bs)
            /\ \A i \in 1..(2 ^ (l + 1)) : d[i].state # "NEXT"
<1> DEFINE d == Doubled(P, l, s, bs)
<1>1. PICK N \in Nat \ {0} : N = 2 ^ l
  BY Size
<1>2. PICK M \in Nat \ {0} : M = 2 * N /\ M = 2 ^ (l + 1)
  BY <1>1, PowerDoubles
<1> DEFINE Of(i) == IF i <= N THEN i ELSE i - N
           Home(i) == HomeIn(P, l + 1, s, i)
<1>3. /\ bs \in Seq(Bucket(P)) /\ DOMAIN bs = 1..N
      /\ \A j \in 1..N : BucketOk(P, l, s, j, bs[j])
  BY <1>1 DEF BucketsOk
<1>4. ASSUME NEW i \in 1..M PROVE Of(i) \in 1..N
  BY <1>2
<1>5. d = [i \in 1..M |-> IF i <= N THEN HeadOrFree(Within(bs[i].list, Home(i)))
                          ELSE HeadOrFree(Reverse(Within(bs[i - N].list, Home(i))))]
  BY <1>1, <1>2 DEF Doubled
<1> HIDE DEF d, Home
<1>6. ASSUME NEW i \in 1..M
      PROVE  /\ d[i].list \in Seq(DOMAIN P) /\ IsInjective(d[i].list)
             /\ ToSet(d[i].list) = ToSet(bs[Of(i)].list) \cap Home(i)
             /\ d[i] = HeadOrFree(d[i].list)
  <2>1. PICK c : c = bs[Of(i)].list
    OBVIOUS
  <2>2. c \in Seq(DOMAIN P) /\ IsInjective(c)
    BY <1>3, <1>4, <2>1 DEF BucketOk, Bucket
  <2>3. PICK w : w = Within(c, Home(i))
    OBVIOUS
  <2>4. w \in Seq(DOMAIN P) /\ IsInjective(w) /\ ToSet(w) = ToSet(c) \cap Home(i)
    BY <2>2, <2>3, WithinElements
  <2>5. Reverse(w) \in Seq(DOMAIN P) /\ IsInjective(Reverse(w)) /\ ToSet(Reverse(w)) = ToSet(w)
    BY <2>4, ReverseElements
  <2>6. d[i] = HeadOrFree(w) \/ d[i] = HeadOrFree(Reverse(w))
    BY <1>5, <2>1, <2>3
  <2>7. CASE d[i] = HeadOrFree(w)
    BY <2>1, <2>4, <2>7 DEF HeadOrFree
  <2>8. CASE d[i] = HeadOrFree(Reverse(w))
    <3>1. PICK v : v = Reverse(w)
      OBVIOUS
    <3>2. d[i].list = v /\ d[i] = HeadOrFree(v)
      BY <2>8, <3>1 DEF HeadOrFree
    <3> QED
      BY <2>1, <2>4, <2>5, <3>1, <3>2
  <2> QED
    BY <2>6, <2>7, <2>8
<1> HIDE DEF Of
<1>7. ASSUME NEW i \in 1..M
      PROVE  d[i] \in Bucket(P) /\ (d[i].state = "HEAD" <=> d[i].list # <<>>) /\ d[i].state # "NEXT"
  <2>1. PICK c \in Seq(DOMAIN P) : d[i] = HeadOrFree(c)
    BY <1>6
  <2> QED
    BY <2>1 DEF HeadOrFree, Bucket
<1>8. ASSUME NEW i \in 1..M PROVE BucketOk(P, l + 1, s, i, d[i])
  <2>1. \A a \in ToSet(d[i].list) : At(l + 1, s, P[a].name) = i
    BY <1>6 DEF Home, HomeIn
  <2>2. \A a, c \in ToSet(d[i].list) : P[a].name = P[c].name => a = c
    BY <1>3, <1>4, <1>6 DEF BucketOk
  <2> QED
    BY <1>6, <1>7, <2>1, <2>2 DEF BucketOk
<1>9. d \in Seq(Bucket(P)) /\ Len(d) = M /\ DOMAIN d = 1..M
  <2>1. d = [i \in 1..M |-> d[i]]
    BY <1>5
  <2>2. d \in [1..M -> Bucket(P)]
    BY <1>7, <2>1
  <2> QED
    BY <2>1, <2>2
<1>10. BucketsOk(P, l + 1, s, d)
  BY <1>2, <1>8, <1>9 DEF BucketsOk
<1>11. ASSUME NEW x \in Held(d) PROVE x \in Held(bs)
  <2>1. PICK i \in 1..M : x \in ToSet(d[i].list)
    BY <1>9 DEF Held
  <2> QED
    BY <1>3, <1>4, <1>6, <2>1 DEF Held
<1>12. ASSUME NEW x \in Held(bs) PROVE x \in Held(d)
  <2>1. x \in DOMAIN P /\ x \in ToSet(bs[At(l, s, P[x].name)].list)
    BY HeldAt
  <2>2. PICK i : i = At(l + 1, s, P[x].name)
    OBVIOUS
  <2>3. Hash[P[x].name] \in Nat
    BY <2>1 DEF PoolOk
  <2>4. i \in 1..M /\ At(l, s, P[x].name) = IF i <= N THEN i ELSE i - N
    BY <1>1, <1>2, <2>2, <2>3, AtSplits
  <2>5. x \in ToSet(bs[Of(i)].list) /\ x \in Home(i)
    BY <2>1, <2>2, <2>4 DEF Of, Home, HomeIn
  <2>6. x \in ToSet(d[i].list)
    BY <1>6, <2>4, <2>5
  <2> QED
    BY <1>9, <2>4, <2>6 DEF Held
<1> QED
  BY <1>2, <1>7, <1>10, <1>11, <1>12 DEF d

-----------------------------------------------------------------------------
(* Maps *)

Maps(P) ==
  [notnull : BOOLEAN, at : Nat, lcap : Nat, nlists : Int, nitems : Int, shift : Nat,
   buckets : Seq(Bucket(P))]

\* a map that is there, and counts what it has
MapOk(P, m) ==
  /\ m \in Maps(P) /\ m.notnull
  /\ BucketsOk(P, m.lcap, m.shift, m.buckets)
  /\ m.nlists = HeadCount(m.buckets) /\ m.nitems = Cardinality(Held(m.buckets))

(* The index in a map. *)
LEMMA IdxIs ==
  ASSUME NEW m, NEW n
  PROVE  Idx(m, n) = At(m.lcap, m.shift, n) /\ cap(m) = 2 ^ m.lcap
BY DEF Idx, At, cap

\* n is m with b as bucket i
IsRebucketed(m, n, i, b) ==
  /\ n.notnull = m.notnull /\ n.at = m.at /\ n.lcap = m.lcap /\ n.shift = m.shift
  /\ n.buckets[i] = b /\ \A j \in 1..cap(m) : j # i => n.buckets[j] = m.buckets[j]
  /\ n.nitems = m.nitems - Len(m.buckets[i].list) + Len(b.list)
  /\ Held(n.buckets) = (Held(m.buckets) \ ToSet(m.buckets[i].list)) \cup ToSet(b.list)

(* A bucket of a map is replaced. *)
LEMMA MapReplaced ==
  ASSUME NEW P, PoolOk(P), NEW m, MapOk(P, m), NEW i \in 1..cap(m),
         NEW b, BucketOk(P, m.lcap, m.shift, i, b),
         NEW n, n = [m EXCEPT !.buckets = [@ EXCEPT ![i] = b],
                              !.nlists = @ - Head1(m.buckets[i]) + Head1(b),
                              !.nitems = @ - Len(m.buckets[i].list) + Len(b.list)]
  PROVE  MapOk(P, n) /\ IsRebucketed(m, n, i, b)
<1>1. /\ m \in Maps(P) /\ m.notnull /\ BucketsOk(P, m.lcap, m.shift, m.buckets)
      /\ m.nlists = HeadCount(m.buckets) /\ m.nitems = Cardinality(Held(m.buckets))
      /\ cap(m) = 2 ^ m.lcap
  BY DEF MapOk, cap
<1>2. PICK l \in Nat, s \in Nat, bs \in Seq(Bucket(P)) : l = m.lcap /\ s = m.shift /\ bs = m.buckets
  BY <1>1 DEF Maps
<1>3. PICK d : d = [bs EXCEPT ![i] = b]
  OBVIOUS
<1>4. /\ BucketsOk(P, l, s, d) /\ d[i] = b /\ \A j \in 1..(2 ^ l) : j # i => d[j] = bs[j]
      /\ Held(d) = (Held(bs) \ ToSet(bs[i].list)) \cup ToSet(b.list)
      /\ Cardinality(Held(d)) = Cardinality(Held(bs)) - Len(bs[i].list) + Len(b.list)
      /\ HeadCount(d) = HeadCount(bs) - Head1(bs[i]) + Head1(b)
  <2>1. BucketsOk(P, l, s, bs) /\ BucketOk(P, l, s, i, b) /\ i \in 1..(2 ^ l)
    BY <1>1, <1>2
  <2>2. BucketsOk(P, l, s, d) /\ IsReplaced(l, bs, i, b, d)
    BY <1>3, <2>1, BucketReplaced
  <2> QED
    BY <2>2 DEF IsReplaced
<1>5. d \in Seq(Bucket(P))
  BY <1>4 DEF BucketsOk
<1>6. /\ m.nlists - Head1(bs[i]) + Head1(b) \in Int
      /\ m.nitems - Len(bs[i].list) + Len(b.list) \in Int
  <2>1. Head1(bs[i]) \in Int /\ Head1(b) \in Int
    BY DEF Head1
  <2>2. Len(bs[i].list) \in Int /\ Len(b.list) \in Int
    <3>1. bs[i] \in Bucket(P) /\ b \in Bucket(P)
      BY <1>1, <1>2 DEF BucketsOk, BucketOk
    <3>2. bs[i].list \in Seq(DOMAIN P) /\ b.list \in Seq(DOMAIN P)
      BY <3>1 DEF Bucket
    <3> QED
      BY <3>2
  <2>3. m.nlists \in Int /\ m.nitems \in Int
    BY <1>1 DEF Maps
  <2>4. \A x, y, z \in Int : x - y + z \in Int
    OBVIOUS
  <2> QED
    BY <2>1, <2>2, <2>3, <2>4, Zenon
<1>7. PICK x \in Int, y \in Int : /\ x = m.nlists - Head1(bs[i]) + Head1(b)
                                  /\ y = m.nitems - Len(bs[i].list) + Len(b.list)
  BY <1>6
<1>8. n = [m EXCEPT !.buckets = d, !.nlists = x, !.nitems = y]
  BY <1>1, <1>2, <1>3, <1>7 DEF Maps
<1>9. /\ n \in Maps(P) /\ n.notnull = m.notnull /\ n.at = m.at /\ n.lcap = l /\ n.shift = s
      /\ n.buckets = d /\ n.nlists = x /\ n.nitems = y
  BY <1>1, <1>2, <1>5, <1>8 DEF Maps
<1>10. MapOk(P, n)
  BY <1>1, <1>2, <1>4, <1>7, <1>9 DEF MapOk
<1> QED
  BY <1>1, <1>2, <1>3, <1>4, <1>7, <1>9, <1>10 DEF IsRebucketed

\* what a is to a map that holds K: nothing, if its name is there
NewIn(P, K, a) == IF \E c \in K : P[c].name = P[a].name THEN {} ELSE {a}

(* A bucket has the name if the map does. *)
LEMMA ExistsIff ==
  ASSUME PoolOk(pool), NEW m, MapOk(pool, m), NEW n, Hash[n] \in Nat
  PROVE  /\ Idx(m, n) \in 1..cap(m) /\ m.buckets[Idx(m, n)] \in Bucket(pool)
         /\ {c \in ToSet(m.buckets[Idx(m, n)].list) : NameAt(c) = n}
              = {c \in Held(m.buckets) : NameAt(c) = n}
         /\ Exists(m.buckets[Idx(m, n)], n) <=> \E c \in Held(m.buckets) : NameAt(c) = n
<1>1. PICK l \in Nat, s \in Nat, bs \in Seq(Bucket(pool)) : l = m.lcap /\ s = m.shift /\ bs = m.buckets
  BY DEF MapOk, Maps
<1>2. PICK i : i = Idx(m, n)
  OBVIOUS
<1>3. i = At(l, s, n) /\ cap(m) = 2 ^ l /\ BucketsOk(pool, l, s, bs)
  BY <1>1, <1>2, IdxIs DEF MapOk
<1>4. i \in 1..(2 ^ l)
  BY <1>3, AtIn
<1>5. bs[i] \in Bucket(pool)
  BY <1>3, <1>4 DEF BucketsOk, BucketOk
<1>6. PICK b : b = bs[i]
  OBVIOUS
<1>7. DOMAIN bs = 1..(2 ^ l)
  BY <1>3 DEF BucketsOk
<1>8. ASSUME NEW c \in ToSet(b.list) PROVE c \in Held(bs)
  BY <1>4, <1>6, <1>7 DEF Held
<1>9. ASSUME NEW c \in Held(bs), NameAt(c) = n PROVE c \in ToSet(b.list)
  <2>1. c \in DOMAIN pool /\ c \in ToSet(bs[At(l, s, pool[c].name)].list)
    BY <1>3, HeldAt
  <2> QED
    BY <1>3, <1>6, <1>9, <2>1 DEF NameAt
<1>10. Exists(b, n) <=> \E c \in ToSet(b.list) : NameAt(c) = n
  BY DEF Exists, ToSet
<1>11. /\ {c \in ToSet(b.list) : NameAt(c) = n} = {c \in Held(bs) : NameAt(c) = n}
       /\ Exists(b, n) <=> \E c \in Held(bs) : NameAt(c) = n
  BY <1>8, <1>9, <1>10
<1> QED
  BY <1>1, <1>2, <1>3, <1>4, <1>5, <1>6, <1>11

\* n is m with a at the head of the list i
IsStored(m, n, i, a) ==
  /\ n.at = m.at /\ n.lcap = m.lcap /\ n.shift = m.shift
  /\ n.nitems = m.nitems + 1 /\ Held(n.buckets) = Held(m.buckets) \cup {a}
  /\ \A j \in 1..cap(m) : j # i => n.buckets[j] = m.buckets[j]
  /\ n.buckets[i].state = "HEAD" /\ n.buckets[i].list = <<a>> \o m.buckets[i].list

(* A name is stored at the head of its list. *)
LEMMA StoredOk ==
  ASSUME PoolOk(pool), NEW m, MapOk(pool, m), NEW a \in DOMAIN pool, NEW i, i = Idx(m, NameAt(a)),
         m.buckets[i].state # "NEXT", ~Exists(m.buckets[i], NameAt(a)),
         NEW n, n = Stored(m, a)
  PROVE  MapOk(pool, n) /\ IsStored(m, n, i, a)
<1>0. Hash[NameAt(a)] \in Nat
  BY DEF PoolOk, NameAt
<1>1. PICK j : j = Idx(m, NameAt(a)) /\ j = i
  OBVIOUS
<1>2. PICK old : old = m.buckets[j]
  OBVIOUS
<1>3. /\ j \in 1..cap(m) /\ old \in Bucket(pool) /\ old.state # "NEXT"
      /\ ~Exists(old, NameAt(a))
  BY <1>0, <1>1, <1>2, ExistsIff
<1>4. old.list \in Seq(DOMAIN pool) /\ old.state \in {"FREE", "HEAD"} /\ Len(old.list) \in Nat
  BY <1>3 DEF Bucket
<1>5. BucketOk(pool, m.lcap, m.shift, j, old)
  BY <1>2, <1>3, IdxIs DEF MapOk, BucketsOk
<1>6. PICK b : b = [state |-> "HEAD", list |-> <<a>> \o old.list]
  OBVIOUS
<1>7. \A c \in ToSet(old.list) : NameAt(c) # NameAt(a)
  BY <1>3 DEF Exists, ToSet
<1>8. a \notin ToSet(old.list)
  BY <1>7
<1>9. PICK t : t = <<a>> \o old.list
  OBVIOUS
<1>10. t \in Seq(DOMAIN pool) /\ IsInjective(t) /\ ToSet(t) = ToSet(old.list) \cup {a}
  BY <1>4, <1>5, <1>8, <1>9, PrependNew DEF BucketOk
<1>11. Len(t) = Len(old.list) + 1 /\ t # <<>>
  <2>1. Len(t) = Len(old.list) + 1
    BY <1>4, <1>9
  <2> QED
    BY <1>4, <1>10, <2>1
<1>12. b.state = "HEAD" /\ b.list = t /\ b \in Bucket(pool)
  BY <1>6, <1>9, <1>10 DEF Bucket
<1>13. BucketOk(pool, m.lcap, m.shift, j, b)
  <2>1. ASSUME NEW c \in ToSet(t) PROVE At(m.lcap, m.shift, pool[c].name) = j
    <3>1. CASE c = a
      BY <1>1, <3>1, IdxIs DEF NameAt
    <3>2. CASE c \in ToSet(old.list)
      BY <1>5, <3>2 DEF BucketOk
    <3> QED
      BY <1>10, <3>1, <3>2
  <2>2. ASSUME NEW c \in ToSet(t), NEW e \in ToSet(t), pool[c].name = pool[e].name PROVE c = e
    BY <1>5, <1>7, <1>10, <2>2 DEF BucketOk, NameAt
  <2> QED
    BY <1>10, <1>11, <1>12, <2>1, <2>2 DEF BucketOk
<1>14. m \in Maps(pool)
  BY DEF MapOk
<1>15. PICK x \in Int, y \in Int : x = m.nlists /\ y = m.nitems
  BY <1>14 DEF Maps
<1>16. PICK k \in Nat : k = Len(old.list)
  BY <1>4
<1>17. /\ x - Head1(old) + Head1(b) = x + (IF old.state = "FREE" THEN 1 ELSE 0)
       /\ y - Len(old.list) + Len(b.list) = y + 1
  <2>1. y - k + (k + 1) = y + 1 /\ x - 0 + 1 = x + 1 /\ x - 1 + 1 = x + 0
    OBVIOUS
  <2> QED
    BY <1>4, <1>11, <1>12, <1>16, <2>1 DEF Head1
<1>18. PICK bs : bs = [m.buckets EXCEPT ![j] = b]
  OBVIOUS
<1>19. n = [m EXCEPT !.buckets = bs, !.nitems = y + 1, !.nlists = x + (IF old.state = "FREE" THEN 1 ELSE 0)]
  BY <1>1, <1>2, <1>6, <1>14, <1>15, <1>18 DEF Stored, Maps
<1>20. n = [m EXCEPT !.buckets = [@ EXCEPT ![j] = b],
                     !.nlists = @ - Head1(m.buckets[j]) + Head1(b),
                     !.nitems = @ - Len(m.buckets[j].list) + Len(b.list)]
  BY <1>2, <1>14, <1>15, <1>17, <1>18, <1>19 DEF Maps
<1>21. MapOk(pool, n) /\ IsRebucketed(m, n, j, b)
  BY <1>3, <1>13, <1>20, MapReplaced
<1>22. Held(n.buckets) = Held(m.buckets) \cup {a}
  <2>1. ToSet(old.list) \subseteq Held(m.buckets)
    <3>1. DOMAIN m.buckets = 1..cap(m)
      BY IdxIs DEF MapOk, BucketsOk
    <3> QED
      BY <1>2, <1>3, <3>1 DEF Held
  <2>2. Held(n.buckets) = (Held(m.buckets) \ ToSet(old.list)) \cup ToSet(t)
    BY <1>2, <1>12, <1>21 DEF IsRebucketed
  <2> QED
    BY <1>10, <2>1, <2>2
<1>23. n.nitems = m.nitems + 1
  BY <1>2, <1>15, <1>17, <1>21 DEF IsRebucketed
<1> QED
  BY <1>1, <1>2, <1>6, <1>21, <1>22, <1>23 DEF IsRebucketed, IsStored

(* A list is handed over: the first level forgets its names. *)
LEMMA HandOverOk ==
  ASSUME PoolOk(pool), NEW m, MapOk(pool, m), NEW i \in 1..cap(m), m.buckets[i].state = "HEAD",
         NEW n, n = HandOver(m, i)
  PROVE  /\ MapOk(pool, n) /\ n.lcap = m.lcap /\ n.shift = m.shift
         /\ Held(n.buckets) = Held(m.buckets) \ ToSet(m.buckets[i].list)
         /\ \A j \in 1..cap(m) : j # i => n.buckets[j] = m.buckets[j]
         /\ n.buckets[i] = [state |-> "NEXT", list |-> <<>>]
<1>1. PICK old : old = m.buckets[i]
  OBVIOUS
<1>2. BucketOk(pool, m.lcap, m.shift, i, old)
  BY <1>1, IdxIs DEF MapOk, BucketsOk
<1>3. old.list \in Seq(DOMAIN pool) /\ Len(old.list) \in Nat
  BY <1>2 DEF BucketOk, Bucket
<1>4. PICK b : b = [state |-> "NEXT", list |-> <<>>]
  OBVIOUS
<1>5. b.state = "NEXT" /\ b.list = <<>> /\ b \in Bucket(pool) /\ ToSet(b.list) = {} /\ Len(b.list) = 0
      /\ IsInjective(b.list)
  BY <1>4 DEF Bucket, ToSet, IsInjective
<1>6. BucketOk(pool, m.lcap, m.shift, i, b)
  BY <1>5 DEF BucketOk
<1>7. m \in Maps(pool)
  BY DEF MapOk
<1>8. PICK x \in Int, y \in Int, k \in Nat : x = m.nlists /\ y = m.nitems /\ k = Len(old.list)
  BY <1>3, <1>7 DEF Maps
<1>9. x - Head1(old) + Head1(b) = x - 1 /\ y - Len(old.list) + Len(b.list) = y - k
  <2>1. y - k + 0 = y - k /\ x - 1 + 0 = x - 1
    OBVIOUS
  <2> QED
    BY <1>1, <1>5, <1>8, <2>1 DEF Head1
<1>10. PICK bs : bs = [m.buckets EXCEPT ![i] = b]
  OBVIOUS
<1>11. n = [m EXCEPT !.buckets = bs, !.nlists = x - 1, !.nitems = y - k]
  BY <1>1, <1>4, <1>7, <1>8, <1>10 DEF HandOver, Maps
<1>12. n = [m EXCEPT !.buckets = [@ EXCEPT ![i] = b],
                     !.nlists = @ - Head1(m.buckets[i]) + Head1(b),
                     !.nitems = @ - Len(m.buckets[i].list) + Len(b.list)]
  BY <1>1, <1>7, <1>8, <1>9, <1>10, <1>11 DEF Maps
<1>13. MapOk(pool, n) /\ IsRebucketed(m, n, i, b)
  BY <1>6, <1>12, MapReplaced
<1> QED
  BY <1>4, <1>5, <1>13 DEF IsRebucketed

(* How many lists there are is a number. *)
LEMMA HeadCountType ==
  ASSUME NEW S, NEW bs \in Seq(S)
  PROVE  HeadCount(bs) \in Nat
<1>1. IsFiniteSet(1..Len(bs))
  <2>1. Len(bs) \in Nat
    OBVIOUS
  <2> QED
    BY <2>1, FS_Interval
<1>2. {i \in DOMAIN bs : bs[i].state = "HEAD"} \in SUBSET (1..Len(bs))
  OBVIOUS
<1> QED
  BY <1>1, <1>2, FS_Subset, FS_CardinalityType DEF HeadCount

(* The second level grows. *)
LEMMA ResizedOk ==
  ASSUME PoolOk(pool), NEW m, MapOk(pool, m), NEW n, n = resize_map2(m)
  PROVE  /\ MapOk(pool, n) /\ n.at = m.at /\ n.lcap = m.lcap + 1 /\ n.shift = m.shift
         /\ n.nitems = m.nitems /\ Held(n.buckets) = Held(m.buckets)
         /\ \A i \in 1..cap(n) : n.buckets[i].state # "NEXT"
<1>1. m \in Maps(pool) /\ BucketsOk(pool, m.lcap, m.shift, m.buckets) /\ m.nlists = HeadCount(m.buckets)
      /\ m.nitems = Cardinality(Held(m.buckets)) /\ m.notnull
  BY DEF MapOk
<1>2. PICK l \in Nat, s \in Nat, bs \in Seq(Bucket(pool)) : l = m.lcap /\ s = m.shift /\ bs = m.buckets
  BY <1>1 DEF Maps
<1>3. PICK d : d = Doubled(pool, l, s, bs)
  OBVIOUS
<1>4. /\ BucketsOk(pool, l + 1, s, d) /\ Held(d) = Held(bs)
      /\ \A i \in 1..(2 ^ (l + 1)) : d[i].state # "NEXT"
  BY <1>1, <1>2, <1>3, DoubledOk
<1>5. d \in Seq(Bucket(pool))
  BY <1>4 DEF BucketsOk
<1>6. HeadCount(d) \in Nat /\ HeadCount(bs) \in Nat
  BY <1>2, <1>5, HeadCountType
<1> DEFINE big == [m EXCEPT !.lcap = @ + 1]
           Home(i) == {a \in DOMAIN pool : Idx(big, NameAt(a)) = i}
<1>7. big.lcap = l + 1 /\ big.shift = s
  BY <1>1, <1>2 DEF Maps
<1>8. \A i : Home(i) = HomeIn(pool, l + 1, s, i)
  <2>1. \A x : Idx(big, x) = At(l + 1, s, x)
    BY <1>7, IdxIs
  <2> HIDE DEF big
  <2> QED
    BY <2>1 DEF HomeIn, NameAt
<1>9. d = [i \in 1..(2 * cap(m)) |->
             IF i <= cap(m) THEN HeadOrFree(Within(m.buckets[i].list, Home(i)))
             ELSE HeadOrFree(Reverse(Within(m.buckets[i - cap(m)].list, Home(i))))]
  <2>1. cap(m) = 2 ^ l
    BY <1>2 DEF cap
  <2> HIDE DEF Home
  <2> QED
    BY <1>2, <1>3, <1>8, <2>1 DEF Doubled
<1>10. n = [big EXCEPT !.buckets = d, !.nlists = @ + HeadCount(d) - HeadCount(m.buckets)]
  BY <1>9 DEF resize_map2
<1>11. HeadCount(bs) + HeadCount(d) - HeadCount(bs) = HeadCount(d)
  <2>1. \A x, y \in Nat : x + y - x = y
    OBVIOUS
  <2> QED
    BY <1>6, <2>1
<1>12. n = [m EXCEPT !.lcap = l + 1, !.buckets = d, !.nlists = HeadCount(d)]
  BY <1>1, <1>2, <1>10, <1>11 DEF Maps
<1>13. /\ n \in Maps(pool) /\ n.lcap = l + 1 /\ n.buckets = d /\ n.nlists = HeadCount(d)
       /\ n.at = m.at /\ n.shift = s /\ n.nitems = m.nitems /\ n.notnull
  <2>1. PICK h \in Int, k \in Nat : h = HeadCount(d) /\ k = l + 1
    BY <1>6
  <2>2. n = [m EXCEPT !.lcap = k, !.buckets = d, !.nlists = h]
    BY <1>12, <2>1
  <2>3. /\ n \in Maps(pool) /\ n.lcap = k /\ n.buckets = d /\ n.nlists = h
        /\ n.at = m.at /\ n.shift = m.shift /\ n.nitems = m.nitems /\ n.notnull = m.notnull
    BY <1>1, <1>5, <2>2 DEF Maps
  <2> QED
    BY <1>1, <1>2, <2>1, <2>3
<1>14. MapOk(pool, n)
  BY <1>1, <1>2, <1>4, <1>13 DEF MapOk
<1> QED
  BY <1>2, <1>4, <1>13, <1>14, IdxIs

IsNewMap(n, lcap, shift, end) ==
  /\ n.at = end /\ n.lcap = lcap /\ n.shift = shift /\ n.nitems = 0
  /\ Held(n.buckets) = {}
  /\ \A i \in 1..cap(n) : n.buckets[i].state = "FREE" /\ n.buckets[i].list = <<>>

(* A map that was just made is empty. *)
LEMMA NewMapOk ==
  ASSUME NEW P, NEW lcap \in Nat, NEW shift \in Nat, NEW end \in Nat,
         NEW n, n = NewMap(lcap, shift, end)
  PROVE  MapOk(P, n) /\ IsNewMap(n, lcap, shift, end)
<1>1. PICK N \in Nat \ {0} : N = 2 ^ lcap
  BY Size
<1>2. PICK bs : bs = FreeBuckets(N)
  OBVIOUS
<1>3. DOMAIN bs = 1..N /\ \A i \in 1..N : bs[i] = [state |-> "FREE", list |-> <<>>]
  BY <1>2 DEF FreeBuckets
<1>4. bs = [i \in 1..N |-> [state |-> "FREE", list |-> <<>>]]
  BY <1>2 DEF FreeBuckets
<1>5. PICK e : e = [state |-> "FREE", list |-> <<>>]
  OBVIOUS
<1>6. e \in Bucket(P) /\ e.state = "FREE" /\ e.list = <<>> /\ IsInjective(e.list) /\ ToSet(e.list) = {}
  BY <1>5 DEF Bucket, IsInjective, ToSet
<1>7. bs \in Seq(Bucket(P)) /\ Len(bs) = N
  BY <1>4, <1>5, <1>6
<1>8. \A i \in 1..N : BucketOk(P, lcap, shift, i, bs[i])
  BY <1>3, <1>5, <1>6 DEF BucketOk
<1>9. BucketsOk(P, lcap, shift, bs)
  BY <1>1, <1>7, <1>8 DEF BucketsOk
<1>10. Held(bs) = {}
  BY <1>3, <1>5, <1>6 DEF Held
<1>11. HeadCount(bs) = 0
  <2>1. {i \in DOMAIN bs : bs[i].state = "HEAD"} = {}
    BY <1>3
  <2> QED
    BY <2>1, FS_EmptySet DEF HeadCount
<1>12. n = [notnull |-> TRUE, at |-> end, lcap |-> lcap, nlists |-> 0, nitems |-> 0,
            shift |-> shift, buckets |-> bs]
  BY <1>1, <1>2 DEF NewMap, Null
<1>13. n \in Maps(P)
  BY <1>7, <1>12 DEF Maps
<1>14. MapOk(P, n)
  BY <1>9, <1>10, <1>11, <1>12, <1>13, FS_EmptySet DEF MapOk
<1> QED
  BY <1>1, <1>3, <1>10, <1>12, <1>14 DEF cap, IsNewMap

-----------------------------------------------------------------------------
(* Both levels *)

\* the second level: it keeps its load, and ends the pool
Level2(P, m, end) ==
  /\ MapOk(P, m) /\ \A i \in 1..cap(m) : m.buckets[i].state # "NEXT"
  /\ m.nitems <= maxload(m) /\ m.at + cap(m) = end

DnlOk(P, ms) ==
  /\ ms = [m1 |-> ms.m1, m2 |-> ms.m2, end |-> ms.end] /\ ms.end \in Nat
  /\ MapOk(P, ms.m1)
  /\ \A i \in 1..cap(ms.m1) : Len(ms.m1.buckets[i].list) <= MaxCollision
  /\ ms.m2 = Null \/ Level2(P, ms.m2, ms.end)
  /\ \A a \in Held(ms.m2.buckets) : ms.m1.buckets[Idx(ms.m1, P[a].name)].state = "NEXT"

KeptAll(ms) == Held(ms.m1.buckets) \cup Held(ms.m2.buckets)

(* A name that is not there gets into the second level, which grows if it   *)
(* has to.                                                                  *)
LEMMA Level2Add ==
  ASSUME PoolOk(pool), NEW m, NEW end \in Nat, Level2(pool, m, end), NEW a \in DOMAIN pool,
         ~Exists(m.buckets[Idx(m, NameAt(a))], NameAt(a)),
         NEW full \in BOOLEAN, full <=> m.nitems >= maxload(m),
         NEW n, n = Stored(IF full THEN resize_map2(m) ELSE m, a),
         NEW e, e = end + (IF full THEN cap(m) ELSE 0)
  PROVE  e \in Nat /\ Level2(pool, n, e) /\ Held(n.buckets) = Held(m.buckets) \cup {a}
<1>0. Hash[NameAt(a)] \in Nat
  BY DEF PoolOk, NameAt
<1>1. MapOk(pool, m) /\ m \in Maps(pool) /\ \A i \in 1..cap(m) : m.buckets[i].state # "NEXT"
  BY DEF Level2, MapOk
<1>2. PICK l \in Nat, c \in Nat \ {0}, k \in Int, p \in Nat :
        l = m.lcap /\ c = cap(m) /\ k = m.nitems /\ p = m.at
  BY <1>1, Size DEF Maps, cap
<1>3. PICK r : r = IF full THEN resize_map2(m) ELSE m
  OBVIOUS
<1>4. maxload(m) = (c * 3) \div 4 /\ k <= maxload(m) /\ p + c = end
  BY <1>2 DEF Level2, maxload
<1>5. PICK d \in Nat \ {0} : d = IF full THEN 2 * c ELSE c
  OBVIOUS
<1>6. /\ MapOk(pool, r) /\ r.at = p /\ r.nitems = k /\ Held(r.buckets) = Held(m.buckets)
      /\ cap(r) = d /\ \A i \in 1..cap(r) : r.buckets[i].state # "NEXT"
  <2>1. CASE full
    <3>1. r = resize_map2(m)
      BY <1>3, <2>1
    <3>2. /\ MapOk(pool, r) /\ r.at = m.at /\ r.lcap = m.lcap + 1
          /\ r.nitems = m.nitems /\ Held(r.buckets) = Held(m.buckets)
          /\ \A i \in 1..cap(r) : r.buckets[i].state # "NEXT"
      BY <1>1, <3>1, ResizedOk
    <3>3. cap(r) = 2 ^ (l + 1) /\ c = 2 ^ l
      BY <1>2, <3>2 DEF cap
    <3>4. cap(r) = 2 * c
      BY <3>3, PowerDoubles
    <3> QED
      BY <1>2, <1>5, <2>1, <3>2, <3>4
  <2>2. CASE ~full
    BY <1>1, <1>2, <1>3, <1>5, <2>2
  <2> QED
    BY <2>1, <2>2
<1>7. PICK i : i = Idx(r, NameAt(a))
  OBVIOUS
<1>8. i \in 1..cap(r) /\ ~Exists(r.buckets[i], NameAt(a))
  BY <1>0, <1>1, <1>6, <1>7, ExistsIff
<1>9. r.buckets[i].state # "NEXT"
  BY <1>6, <1>8
<1>10. /\ MapOk(pool, n) /\ n.at = r.at /\ n.lcap = r.lcap
       /\ n.nitems = r.nitems + 1 /\ Held(n.buckets) = Held(r.buckets) \cup {a}
       /\ \A j \in 1..cap(r) : j # i => n.buckets[j] = r.buckets[j]
       /\ n.buckets[i].state = "HEAD"
  <2>1. n = Stored(r, a)
    BY <1>3
  <2>2. MapOk(pool, n) /\ IsStored(r, n, i, a)
    BY <1>6, <1>7, <1>8, <1>9, <2>1, StoredOk
  <2> QED
    BY <2>2 DEF IsStored
<1>11. cap(n) = d /\ n.at = p /\ n.nitems = k + 1
  BY <1>6, <1>10 DEF cap
<1>12. ASSUME NEW j \in 1..cap(n) PROVE n.buckets[j].state # "NEXT"
  <2>1. j \in 1..cap(r)
    BY <1>6, <1>11
  <2>2. CASE j = i
    BY <1>10, <2>2
  <2>3. CASE j # i
    BY <1>6, <1>10, <2>1, <2>3
  <2> QED
    BY <2>2, <2>3
<1>13. k + 1 <= (d * 3) \div 4 /\ p + d = e /\ e \in Nat
  <2>1. full <=> k >= (c * 3) \div 4
    BY <1>2, <1>4
  <2>2. CASE full
    <3>1. d = 2 * c /\ e = end + c /\ k <= (c * 3) \div 4
      BY <1>2, <1>4, <1>5, <2>2
    <3> QED
      BY <1>4, <3>1
  <2>3. CASE ~full
    <3>1. d = c /\ e = end + 0 /\ k < (c * 3) \div 4
      BY <1>2, <1>5, <2>1, <2>3
    <3> QED
      BY <1>4, <3>1
  <2> QED
    BY <2>2, <2>3
<1>14. Level2(pool, n, e)
  BY <1>10, <1>11, <1>12, <1>13 DEF Level2, maxload
<1> QED
  BY <1>6, <1>10, <1>13, <1>14

\* n is ms with the address a in its second level, if the name is new there
IsAdded2(P, ms, n, a) ==
  /\ DnlOk(P, n) /\ n.m1 = ms.m1 /\ Level2(P, n.m2, n.end)
  /\ Held(n.m2.buckets) = Held(ms.m2.buckets) \cup NewIn(P, Held(ms.m2.buckets), a)

(* add_to_map2, for a name whose bucket of the first level refers to the    *)
(* second.                                                                  *)
LEMMA AddToMap2 ==
  ASSUME PoolOk(pool), NEW ms, DnlOk(pool, ms), NEW a \in DOMAIN pool,
         ms.m1.buckets[Idx(ms.m1, NameAt(a))].state = "NEXT",
         NEW n, n = add_to_map2(ms, a)
  PROVE  IsAdded2(pool, ms, n, a)
<1>0. Hash[NameAt(a)] \in Nat
  BY DEF PoolOk, NameAt
<1>1. /\ ms = [m1 |-> ms.m1, m2 |-> ms.m2, end |-> ms.end] /\ ms.end \in Nat
      /\ MapOk(pool, ms.m1) /\ ms.m1.lcap \in Nat
      /\ ms.m2 = Null \/ Level2(pool, ms.m2, ms.end)
  BY DEF DnlOk, MapOk, Maps
<1>2. PICK made : made = IF ms.m2.notnull THEN ms
                         ELSE [alloc(ms, 2 ^ DefaultLcap) EXCEPT
                                 !.m2 = NewMap(DefaultLcap, ms.m1.lcap, ms.end)]
  OBVIOUS
<1>3. PICK m, end : m = made.m2 /\ end = made.end
  OBVIOUS
<1>4. /\ made = [m1 |-> ms.m1, m2 |-> m, end |-> end] /\ end \in Nat
      /\ Level2(pool, m, end) /\ Held(m.buckets) = Held(ms.m2.buckets)
  <2>1. CASE ms.m2 = Null
    <3>1. PICK w : w = NewMap(DefaultLcap, ms.m1.lcap, ms.end)
      OBVIOUS
    <3>2. PICK N \in Nat \ {0} : N = 2 ^ DefaultLcap
      BY Size, DnlAssumption
    <3>3. ~ms.m2.notnull /\ ms.m2.buckets = <<>>
      BY <2>1 DEF Null
    <3>4. made = [m1 |-> ms.m1, m2 |-> w, end |-> ms.end + N]
      BY <1>1, <1>2, <3>1, <3>2, <3>3 DEF alloc
    <3>5. /\ MapOk(pool, w) /\ w.at = ms.end /\ w.lcap = DefaultLcap /\ w.nitems = 0
          /\ Held(w.buckets) = {}
          /\ \A i \in 1..cap(w) : w.buckets[i].state = "FREE"
      <4>1. DefaultLcap \in Nat /\ ms.m1.lcap \in Nat /\ ms.end \in Nat
        BY <1>1, DnlAssumption
      <4>2. MapOk(pool, w) /\ IsNewMap(w, DefaultLcap, ms.m1.lcap, ms.end)
        BY <3>1, <4>1, NewMapOk
      <4> QED
        BY <4>2 DEF IsNewMap
    <3>6. cap(w) = N /\ w.nitems <= maxload(w)
      <4>1. cap(w) = N
        BY <3>2, <3>5 DEF cap
      <4> QED
        BY <3>5, <4>1 DEF maxload
    <3>7. \A i \in 1..cap(w) : w.buckets[i].state # "NEXT"
      BY <3>5
    <3>8. Level2(pool, w, ms.end + N)
      BY <3>5, <3>6, <3>7 DEF Level2
    <3>9. Held(ms.m2.buckets) = {}
      BY <3>3 DEF Held
    <3> QED
      BY <1>1, <1>3, <3>4, <3>5, <3>8, <3>9
  <2>2. CASE Level2(pool, ms.m2, ms.end)
    <3>1. ms.m2.notnull
      BY <2>2 DEF Level2, MapOk
    <3> QED
      BY <1>1, <1>2, <1>3, <2>2, <3>1
  <2> QED
    BY <1>1, <2>1, <2>2
<1>5. PICK ex : ex = Exists(m.buckets[Idx(m, NameAt(a))], NameAt(a))
  OBVIOUS
<1>6. PICK full \in BOOLEAN : full <=> m.nitems >= maxload(m)
  OBVIOUS
<1>7. MapOk(pool, m)
  BY <1>4 DEF Level2
<1>8. Exists(m.buckets[Idx(m, NameAt(a))], NameAt(a))
        <=> \E c \in Held(ms.m2.buckets) : pool[c].name = pool[a].name
  BY <1>0, <1>4, <1>7, ExistsIff DEF NameAt
<1>9. /\ n = [m1 |-> ms.m1, m2 |-> n.m2, end |-> n.end] /\ n.end \in Nat
      /\ Level2(pool, n.m2, n.end)
      /\ Held(n.m2.buckets) = Held(ms.m2.buckets) \cup NewIn(pool, Held(ms.m2.buckets), a)
  <2>1. CASE Exists(m.buckets[Idx(m, NameAt(a))], NameAt(a))
    <3>1. n = made
      BY <1>2, <1>3, <2>1 DEF add_to_map2
    <3>2. NewIn(pool, Held(ms.m2.buckets), a) = {}
      BY <1>8, <2>1 DEF NewIn
    <3> QED
      BY <1>4, <3>1, <3>2
  <2>2. CASE ~Exists(m.buckets[Idx(m, NameAt(a))], NameAt(a))
    <3>1. PICK w : w = Stored(IF full THEN resize_map2(m) ELSE m, a)
      OBVIOUS
    <3>2. PICK e : e = end + (IF full THEN cap(m) ELSE 0)
      OBVIOUS
    <3>3. e \in Nat /\ Level2(pool, w, e) /\ Held(w.buckets) = Held(m.buckets) \cup {a}
      BY <1>4, <1>6, <2>2, <3>1, <3>2, Level2Add
    <3>4. n = [alloc(made, IF full THEN cap(m) ELSE 0) EXCEPT !.m2 = w]
      BY <1>2, <1>3, <1>6, <2>2, <3>1 DEF add_to_map2
    <3>5. n = [m1 |-> ms.m1, m2 |-> w, end |-> e]
      BY <1>4, <3>2, <3>4 DEF alloc
    <3>6. NewIn(pool, Held(ms.m2.buckets), a) = {a}
      BY <1>8, <2>2 DEF NewIn
    <3> QED
      BY <1>4, <3>3, <3>5, <3>6
  <2> QED
    BY <2>1, <2>2
<1>10. n.m1 = ms.m1
  BY <1>9
<1>11. ASSUME NEW c \in Held(n.m2.buckets)
       PROVE  n.m1.buckets[Idx(n.m1, pool[c].name)].state = "NEXT"
  <2>1. c \in Held(ms.m2.buckets) \/ c = a
    BY <1>9 DEF NewIn
  <2>2. CASE c = a
    BY <1>10, <2>2 DEF NameAt
  <2>3. CASE c \in Held(ms.m2.buckets)
    BY <1>10, <2>3 DEF DnlOk
  <2> QED
    BY <2>1, <2>2, <2>3
<1>12. \A i \in 1..cap(n.m1) : Len(n.m1.buckets[i].list) <= MaxCollision
  BY <1>10 DEF DnlOk
<1>13. DnlOk(pool, n)
  BY <1>1, <1>9, <1>10, <1>11, <1>12 DEF DnlOk
<1> QED
  BY <1>9, <1>10, <1>13 DEF IsAdded2

(* The names of a list are moved one by one. *)
LEMMA MoveSteps ==
  ASSUME NEW ms, NEW list
  PROVE  \E f : /\ MoveList(ms, list) = f[Len(list)] /\ f[0] = ms
                /\ \A k \in Nat \ {0} : f[k] = add_to_map2(f[k - 1], list[k])
<1> DEFINE moved[k \in Nat] == IF k = 0 THEN ms ELSE add_to_map2(moved[k - 1], list[k])
<1>1. MoveList(ms, list) = moved[Len(list)]
  BY DEF MoveList
<1>2. moved = [k \in Nat |-> IF k = 0 THEN ms ELSE add_to_map2(moved[k - 1], list[k])]
  <2> DEFINE d(v, k) == add_to_map2(v, list[k])
  <2>1. NatInductiveDefHypothesis(moved, ms, d)
    BY DEF NatInductiveDefHypothesis
  <2>2. NatInductiveDefConclusion(moved, ms, d)
    BY <2>1, NatInductiveDef
  <2> QED
    BY <2>2 DEF NatInductiveDefConclusion
<1> HIDE DEF moved
<1>3. moved[0] = ms
  BY <1>2
<1>4. \A k \in Nat \ {0} : moved[k] = add_to_map2(moved[k - 1], list[k])
  BY <1>2
<1> QED
  BY <1>1, <1>3, <1>4

\* n is ms with the addresses K in its second level
IsMoved(P, ms, n, K) ==
  /\ DnlOk(P, n) /\ n.m1 = ms.m1
  /\ K # {} => Level2(P, n.m2, n.end)
  /\ Held(n.m2.buckets) = Held(ms.m2.buckets) \cup K

(* A list whose bucket refers to the second level gets there as a whole, if *)
(* its names differ and are new there.                                      *)
LEMMA MoveListOk ==
  ASSUME PoolOk(pool), NEW ms, DnlOk(pool, ms), NEW list \in Seq(DOMAIN pool),
         \A a \in ToSet(list) : ms.m1.buckets[Idx(ms.m1, NameAt(a))].state = "NEXT",
         IsInjective(list),
         \A a, c \in ToSet(list) : NameAt(a) = NameAt(c) => a = c,
         \A a \in ToSet(list) : \A c \in Held(ms.m2.buckets) : NameAt(a) # NameAt(c),
         NEW n, n = MoveList(ms, list)
  PROVE  IsMoved(pool, ms, n, ToSet(list))
<1>1. PICK f : /\ n = f[Len(list)] /\ f[0] = ms
               /\ \A k \in Nat \ {0} : f[k] = add_to_map2(f[k - 1], list[k])
  BY MoveSteps
<1>2. PICK L \in Nat : L = Len(list) /\ DOMAIN list = 1..L
  OBVIOUS
<1> DEFINE First(k) == {list[j] : j \in 1..k}
           H == {k \in 0..L : IsMoved(pool, ms, f[k], First(k))}
<1>3. 0 \in H
  <2>1. First(0) = {}
    OBVIOUS
  <2> HIDE DEF First
  <2>2. IsMoved(pool, ms, f[0], First(0))
    BY <1>1, <2>1 DEF IsMoved
  <2> QED
    BY <2>2
<1>4. ASSUME NEW k \in 1..L, k - 1 \in H PROVE k \in H
  <2>1. PICK old, new, a : old = f[k - 1] /\ new = f[k] /\ a = list[k]
    OBVIOUS
  <2>2. PICK K : K = First(k - 1)
    OBVIOUS
  <2>3. IsMoved(pool, ms, old, K)
    BY <1>4, <2>1, <2>2
  <2>4. a \in ToSet(list) /\ a \in DOMAIN pool /\ new = add_to_map2(old, a)
    <3>1. k \in Nat \ {0} /\ k \in DOMAIN list
      BY <1>2
    <3>2. new = add_to_map2(old, a)
      BY <1>1, <2>1, <3>1
    <3> QED
      BY <2>1, <3>1, <3>2 DEF ToSet
  <2>5. First(k) = K \cup {a}
    <3>1. 1..k = 1..(k - 1) \cup {k}
      OBVIOUS
    <3> QED
      BY <2>1, <2>2, <3>1
  <2>6. ASSUME NEW c \in K PROVE c \in ToSet(list) /\ c # a
    <3>1. PICK j \in 1..(k - 1) : c = list[j]
      BY <2>2
    <3>2. j \in DOMAIN list /\ k \in DOMAIN list /\ j # k
      BY <1>2
    <3> QED
      BY <2>1, <3>1, <3>2 DEF ToSet, IsInjective
  <2> HIDE DEF First
  <2>7. DnlOk(pool, old) /\ old.m1 = ms.m1 /\ Held(old.m2.buckets) = Held(ms.m2.buckets) \cup K
    BY <2>3 DEF IsMoved
  <2>8. old.m1.buckets[Idx(old.m1, NameAt(a))].state = "NEXT"
    BY <2>4, <2>7
  <2>9. IsAdded2(pool, old, new, a)
    BY <2>4, <2>7, <2>8, AddToMap2
  <2>10. \A c \in Held(old.m2.buckets) : NameAt(c) # NameAt(a)
    BY <2>4, <2>6, <2>7
  <2>11. NewIn(pool, Held(old.m2.buckets), a) = {a}
    BY <2>10 DEF NewIn, NameAt
  <2>12. IsMoved(pool, ms, new, K \cup {a})
    BY <2>7, <2>9, <2>11 DEF IsAdded2, IsMoved
  <2>13. k \in 0..L /\ IsMoved(pool, ms, f[k], First(k))
    BY <2>1, <2>5, <2>12
  <2> QED
    BY <2>13
<1> HIDE DEF H
<1>5. L \in H
  <2>1. \A k \in 0..L : k \in H
    BY <1>3, <1>4, UpTo
  <2> QED
    BY <2>1
<1>6. First(L) = ToSet(list)
  BY <1>2 DEF ToSet
<1> QED
  BY <1>1, <1>2, <1>5, <1>6 DEF H

\* a bucket refers to the second level only once that was made
NextThere(ms) == \A i \in 1..cap(ms.m1) : ms.m1.buckets[i].state = "NEXT" => ms.m2 # Null

\* n is ms with the address a, if its name is new
IsAdded(P, ms, n, a) ==
  /\ DnlOk(P, n) /\ NextThere(n)
  /\ KeptAll(n) = KeptAll(ms) \cup NewIn(P, KeptAll(ms), a)

(* The bucket of a name in the first level tells which level may have it. *)
LEMMA WhichLevel ==
  ASSUME PoolOk(pool), NEW ms, DnlOk(pool, ms), NEW n, Hash[n] \in Nat,
         NEW i, i = Idx(ms.m1, n)
  PROVE  /\ i \in 1..cap(ms.m1) /\ ms.m1.buckets[i] \in Bucket(pool)
         /\ BucketOk(pool, ms.m1.lcap, ms.m1.shift, i, ms.m1.buckets[i])
         /\ ToSet(ms.m1.buckets[i].list) \subseteq Held(ms.m1.buckets)
         /\ ms.m1.buckets[i].state # "NEXT" => \A c \in Held(ms.m2.buckets) : NameAt(c) # n
         /\ ms.m1.buckets[i].state = "NEXT" => \A c \in Held(ms.m1.buckets) : NameAt(c) # n
<1>1. MapOk(pool, ms.m1)
  BY DEF DnlOk
<1>2. /\ i \in 1..cap(ms.m1) /\ ms.m1.buckets[i] \in Bucket(pool)
      /\ {c \in ToSet(ms.m1.buckets[i].list) : NameAt(c) = n}
              = {c \in Held(ms.m1.buckets) : NameAt(c) = n}
  BY <1>1, ExistsIff
<1>3. BucketOk(pool, ms.m1.lcap, ms.m1.shift, i, ms.m1.buckets[i])
      /\ DOMAIN ms.m1.buckets = 1..cap(ms.m1)
  BY <1>1, <1>2, IdxIs DEF MapOk, BucketsOk
<1>4. ToSet(ms.m1.buckets[i].list) \subseteq Held(ms.m1.buckets)
  BY <1>2, <1>3 DEF Held
<1>5. ASSUME ms.m1.buckets[i].state # "NEXT", NEW c \in Held(ms.m2.buckets), NameAt(c) = n
      PROVE  FALSE
  BY <1>5 DEF DnlOk, NameAt
<1>6. ASSUME ms.m1.buckets[i].state = "NEXT", NEW c \in Held(ms.m1.buckets), NameAt(c) = n
      PROVE  FALSE
  <2>1. c \in ToSet(ms.m1.buckets[i].list)
    BY <1>2, <1>6
  <2>2. ms.m1.buckets[i].list = <<>>
    BY <1>3, <1>6 DEF BucketOk
  <2> QED
    BY <2>1, <2>2 DEF ToSet
<1> QED
  BY <1>2, <1>3, <1>4, <1>5, <1>6

(* What a map holds are addresses of the pool. *)
LEMMA HeldIn ==
  ASSUME NEW P, PoolOk(P), NEW m, m = Null \/ MapOk(P, m)
  PROVE  Held(m.buckets) \subseteq DOMAIN P /\ \A a, c \in Held(m.buckets) : P[a].name = P[c].name => a = c
<1>1. CASE m = Null
  <2>1. m.buckets = <<>>
    BY <1>1 DEF Null
  <2>2. Held(m.buckets) = {}
    BY <2>1 DEF Held
  <2> QED
    BY <2>2
<1>2. CASE MapOk(P, m)
  <2>1. PICK l \in Nat, s \in Nat, bs \in Seq(Bucket(P)) : l = m.lcap /\ s = m.shift /\ bs = m.buckets
    BY <1>2 DEF MapOk, Maps
  <2>2. BucketsOk(P, l, s, bs)
    BY <1>2, <2>1 DEF MapOk
  <2> QED
    BY <2>1, <2>2, HeldAt
<1> QED
  BY <1>1, <1>2

(* A name that is new and finds room in its list. *)
LEMMA AddStored ==
  ASSUME PoolOk(pool), NEW ms, DnlOk(pool, ms), NextThere(ms), NEW a \in DOMAIN pool,
         NEW i, i = Idx(ms.m1, NameAt(a)), NEW b, b = ms.m1.buckets[i],
         b.state # "NEXT", ~Exists(b, NameAt(a)), Len(b.list) < MaxCollision,
         NEW n, n = [ms EXCEPT !.m1 = Stored(ms.m1, a)]
  PROVE  IsAdded(pool, ms, n, a)
<1>0. Hash[NameAt(a)] \in Nat
  BY DEF PoolOk, NameAt
<1>1. /\ ms = [m1 |-> ms.m1, m2 |-> ms.m2, end |-> ms.end] /\ ms.end \in Nat
      /\ MapOk(pool, ms.m1) /\ (ms.m2 = Null \/ Level2(pool, ms.m2, ms.end))
      /\ \A j \in 1..cap(ms.m1) : Len(ms.m1.buckets[j].list) <= MaxCollision
  BY DEF DnlOk
<1>2. PICK w : w = Stored(ms.m1, a)
  OBVIOUS
<1>3. n = [m1 |-> w, m2 |-> ms.m2, end |-> ms.end]
  BY <1>1, <1>2
<1>4. n.m1 = w /\ n.m2 = ms.m2 /\ n.end = ms.end
  BY <1>3
<1>5. MapOk(pool, w) /\ IsStored(ms.m1, w, i, a)
  <2>1. PICK m : m = ms.m1
    OBVIOUS
  <2>2. MapOk(pool, m) /\ i = Idx(m, NameAt(a)) /\ w = Stored(m, a)
    BY <1>1, <1>2, <2>1
  <2>3. m.buckets[i].state # "NEXT" /\ ~Exists(m.buckets[i], NameAt(a))
    BY <2>1
  <2> QED
    BY <2>1, <2>2, <2>3, StoredOk
<1>6. /\ i \in 1..cap(ms.m1) /\ b \in Bucket(pool)
      /\ \A c \in Held(ms.m2.buckets) : NameAt(c) # NameAt(a)
  BY <1>0, WhichLevel
<1>7. b.list \in Seq(DOMAIN pool) /\ Len(b.list) \in Nat
  BY <1>6 DEF Bucket
<1>8. cap(w) = cap(ms.m1) /\ \A x : Idx(w, x) = Idx(ms.m1, x)
  BY <1>5 DEF IsStored, cap, Idx
<1>9. /\ \A j \in 1..cap(w) : j # i => w.buckets[j] = ms.m1.buckets[j]
      /\ w.buckets[i].state = "HEAD" /\ w.buckets[i].list = <<a>> \o b.list
      /\ Held(w.buckets) = Held(ms.m1.buckets) \cup {a}
  BY <1>5, <1>8 DEF IsStored
<1>10. Len(w.buckets[i].list) <= MaxCollision
  <2>1. Len(w.buckets[i].list) = Len(b.list) + 1
    BY <1>7, <1>9
  <2> QED
    BY <1>7, <2>1, DnlAssumption
<1>11. \A j \in 1..cap(w) : Len(w.buckets[j].list) <= MaxCollision
  BY <1>1, <1>8, <1>9, <1>10
<1>12. ASSUME NEW c \in Held(ms.m2.buckets)
       PROVE  w.buckets[Idx(w, pool[c].name)].state = "NEXT"
  <2>1. PICK j : j = Idx(ms.m1, pool[c].name)
    OBVIOUS
  <2>2. ms.m1.buckets[j].state = "NEXT" /\ j # i
    BY <2>1 DEF DnlOk
  <2>3. c \in DOMAIN pool
    BY <1>1, HeldIn DEF Level2
  <2>4. j \in 1..cap(w)
    <3>1. Hash[pool[c].name] \in Nat
      BY <2>3 DEF PoolOk
    <3>2. Idx(ms.m1, pool[c].name) \in 1..cap(ms.m1)
      BY <3>1, WhichLevel
    <3> QED
      BY <1>8, <2>1, <3>2
  <2> QED
    BY <1>8, <1>9, <2>1, <2>2, <2>4
<1>13. DnlOk(pool, n)
  BY <1>1, <1>3, <1>4, <1>5, <1>11, <1>12 DEF DnlOk
<1>14. NextThere(n)
  <2>1. ASSUME NEW j \in 1..cap(w), w.buckets[j].state = "NEXT" PROVE ms.m2 # Null
    BY <1>8, <1>9, <2>1 DEF NextThere
  <2> QED
    BY <1>4, <2>1 DEF NextThere
<1>15. NewIn(pool, KeptAll(ms), a) = {a}
  <2>1. \A c \in Held(ms.m1.buckets) : NameAt(c) # NameAt(a)
    <3>1. PICK m, x : m = ms.m1 /\ x = NameAt(a)
      OBVIOUS
    <3>2. MapOk(pool, m) /\ Hash[x] \in Nat /\ ~Exists(m.buckets[Idx(m, x)], x)
      BY <1>0, <1>1, <3>1
    <3>3. ~\E c \in Held(m.buckets) : NameAt(c) = x
      BY <3>2, ExistsIff
    <3> QED
      BY <3>1, <3>3
  <2> QED
    BY <1>6, <2>1 DEF NewIn, KeptAll, NameAt
<1> QED
  BY <1>4, <1>9, <1>13, <1>14, <1>15 DEF IsAdded, KeptAll

(* A name that is new and finds its list full: the second level gets both.  *)
LEMMA AddHandedOver ==
  ASSUME PoolOk(pool), NEW ms, DnlOk(pool, ms), NEW a \in DOMAIN pool,
         NEW i, i = Idx(ms.m1, NameAt(a)), NEW b, b = ms.m1.buckets[i],
         b.state = "HEAD", ~Exists(b, NameAt(a)),
         NEW n, n = MoveList([ms EXCEPT !.m1 = HandOver(ms.m1, i)], Append(b.list, a))
  PROVE  IsAdded(pool, ms, n, a)
<1>0. Hash[NameAt(a)] \in Nat
  BY DEF PoolOk, NameAt
<1>1. /\ ms = [m1 |-> ms.m1, m2 |-> ms.m2, end |-> ms.end] /\ ms.end \in Nat
      /\ MapOk(pool, ms.m1) /\ (ms.m2 = Null \/ Level2(pool, ms.m2, ms.end))
      /\ \A j \in 1..cap(ms.m1) : Len(ms.m1.buckets[j].list) <= MaxCollision
      /\ \A c \in Held(ms.m2.buckets) : ms.m1.buckets[Idx(ms.m1, pool[c].name)].state = "NEXT"
  BY DEF DnlOk
<1>2. /\ i \in 1..cap(ms.m1) /\ b \in Bucket(pool)
      /\ BucketOk(pool, ms.m1.lcap, ms.m1.shift, i, b)
      /\ ToSet(b.list) \subseteq Held(ms.m1.buckets)
  BY <1>0, WhichLevel
<1>3. PICK h : h = HandOver(ms.m1, i)
  OBVIOUS
<1>4. /\ MapOk(pool, h) /\ h.lcap = ms.m1.lcap /\ h.shift = ms.m1.shift
      /\ Held(h.buckets) = Held(ms.m1.buckets) \ ToSet(b.list)
      /\ \A j \in 1..cap(ms.m1) : j # i => h.buckets[j] = ms.m1.buckets[j]
      /\ h.buckets[i] = [state |-> "NEXT", list |-> <<>>]
  <2>1. PICK m : m = ms.m1
    OBVIOUS
  <2>2. MapOk(pool, m) /\ i \in 1..cap(m) /\ m.buckets[i].state = "HEAD" /\ h = HandOver(m, i)
    BY <1>1, <1>2, <1>3, <2>1
  <2> QED
    BY <2>1, <2>2, HandOverOk
<1>5. PICK ns : ns = [ms EXCEPT !.m1 = h]
  OBVIOUS
<1>6. ns = [m1 |-> h, m2 |-> ms.m2, end |-> ms.end] /\ ns.m1 = h /\ ns.m2 = ms.m2 /\ ns.end = ms.end
  BY <1>1, <1>5
<1>7. cap(h) = cap(ms.m1) /\ \A x : Idx(h, x) = Idx(ms.m1, x)
  BY <1>4 DEF cap, Idx
<1>8. h.buckets[i].state = "NEXT" /\ h.buckets[i].list = <<>> /\ Len(h.buckets[i].list) = 0
  BY <1>4
<1>9. \A j \in 1..cap(h) : Len(h.buckets[j].list) <= MaxCollision
  BY <1>1, <1>4, <1>7, <1>8, DnlAssumption
<1>10. ASSUME NEW c \in Held(ms.m2.buckets)
       PROVE  h.buckets[Idx(h, pool[c].name)].state = "NEXT" /\ Idx(ms.m1, pool[c].name) # i
  <2>1. PICK j : j = Idx(ms.m1, pool[c].name)
    OBVIOUS
  <2>2. ms.m1.buckets[j].state = "NEXT" /\ j # i
    BY <1>1, <2>1
  <2>3. c \in DOMAIN pool
    BY <1>1, HeldIn DEF Level2
  <2>4. j \in 1..cap(ms.m1)
    <3>1. Hash[pool[c].name] \in Nat
      BY <2>3 DEF PoolOk
    <3> QED
      BY <2>1, <3>1, WhichLevel
  <2> QED
    BY <1>4, <1>7, <2>1, <2>2, <2>4
<1>11. DnlOk(pool, ns)
  BY <1>1, <1>4, <1>6, <1>9, <1>10 DEF DnlOk
<1>12. PICK list : list = Append(b.list, a)
  OBVIOUS
<1>13. b.list \in Seq(DOMAIN pool) /\ IsInjective(b.list)
  BY <1>2 DEF BucketOk, Bucket
<1>14. \A c \in ToSet(b.list) : NameAt(c) # NameAt(a)
  BY DEF Exists, ToSet
<1>15. list \in Seq(DOMAIN pool) /\ IsInjective(list) /\ ToSet(list) = ToSet(b.list) \cup {a}
  <2>1. a \notin ToSet(b.list)
    BY <1>14
  <2> QED
    BY <1>12, <1>13, <2>1, AppendNew
<1>16. ASSUME NEW c \in ToSet(list) PROVE Idx(ms.m1, NameAt(c)) = i
  <2>1. CASE c = a
    BY <2>1
  <2>2. CASE c \in ToSet(b.list)
    BY <1>2, <2>2, IdxIs DEF BucketOk, NameAt
  <2> QED
    BY <1>15, <2>1, <2>2
<1>17. \A c \in ToSet(list) : ns.m1.buckets[Idx(ns.m1, NameAt(c))].state = "NEXT"
  BY <1>6, <1>7, <1>8, <1>16
<1>18. ASSUME NEW c \in ToSet(list), NEW d \in ToSet(list), NameAt(c) = NameAt(d) PROVE c = d
  <2>1. CASE c = a \/ d = a
    BY <1>14, <1>15, <1>18, <2>1
  <2>2. CASE c \in ToSet(b.list) /\ d \in ToSet(b.list)
    BY <1>2, <1>18, <2>2 DEF BucketOk, NameAt
  <2> QED
    BY <1>15, <2>1, <2>2
<1>19. ASSUME NEW c \in ToSet(list), NEW d \in Held(ns.m2.buckets) PROVE NameAt(c) # NameAt(d)
  BY <1>6, <1>10, <1>16 DEF NameAt
<1>20. n = MoveList(ns, list)
  BY <1>3, <1>5, <1>12
<1>21. IsMoved(pool, ns, n, ToSet(list))
  BY <1>11, <1>15, <1>17, <1>18, <1>19, <1>20, MoveListOk
<1>22. /\ DnlOk(pool, n) /\ n.m1 = h /\ Level2(pool, n.m2, n.end)
       /\ Held(n.m2.buckets) = Held(ms.m2.buckets) \cup ToSet(b.list) \cup {a}
  BY <1>6, <1>15, <1>21 DEF IsMoved
<1>23. NextThere(n)
  <2>1. n.m2.notnull
    BY <1>22 DEF Level2, MapOk
  <2>2. n.m2 # Null
    BY <2>1 DEF Null
  <2> QED
    BY <2>2 DEF NextThere
<1>24. NewIn(pool, KeptAll(ms), a) = {a}
  <2>1. \A c \in Held(ms.m1.buckets) : NameAt(c) # NameAt(a)
    <3>1. PICK m, x : m = ms.m1 /\ x = NameAt(a)
      OBVIOUS
    <3>2. MapOk(pool, m) /\ Hash[x] \in Nat /\ ~Exists(m.buckets[Idx(m, x)], x)
      BY <1>0, <1>1, <3>1
    <3>3. ~\E c \in Held(m.buckets) : NameAt(c) = x
      BY <3>2, ExistsIff
    <3> QED
      BY <3>1, <3>3
  <2>2. \A c \in Held(ms.m2.buckets) : NameAt(c) # NameAt(a)
    BY <1>10 DEF NameAt
  <2> QED
    BY <2>1, <2>2 DEF NewIn, KeptAll, NameAt
<1>25. KeptAll(n) = KeptAll(ms) \cup {a}
  BY <1>2, <1>4, <1>22 DEF KeptAll
<1> QED
  BY <1>22, <1>23, <1>24, <1>25 DEF IsAdded

(* A name whose bucket refers to the second level. *)
LEMMA AddNextLevel ==
  ASSUME PoolOk(pool), NEW ms, DnlOk(pool, ms), NEW a \in DOMAIN pool,
         ms.m1.buckets[Idx(ms.m1, NameAt(a))].state = "NEXT",
         NEW n, n = add_to_map2(ms, a)
  PROVE  IsAdded(pool, ms, n, a)
<1>0. Hash[NameAt(a)] \in Nat
  BY DEF PoolOk, NameAt
<1>1. IsAdded2(pool, ms, n, a)
  BY AddToMap2
<1>2. /\ DnlOk(pool, n) /\ n.m1 = ms.m1 /\ Level2(pool, n.m2, n.end)
      /\ Held(n.m2.buckets) = Held(ms.m2.buckets) \cup NewIn(pool, Held(ms.m2.buckets), a)
  BY <1>1 DEF IsAdded2
<1>3. NextThere(n)
  <2>1. n.m2.notnull
    BY <1>2 DEF Level2, MapOk
  <2>2. n.m2 # Null
    BY <2>1 DEF Null
  <2> QED
    BY <2>2 DEF NextThere
<1>4. \A c \in Held(ms.m1.buckets) : NameAt(c) # NameAt(a)
  BY <1>0, WhichLevel
<1>5. NewIn(pool, KeptAll(ms), a) = NewIn(pool, Held(ms.m2.buckets), a)
  BY <1>4 DEF NewIn, KeptAll, NameAt
<1> QED
  BY <1>2, <1>3, <1>5 DEF IsAdded, KeptAll

(* add_to_dnl keeps everything that is there, and adds a name that is not. *)
LEMMA AddToDnl ==
  ASSUME PoolOk(pool), NEW ms, DnlOk(pool, ms), NextThere(ms), NEW a \in DOMAIN pool,
         NEW n, n = add_to_dnl(ms, a)
  PROVE  IsAdded(pool, ms, n, a)
<1>0. Hash[NameAt(a)] \in Nat
  BY DEF PoolOk, NameAt
<1>1. PICK i : i = Idx(ms.m1, NameAt(a))
  OBVIOUS
<1>2. PICK b : b = ms.m1.buckets[i]
  OBVIOUS
<1>3. b \in Bucket(pool) /\ BucketOk(pool, ms.m1.lcap, ms.m1.shift, i, b)
  BY <1>0, <1>1, <1>2, WhichLevel
<1>4. b.state \in {"FREE", "HEAD", "NEXT"} /\ b.list \in Seq(DOMAIN pool) /\ Len(b.list) \in Nat
  BY <1>3 DEF Bucket
<1>5. n = CASE b.state = "FREE" -> [ms EXCEPT !.m1 = Stored(ms.m1, a)]
            [] b.state = "HEAD" ->
                 IF Exists(b, NameAt(a)) THEN ms
                 ELSE IF Len(b.list) < MaxCollision THEN [ms EXCEPT !.m1 = Stored(ms.m1, a)]
                 ELSE MoveList([ms EXCEPT !.m1 = HandOver(ms.m1, i)], Append(b.list, a))
            [] b.state = "NEXT" -> add_to_map2(ms, a)
  BY <1>1, <1>2 DEF add_to_dnl
<1>6. CASE b.state = "FREE"
  <2>1. b.list = <<>>
    BY <1>3, <1>6 DEF BucketOk
  <2>2. Len(b.list) < MaxCollision /\ ~Exists(b, NameAt(a))
    BY <2>1, DnlAssumption DEF Exists
  <2>3. n = [ms EXCEPT !.m1 = Stored(ms.m1, a)]
    BY <1>5, <1>6
  <2> QED
    BY <1>1, <1>2, <1>6, <2>2, <2>3, AddStored
<1>7. CASE b.state = "HEAD" /\ Exists(b, NameAt(a))
  <2>1. n = ms
    BY <1>5, <1>7
  <2>2. PICK k \in DOMAIN b.list : NameAt(b.list[k]) = NameAt(a)
    BY <1>7 DEF Exists
  <2>3. b.list[k] \in ToSet(b.list)
    BY <1>4, ToSetMembers
  <2>4. b.list[k] \in KeptAll(ms)
    BY <1>0, <1>1, <1>2, <2>3, WhichLevel DEF KeptAll
  <2>5. NewIn(pool, KeptAll(ms), a) = {}
    BY <2>2, <2>4 DEF NewIn, NameAt
  <2> QED
    BY <2>1, <2>5 DEF IsAdded
<1>8. CASE b.state = "HEAD" /\ ~Exists(b, NameAt(a)) /\ Len(b.list) < MaxCollision
  <2>1. n = [ms EXCEPT !.m1 = Stored(ms.m1, a)]
    BY <1>5, <1>8
  <2>2. b.state # "NEXT"
    BY <1>8
  <2> QED
    BY <1>1, <1>2, <1>8, <2>1, <2>2, AddStored
<1>9. CASE b.state = "HEAD" /\ ~Exists(b, NameAt(a)) /\ ~(Len(b.list) < MaxCollision)
  <2>1. n = MoveList([ms EXCEPT !.m1 = HandOver(ms.m1, i)], Append(b.list, a))
    BY <1>5, <1>9
  <2> QED
    BY <1>1, <1>2, <1>9, <2>1, AddHandedOver
<1>10. CASE b.state = "NEXT"
  <2>1. n = add_to_map2(ms, a)
    BY <1>5, <1>10
  <2>2. ms.m1.buckets[Idx(ms.m1, NameAt(a))].state = "NEXT"
    BY <1>1, <1>2, <1>10
  <2> QED
    BY <2>1, <2>2, AddNextLevel
<1> QED
  BY <1>4, <1>6, <1>7, <1>8, <1>9, <1>10

-----------------------------------------------------------------------------
(* Lookups *)

(* No name is kept twice, whatever the level. *)
LEMMA KeptUnique ==
  ASSUME PoolOk(pool), NEW ms, DnlOk(pool, ms)
  PROVE  /\ KeptAll(ms) \subseteq DOMAIN pool
         /\ \A a, c \in KeptAll(ms) : NameAt(a) = NameAt(c) => a = c
         /\ \A a \in Held(ms.m1.buckets), c \in Held(ms.m2.buckets) : NameAt(a) # NameAt(c)
<1>1. MapOk(pool, ms.m1) /\ (ms.m2 = Null \/ MapOk(pool, ms.m2))
  BY DEF DnlOk, Level2
<1>2. PICK H1, H2 : H1 = Held(ms.m1.buckets) /\ H2 = Held(ms.m2.buckets)
  OBVIOUS
<1>3. H1 \subseteq DOMAIN pool /\ \A a, c \in H1 : NameAt(a) = NameAt(c) => a = c
  BY <1>1, <1>2, HeldIn DEF NameAt
<1>4. H2 \subseteq DOMAIN pool /\ \A a, c \in H2 : NameAt(a) = NameAt(c) => a = c
  BY <1>1, <1>2, HeldIn DEF NameAt
<1>5. ASSUME NEW a \in H1, NEW c \in H2, NameAt(a) = NameAt(c) PROVE FALSE
  <2>1. Hash[NameAt(a)] \in Nat
    BY <1>3 DEF PoolOk, NameAt
  <2>2. PICK i : i = Idx(ms.m1, NameAt(a))
    OBVIOUS
  <2>3. ms.m1.buckets[i].state # "NEXT" => \A d \in H2 : NameAt(d) # NameAt(a)
    BY <1>2, <2>1, <2>2, WhichLevel
  <2>4. ms.m1.buckets[i].state = "NEXT" => \A d \in H1 : NameAt(d) # NameAt(a)
    BY <1>2, <2>1, <2>2, WhichLevel
  <2> QED
    BY <1>5, <2>3, <2>4
<1> QED
  BY <1>2, <1>3, <1>4, <1>5 DEF KeptAll

(* The first node of a list with the name is its only one. *)
LEMMA FoundInList ==
  ASSUME NEW S, NEW list \in Seq(S), IsInjective(list), NEW n,
         \A a, c \in ToSet(list) : NameAt(a) = NameAt(c) => a = c,
         NEW hits, hits = {i \in DOMAIN list : NameAt(list[i]) = n}
  PROVE  {list[i] : i \in {i \in hits : \A j \in hits : i <= j}}
           = {a \in ToSet(list) : NameAt(a) = n}
<1>1. \A i \in DOMAIN list : list[i] \in ToSet(list) /\ i \in Nat
  BY DEF ToSet
<1>2. \A i, j \in hits : i = j
  BY <1>1 DEF IsInjective
<1>3. \A i \in hits : \A j \in hits : i <= j
  BY <1>1, <1>2
<1>4. \A a \in ToSet(list) : \E i \in DOMAIN list : list[i] = a
  BY DEF ToSet
<1> QED
  BY <1>1, <1>3, <1>4

(* A lookup in one map. *)
LEMMA FoundInMap ==
  ASSUME PoolOk(pool), NEW m, MapOk(pool, m), NEW n, Hash[n] \in Nat,
         NEW b, b = m.buckets[Idx(m, n)],
         NEW hits, hits = {i \in DOMAIN b.list : NameAt(b.list[i]) = n}
  PROVE  {b.list[i] : i \in {i \in hits : \A j \in hits : i <= j}}
           = {a \in Held(m.buckets) : NameAt(a) = n}
<1>1. PICK i : i = Idx(m, n)
  OBVIOUS
<1>2. i \in 1..cap(m) /\ {c \in ToSet(b.list) : NameAt(c) = n} = {c \in Held(m.buckets) : NameAt(c) = n}
  BY <1>1, ExistsIff
<1>3. BucketOk(pool, m.lcap, m.shift, i, b)
  BY <1>1, <1>2, IdxIs DEF MapOk, BucketsOk
<1>4. /\ b.list \in Seq(DOMAIN pool) /\ IsInjective(b.list)
      /\ \A a, c \in ToSet(b.list) : NameAt(a) = NameAt(c) => a = c
  BY <1>3 DEF BucketOk, Bucket, NameAt
<1>5. PICK list : list = b.list
  OBVIOUS
<1>6. {list[k] : k \in {k \in hits : \A j \in hits : k <= j}} = {a \in ToSet(list) : NameAt(a) = n}
  BY <1>4, <1>5, FoundInList
<1> QED
  BY <1>2, <1>5, <1>6

(* exists_in_dnl finds what is kept under the name. *)
LEMMA FoundIs ==
  ASSUME PoolOk(pool), NEW ms, DnlOk(pool, ms), NextThere(ms), NEW n, Hash[n] \in Nat
  PROVE  Found(ms, n) = {a \in KeptAll(ms) : NameAt(a) = n}
<1>1. MapOk(pool, ms.m1)
  BY DEF DnlOk
<1>2. PICK i : i = Idx(ms.m1, n)
  OBVIOUS
<1>3. /\ i \in 1..cap(ms.m1)
      /\ ms.m1.buckets[i].state # "NEXT" => \A c \in Held(ms.m2.buckets) : NameAt(c) # n
      /\ ms.m1.buckets[i].state = "NEXT" => \A c \in Held(ms.m1.buckets) : NameAt(c) # n
  BY <1>2, WhichLevel
<1>4. PICK m : m = IF ms.m1.buckets[i].state = "NEXT" THEN ms.m2 ELSE ms.m1
  OBVIOUS
<1>5. MapOk(pool, m)
  BY <1>1, <1>3, <1>4 DEF DnlOk, NextThere, Level2
<1>6. PICK b : b = m.buckets[Idx(m, n)]
  OBVIOUS
<1>7. b = IF ms.m1.buckets[i].state = "NEXT" THEN ms.m2.buckets[Idx(ms.m2, n)] ELSE ms.m1.buckets[i]
  BY <1>2, <1>4, <1>6
<1>8. PICK hits : hits = {k \in DOMAIN b.list : NameAt(b.list[k]) = n}
  OBVIOUS
<1>9. Found(ms, n) = {b.list[k] : k \in {k \in hits : \A j \in hits : k <= j}}
  BY <1>2, <1>7, <1>8 DEF Found
<1>10. {b.list[k] : k \in {k \in hits : \A j \in hits : k <= j}} = {a \in Held(m.buckets) : NameAt(a) = n}
  BY <1>5, <1>6, <1>8, FoundInMap
<1>11. {a \in Held(m.buckets) : NameAt(a) = n} = {a \in KeptAll(ms) : NameAt(a) = n}
  BY <1>3, <1>4 DEF KeptAll
<1> QED
  BY <1>9, <1>10, <1>11

-----------------------------------------------------------------------------
(* Names, lists and their order *)

(* The last labels of a name. *)
LEMMA LastLabelsIs ==
  ASSUME NEW n \in Seq(STRING), NEW l \in 1..Len(n)
  PROVE  LastLabels(n, l) \in Seq(STRING) /\ Len(LastLabels(n, l)) = l /\ (l = Len(n) => LastLabels(n, l) = n)
<1>1. PICK L \in Nat : L = Len(n)
  OBVIOUS
<1>2. PICK p \in 1..L : p = L - l + 1
  <2>1. l \in 1..L
    BY <1>1
  <2>2. L - l + 1 \in 1..L
    BY <2>1
  <2> QED
    BY <2>2
<1>3. PICK s : s = SubSeq(n, p, L)
  OBVIOUS
<1>4. s = [i \in 1..l |-> n[i + p - 1]]
  <2>1. L - p + 1 = l
    BY <1>1, <1>2
  <2> QED
    BY <1>1, <1>2, <1>3, <2>1
<1>5. \A i \in 1..l : i + p - 1 \in 1..L
  BY <1>1, <1>2
<1>6. \A i \in 1..l : n[i + p - 1] \in STRING
  BY <1>1, <1>5
<1>7. s \in Seq(STRING) /\ Len(s) = l
  BY <1>1, <1>4, <1>6
<1>8. l = L => s = n
  BY <1>1, <1>2, <1>4
<1>9. LastLabels(n, l) = s
  BY <1>1, <1>2, <1>3 DEF LastLabels
<1> QED
  BY <1>1, <1>7, <1>8, <1>9

(* What check_name leaves of a name. *)
LEMMA CheckName ==
  ASSUME NEW t \in Tokens, NEW n, n = check_name(t)
  PROVE  n \in Seq(STRING) /\ n # <<>> /\ Hash[n] \in Nat /\ Len(n) <= MaxLevel
<1>1. t \in Seq(STRING) /\ t # <<>> /\ \A l \in 1..Len(t) : Hash[LastLabels(t, l)] \in Nat
  BY DnlAssumption
<1>2. PICK L \in Nat \ {0} : L = Len(t)
  BY <1>1
<1>3. PICK l \in 1..L : l = Smaller(L, MaxLevel) /\ l <= MaxLevel
  BY <1>2, DnlAssumption DEF Smaller
<1>4. n = LastLabels(t, l)
  BY <1>2, <1>3 DEF check_name
<1>5. n \in Seq(STRING) /\ Len(n) = l /\ Hash[n] \in Nat
  BY <1>1, <1>2, <1>4, LastLabelsIs
<1>6. n # <<>>
  BY <1>5
<1> QED
  BY <1>3, <1>5, <1>6

\* when the list of a tag is added
Pos(t) ==
  IF t >= 2 THEN TagMax + 1 - t ELSE IF (t = 1) <=> GfwlistFirst THEN TagMax ELSE TagMax + 1

(* Every list has its turn, and no two have the same. *)
LEMMA PosIs ==
  /\ \A t \in Tags : Pos(t) \in 1..(TagMax + 1) /\ OrderedTags[Pos(t)] = t
  /\ \A i \in 1..(TagMax + 1) : OrderedTags[i] \in Tags /\ Pos(OrderedTags[i]) = i
<1>1. PICK M \in Nat \ {0}, g \in BOOLEAN : M = TagMax /\ g = GfwlistFirst
  BY DnlAssumption
<1>2. \A i \in 1..(M + 1) : OrderedTags[i] = IF i < M THEN M + 1 - i ELSE IF (i = M) <=> g THEN 1 ELSE 0
  BY <1>1 DEF OrderedTags
<1>3. \A t : Pos(t) = IF t >= 2 THEN M + 1 - t ELSE IF (t = 1) <=> g THEN M ELSE M + 1
  BY <1>1 DEF Pos
<1>4. Tags = 0..M
  BY <1>1 DEF Tags
<1>5. ASSUME NEW t \in 0..M PROVE Pos(t) \in 1..(M + 1) /\ OrderedTags[Pos(t)] = t
  <2>1. CASE t >= 2
    <3>1. Pos(t) = M + 1 - t /\ M + 1 - t \in 1..(M + 1) /\ M + 1 - t < M
      BY <1>3, <2>1
    <3> QED
      BY <1>2, <3>1
  <2>2. CASE t \in {0, 1} /\ ((t = 1) <=> g)
    <3>1. Pos(t) = M
      BY <1>3, <2>2
    <3> QED
      BY <1>2, <2>2, <3>1
  <2>3. CASE t \in {0, 1} /\ ~((t = 1) <=> g)
    <3>1. Pos(t) = M + 1
      BY <1>3, <2>3
    <3> QED
      BY <1>2, <2>3, <3>1
  <2>4. t >= 2 \/ t \in {0, 1}
    OBVIOUS
  <2> QED
    BY <2>1, <2>2, <2>3, <2>4
<1>6. ASSUME NEW i \in 1..(M + 1) PROVE OrderedTags[i] \in 0..M /\ Pos(OrderedTags[i]) = i
  <2>1. CASE i < M
    <3>1. PICK t \in 2..M : t = M + 1 - i
      BY <2>1
    <3>2. OrderedTags[i] = t
      BY <1>2, <2>1, <3>1
    <3>3. Pos(t) = M + 1 - t
      BY <1>3, <3>1
    <3> QED
      BY <3>1, <3>2, <3>3
  <2>2. CASE i = M
    <3>1. OrderedTags[i] = IF g THEN 1 ELSE 0
      BY <1>2, <2>2
    <3> QED
      BY <1>3, <2>2, <3>1
  <2>3. CASE i = M + 1
    <3>1. OrderedTags[i] = IF g THEN 0 ELSE 1
      BY <1>2, <2>3
    <3> QED
      BY <1>3, <2>3, <3>1
  <2> QED
    BY <2>1, <2>2, <2>3
<1> QED
  BY <1>1, <1>4, <1>5, <1>6

(* The first level gets a capacity that is enough. *)
LEMMA CalcLcap ==
  ASSUME NEW n \in Nat
  PROVE  calc_lcap(n) \in Nat
<1> DEFINE H == {k \in Nat : 2 ^ k > k}
           T == {k \in Nat : 2 ^ k >= n}
<1>1. 0 \in H
  <2>1. 2 ^ 0 > 0
    BY PowerOfTwo
  <2> QED
    BY <2>1
<1>2. ASSUME NEW k \in 1..n, k - 1 \in H PROVE k \in H
  <2>1. PICK j \in Nat : j = k - 1
    OBVIOUS
  <2>2. PICK N \in Nat : N = 2 ^ j
    BY PowerOfTwo
  <2>3. N > j
    BY <1>2, <2>1, <2>2
  <2>4. 2 ^ (j + 1) = 2 * N
    BY <2>2, PowerDoubles
  <2>5. j + 1 = k
    BY <2>1
  <2>6. 2 ^ k = 2 * N
    BY <2>4, <2>5
  <2>7. 2 ^ k > k
    BY <2>1, <2>3, <2>6
  <2> QED
    BY <2>7
<1> HIDE DEF H
<1>3. n \in H
  <2>1. \A k \in 0..n : k \in H
    BY <1>1, <1>2, UpTo
  <2> QED
    BY <2>1
<1>4. 2 ^ n \in Nat /\ 2 ^ n > n
  BY <1>3, PowerOfTwo DEF H
<1>5. n \in T
  BY <1>4
<1>6. PICK l \in T : \A k \in T : l <= k
  <2>1. T \in SUBSET Nat /\ T # {}
    BY <1>5
  <2> HIDE DEF T
  <2> QED
    BY <2>1, Least
<1>7. l \in 0..n /\ 2 ^ l >= n
  BY <1>5, <1>6
<1>8. ASSUME NEW k \in 0..(l - 1) PROVE 2 ^ k < n
  <2>1. k \in Nat /\ ~(l <= k)
    BY <1>7
  <2>2. k \notin T
    BY <1>6, <2>1
  <2>3. 2 ^ k \in Nat
    BY <2>1, PowerOfTwo
  <2> QED
    BY <2>1, <2>2, <2>3
<1>9. \E x \in 0..n : 2 ^ x >= n /\ \A k \in 0..(x - 1) : 2 ^ k < n
  BY <1>7, <1>8
<1>10. calc_lcap(n) \in 0..n
  BY <1>9 DEF calc_lcap
<1> QED
  BY <1>10

-----------------------------------------------------------------------------
(* The invariant *)

\* the pool, and the levels of its names
PoolInv ==
  /\ pc \in {"load", "add", "done"} /\ tag \in Tags
  /\ PoolOk(pool)
  /\ \A a \in DOMAIN pool : Len(pool[a].name) <= MaxLevel
  /\ interest = {Len(pool[a].name) : a \in DOMAIN pool}

\* the names of a tag are next to each other
ListsInv ==
  /\ count \in [Tags -> Nat] /\ addr0 \in [Tags -> Nat]
  /\ \A t \in Tags : \A a \in DOMAIN pool :
       pool[a].tag = t <=> addr0[t] <= a /\ a < addr0[t] + count[t]
  /\ \A t \in Tags : count[t] > 0 => addr0[t] >= 1 /\ addr0[t] + count[t] <= Len(pool) + 1

\* while the files are read, the list of the current tag ends the pool
LoadInv ==
  pc = "load" =>
    /\ \A t \in Tags : t > tag => count[t] = 0
    /\ count[tag] > 0 => addr0[tag] + count[tag] = Len(pool) + 1
    /\ maps = [m1 |-> Null, m2 |-> Null, end |-> maps.end] /\ maps.end \in Nat
    /\ todo = [list |-> 1, name |-> 0]

\* the addresses that were added, in terms of the turns of their lists
AddedBy(a) ==
  Pos(pool[a].tag) < todo.list
    \/ (Pos(pool[a].tag) = todo.list /\ a < addr0[pool[a].tag] + todo.name)

\* what is kept was added, and what was added is kept, or another address
\* with its name whose list came no later
KeptInv ==
  /\ DnlOk(pool, maps) /\ NextThere(maps)
  /\ \A a \in KeptAll(maps) : AddedBy(a)
  /\ \A a \in DOMAIN pool : AddedBy(a) =>
       \E c \in KeptAll(maps) : pool[c].name = pool[a].name /\ Pos(pool[c].tag) <= Pos(pool[a].tag)

TodoInv ==
  pc # "load" =>
    /\ todo = [list |-> todo.list, name |-> todo.name]
    /\ todo.list \in 1..(TagMax + 1) /\ todo.name \in Nat
    /\ todo.name <= count[OrderedTags[todo.list]]
    /\ IF pool = <<>> THEN pc = "done" /\ maps.m1 = Null ELSE KeptInv
    /\ pc = "done" /\ pool # <<>> =>
         todo.list = TagMax + 1 /\ todo.name = count[OrderedTags[TagMax + 1]]

DnlInv == PoolInv /\ ListsInv /\ LoadInv /\ TodoInv

(* It holds initially. *)
LEMMA InitInv == Init => DnlInv
<1> SUFFICES ASSUME Init PROVE DnlInv
  OBVIOUS
<1>1. pool = <<>> /\ DOMAIN pool = {} /\ pool \in Seq(Entries) /\ Len(pool) = 0
  BY DEF Init
<1>2. PoolInv
  BY <1>1, DnlAssumption DEF Init, PoolInv, PoolOk, Tags
<1>3. ListsInv
  BY <1>1 DEF Init, ListsInv
<1>4. LoadInv
  BY DnlAssumption DEF Init, LoadInv, Tags
<1>5. TodoInv
  BY DEF Init, TodoInv
<1> QED
  BY <1>2, <1>3, <1>4, <1>5 DEF DnlInv

(* A name is read from a file: the list of the tag grows at the end of the  *)
(* pool.                                                                    *)
LEMMA LoadNameInv ==
  ASSUME DnlInv, NEW t \in Tokens, LoadName(t), NameOk(t)
  PROVE  DnlInv'
<1>1. /\ pc = "load" /\ pool' = add_name(check_name(t), tag)
      /\ count' = [count EXCEPT ![tag] = @ + 1]
      /\ addr0' = [addr0 EXCEPT ![tag] = IF count[tag] = 0 THEN Len(pool) + 1 ELSE @]
      /\ interest' = interest \cup {Len(check_name(t))}
      /\ maps' = alloc(maps, 1)
      /\ pc' = pc /\ tag' = tag /\ todo' = todo
  BY DEF LoadName
<1>2. PICK n : n = check_name(t)
  OBVIOUS
<1>3. n \in Seq(STRING) /\ n # <<>> /\ Hash[n] \in Nat /\ Len(n) <= MaxLevel
  BY <1>2, CheckName
<1>4. /\ tag \in Tags /\ PoolOk(pool) /\ pool \in Seq(Entries)
      /\ \A a \in DOMAIN pool : Len(pool[a].name) <= MaxLevel
      /\ interest = {Len(pool[a].name) : a \in DOMAIN pool}
  BY DEF DnlInv, PoolInv, PoolOk
<1>5. PICK L \in Nat : L = Len(pool) /\ DOMAIN pool = 1..L
  BY <1>4
<1>6. PICK e \in Entries : e.name = n /\ e.tag = tag /\ pool' = Append(pool, e)
  BY <1>1, <1>2, <1>3, <1>4 DEF add_name, Entries
<1>7. /\ pool' \in Seq(Entries) /\ DOMAIN pool' = 1..(L + 1) /\ Len(pool') = L + 1
      /\ \A a \in 1..L : pool'[a] = pool[a]
      /\ pool'[L + 1] = e
  BY <1>4, <1>5, <1>6
<1>8. \A a \in DOMAIN pool' : a \in 1..L \/ a = L + 1
  BY <1>7
<1>9. PoolInv'
  <2>1. PoolOk(pool')
    <3>1. ASSUME NEW a \in DOMAIN pool' PROVE pool'[a].name # <<>> /\ Hash[pool'[a].name] \in Nat
      BY <1>3, <1>4, <1>5, <1>6, <1>7, <1>8 DEF PoolOk
    <3> QED
      BY <1>7, <3>1 DEF PoolOk
  <2>2. \A a \in DOMAIN pool' : Len(pool'[a].name) <= MaxLevel
    BY <1>3, <1>4, <1>5, <1>6, <1>7, <1>8
  <2>3. interest' = {Len(pool'[a].name) : a \in DOMAIN pool'}
    BY <1>1, <1>2, <1>4, <1>5, <1>6, <1>7, <1>8
  <2> QED
    BY <1>1, <1>4, <2>1, <2>2, <2>3 DEF PoolInv
<1>10. /\ count \in [Tags -> Nat] /\ addr0 \in [Tags -> Nat]
       /\ \A u \in Tags : \A a \in DOMAIN pool :
            pool[a].tag = u <=> addr0[u] <= a /\ a < addr0[u] + count[u]
       /\ \A u \in Tags : count[u] > 0 => addr0[u] >= 1 /\ addr0[u] + count[u] <= L + 1
  BY <1>5 DEF DnlInv, ListsInv
<1>11. /\ \A u \in Tags : u > tag => count[u] = 0
       /\ count[tag] > 0 => addr0[tag] + count[tag] = L + 1
       /\ maps = [m1 |-> Null, m2 |-> Null, end |-> maps.end] /\ maps.end \in Nat
       /\ todo = [list |-> 1, name |-> 0]
  BY <1>1, <1>5 DEF DnlInv, LoadInv
<1>12. PICK k \in Nat, p \in Nat : k = count[tag] /\ p = addr0[tag]
  BY <1>4, <1>10
<1>13. PICK q \in Nat : q = IF k = 0 THEN L + 1 ELSE p
  OBVIOUS
<1>14. /\ count' \in [Tags -> Nat] /\ addr0' \in [Tags -> Nat]
       /\ count'[tag] = k + 1 /\ addr0'[tag] = q
       /\ \A u \in Tags : u # tag => count'[u] = count[u] /\ addr0'[u] = addr0[u]
  <2>1. count' = [count EXCEPT ![tag] = k + 1] /\ addr0' = [addr0 EXCEPT ![tag] = q]
    BY <1>1, <1>4, <1>5, <1>10, <1>12, <1>13
  <2> QED
    BY <1>4, <1>10, <2>1
<1>15. q + (k + 1) = L + 2 /\ q >= 1
  <2>1. k > 0 => p >= 1 /\ p + k = L + 1
    BY <1>4, <1>10, <1>11, <1>12
  <2> QED
    BY <1>13, <2>1
<1>16. ListsInv'
  <2>1. ASSUME NEW u \in Tags, NEW a \in DOMAIN pool'
        PROVE  pool'[a].tag = u <=> addr0'[u] <= a /\ a < addr0'[u] + count'[u]
    <3>1. CASE u = tag /\ a = L + 1
      BY <1>6, <1>7, <1>13, <1>14, <1>15, <3>1
    <3>2. CASE u = tag /\ a \in 1..L
      <4>1. pool[a].tag = tag <=> p <= a /\ a < p + k
        BY <1>4, <1>5, <1>10, <1>12, <3>2
      <4>2. p <= a /\ a < p + k <=> q <= a /\ a < q + (k + 1)
        BY <1>4, <1>10, <1>11, <1>12, <1>13, <3>2
      <4> QED
        BY <1>7, <1>14, <3>2, <4>1, <4>2
    <3>3. CASE u # tag /\ a = L + 1
      <4>1. PICK x \in Nat, y \in Nat : x = addr0[u] /\ y = count[u] /\ (y > 0 => x >= 1 /\ x + y <= L + 1)
        BY <1>10
      <4>2. ~(x <= a /\ a < x + y)
        BY <3>3, <4>1
      <4> QED
        BY <1>6, <1>7, <1>14, <3>3, <4>1, <4>2
    <3>4. CASE u # tag /\ a \in 1..L
      BY <1>5, <1>7, <1>10, <1>14, <3>4
    <3> QED
      BY <1>8, <3>1, <3>2, <3>3, <3>4
  <2>2. ASSUME NEW u \in Tags, count'[u] > 0
        PROVE  addr0'[u] >= 1 /\ addr0'[u] + count'[u] <= Len(pool') + 1
    <3>1. CASE u = tag
      BY <1>7, <1>14, <1>15, <3>1
    <3>2. CASE u # tag
      <4>1. PICK x \in Nat, y \in Nat : x = addr0[u] /\ y = count[u] /\ (y > 0 => x >= 1 /\ x + y <= L + 1)
        BY <1>10
      <4> QED
        BY <1>7, <1>14, <2>2, <3>2, <4>1
    <3> QED
      BY <3>1, <3>2
  <2> QED
    BY <1>14, <2>1, <2>2 DEF ListsInv
<1>17. LoadInv'
  <2>1. \A u \in Tags : u > tag => count'[u] = 0
    <3>1. \A u \in Tags : u > tag => u # tag
      BY DnlAssumption DEF Tags
    <3> QED
      BY <1>11, <1>14, <3>1
  <2>2. addr0'[tag] + count'[tag] = Len(pool') + 1
    BY <1>7, <1>14, <1>15
  <2>3. maps' = [m1 |-> Null, m2 |-> Null, end |-> maps.end + 1]
    BY <1>1, <1>11 DEF alloc
  <2>4. maps'.end = maps.end + 1 /\ maps'.end \in Nat
    BY <1>11, <2>3
  <2> QED
    BY <1>1, <1>11, <2>1, <2>2, <2>3, <2>4 DEF LoadInv
<1>18. TodoInv'
  BY <1>1 DEF TodoInv
<1> QED
  BY <1>9, <1>16, <1>17, <1>18 DEF DnlInv

(* The next tag's files are read. *)
LEMMA NextTagInv ==
  ASSUME DnlInv, NextTag
  PROVE  DnlInv'
<1>1. /\ pc = "load" /\ tag < TagMax /\ tag' = tag + 1
      /\ pc' = pc /\ pool' = pool /\ count' = count /\ addr0' = addr0 /\ interest' = interest
      /\ maps' = maps /\ todo' = todo
  BY DEF NextTag
<1>2. tag \in Nat /\ tag' \in Tags /\ tag' > tag
  BY <1>1, DnlAssumption DEF DnlInv, PoolInv, Tags
<1>3. PoolInv'
  BY <1>1, <1>2 DEF DnlInv, PoolInv
<1>4. ListsInv'
  BY <1>1 DEF DnlInv, ListsInv
<1>5. LoadInv'
  <2>1. \A u \in Tags : u > tag' => u > tag
    BY <1>1, <1>2, DnlAssumption DEF Tags
  <2>2. count[tag'] = 0
    BY <1>1, <1>2 DEF DnlInv, LoadInv
  <2> QED
    BY <1>1, <2>1, <2>2 DEF DnlInv, LoadInv
<1>6. TodoInv'
  BY <1>1 DEF TodoInv
<1> QED
  BY <1>3, <1>4, <1>5, <1>6 DEF DnlInv

(* An entry of the pool. *)
LEMMA EntryOf ==
  ASSUME NEW P, PoolOk(P), NEW a \in DOMAIN P
  PROVE  P[a].tag \in Tags /\ P[a].name \in Seq(STRING) /\ Hash[P[a].name] \in Nat
<1>1. P[a] \in Entries /\ Hash[P[a].name] \in Nat
  BY DEF PoolOk
<1> QED
  BY <1>1 DEF Entries

(* Nothing was added before the first list. *)
LEMMA EndLoadInv ==
  ASSUME DnlInv, EndLoad
  PROVE  DnlInv'
<1>1. /\ pc = "load" /\ pc' = (IF pool = <<>> THEN "done" ELSE "add")
      /\ tag' = tag /\ pool' = pool /\ count' = count /\ addr0' = addr0 /\ interest' = interest
      /\ todo' = todo
  BY DEF EndLoad
<1>2. PoolInv'
  BY <1>1 DEF DnlInv, PoolInv
<1>3. ListsInv'
  BY <1>1 DEF DnlInv, ListsInv
<1>4. LoadInv'
  BY <1>1 DEF LoadInv
<1>5. /\ maps = [m1 |-> Null, m2 |-> Null, end |-> maps.end] /\ maps.end \in Nat
      /\ todo = [list |-> 1, name |-> 0]
  BY <1>1 DEF DnlInv, LoadInv
<1>6. todo.list = 1 /\ todo.name = 0 /\ 1 \in 1..(TagMax + 1)
  BY <1>5, DnlAssumption
<1>7. 0 <= count[OrderedTags[1]]
  <2>1. OrderedTags[1] \in Tags
    BY <1>6, PosIs
  <2>2. count[OrderedTags[1]] \in Nat
    BY <2>1 DEF DnlInv, ListsInv
  <2> QED
    BY <2>2
<1>8. CASE pool = <<>>
  <2>1. maps' = maps
    BY <1>8 DEF EndLoad
  <2>2. maps'.m1 = Null
    BY <1>5, <2>1
  <2> QED
    BY <1>1, <1>2, <1>3, <1>4, <1>5, <1>6, <1>7, <1>8, <2>2 DEF DnlInv, TodoInv
<1>9. CASE pool # <<>>
  <2>1. pool \in Seq(Entries) /\ PoolOk(pool)
    BY DEF DnlInv, PoolInv, PoolOk
  <2>2. PICK lcap \in Nat : lcap = calc_lcap(Len(pool))
    BY <2>1, CalcLcap
  <2>3. PICK N \in Nat \ {0} : N = 2 ^ lcap
    BY Size
  <2>4. PICK w : w = NewMap(lcap, 0, maps.end)
    OBVIOUS
  <2>5. maps' = [m1 |-> w, m2 |-> Null, end |-> maps.end + N]
    <3>1. maps' = [alloc(maps, 2 ^ lcap) EXCEPT !.m1 = w]
      BY <1>9, <2>2, <2>4 DEF EndLoad
    <3>2. PICK e \in Nat : e = maps.end
      BY <1>5
    <3>3. maps = [m1 |-> Null, m2 |-> Null, end |-> e]
      BY <1>5, <3>2
    <3>4. alloc(maps, N) = [m1 |-> Null, m2 |-> Null, end |-> e + N]
      BY <3>3 DEF alloc
    <3> QED
      BY <2>3, <3>1, <3>2, <3>4
  <2>6. maps'.m1 = w /\ maps'.m2 = Null /\ maps'.end = maps.end + N /\ maps'.end \in Nat
    BY <1>5, <2>5
  <2>7. MapOk(pool, w) /\ IsNewMap(w, lcap, 0, maps.end)
    BY <1>5, <2>4, NewMapOk
  <2>8. /\ Held(w.buckets) = {}
        /\ \A i \in 1..cap(w) : w.buckets[i].state = "FREE" /\ w.buckets[i].list = <<>>
    BY <2>7 DEF IsNewMap
  <2>9. Held(Null.buckets) = {}
    <3>1. Null.buckets = <<>>
      BY DEF Null
    <3> QED
      BY <3>1 DEF Held
  <2>10. \A i \in 1..cap(w) : Len(w.buckets[i].list) <= MaxCollision
    BY <2>8, DnlAssumption
  <2>11. DnlOk(pool, maps')
    BY <2>5, <2>6, <2>7, <2>9, <2>10 DEF DnlOk
  <2>12. NextThere(maps')
    BY <2>6, <2>8 DEF NextThere
  <2>13. KeptAll(maps') = {}
    BY <2>6, <2>8, <2>9 DEF KeptAll
  <2>14. ASSUME NEW a \in DOMAIN pool PROVE ~AddedBy(a)
    <3>1. PICK u \in Tags : u = pool[a].tag
      BY <2>1, EntryOf
    <3>2. PICK x \in Nat : x = addr0[u] /\ x <= a
      BY <3>1 DEF DnlInv, ListsInv
    <3>3. Pos(u) \in Nat \ {0} /\ a \in Nat
      BY <2>1, PosIs, DnlAssumption
    <3>4. ~(Pos(u) < 1) /\ ~(a < x + 0)
      BY <3>2, <3>3
    <3> QED
      BY <1>6, <3>1, <3>2, <3>4 DEF AddedBy
  <2>15. \A a : AddedBy(a)' <=> AddedBy(a)
    BY <1>1 DEF AddedBy
  <2>16. KeptInv'
    BY <1>1, <2>11, <2>12, <2>13, <2>14, <2>15 DEF KeptInv
  <2> QED
    BY <1>1, <1>2, <1>3, <1>4, <1>5, <1>6, <1>7, <1>9, <2>16 DEF DnlInv, TodoInv
<1> QED
  BY <1>8, <1>9

(* The address that is next: it is the next one of its list. *)
LEMMA NextAddress ==
  ASSUME DnlInv, pc = "add", NEW t, t = OrderedTags[todo.list], todo.name < count[t],
         NEW a, a = addr0[t] + todo.name
  PROVE  /\ t \in Tags /\ Pos(t) = todo.list /\ a \in DOMAIN pool /\ pool[a].tag = t
         /\ \A c \in DOMAIN pool :
              AddedBy(c) \/ c = a <=> (\/ Pos(pool[c].tag) < todo.list
                                       \/ Pos(pool[c].tag) = todo.list
                                          /\ c < addr0[pool[c].tag] + (todo.name + 1))
<1>1. todo.list \in 1..(TagMax + 1) /\ todo.name \in Nat /\ pool \in Seq(Entries)
  BY DEF DnlInv, TodoInv, PoolInv, PoolOk
<1>2. t \in Tags /\ Pos(t) = todo.list
  BY <1>1, PosIs
<1>3. PICK k \in Nat, p \in Nat, j \in Nat, L \in Nat :
        k = count[t] /\ p = addr0[t] /\ j = todo.name /\ L = Len(pool)
  BY <1>1, <1>2 DEF DnlInv, ListsInv
<1>4. /\ DOMAIN pool = 1..L /\ j < k /\ a = p + j
      /\ k > 0 => p >= 1 /\ p + k <= L + 1
      /\ \A c \in 1..L : pool[c].tag = t <=> p <= c /\ c < p + k
  <2>1. DOMAIN pool = 1..L
    BY <1>1, <1>3
  <2>2. /\ \A c \in DOMAIN pool : pool[c].tag = t <=> addr0[t] <= c /\ c < addr0[t] + count[t]
        /\ count[t] > 0 => addr0[t] >= 1 /\ addr0[t] + count[t] <= Len(pool) + 1
    BY <1>2 DEF DnlInv, ListsInv
  <2> QED
    BY <1>3, <2>1, <2>2
<1>5. a \in 1..L /\ p <= a /\ a < p + k
  <2>1. j < k /\ a = p + j /\ (k > 0 => p >= 1 /\ p + k <= L + 1)
    BY <1>4
  <2>2. k > 0
    BY <2>1
  <2> QED
    BY <2>1, <2>2
<1>6. pool[a].tag = t
  BY <1>4, <1>5
<1>7. ASSUME NEW c \in 1..L
      PROVE  AddedBy(c) \/ c = a <=> (\/ Pos(pool[c].tag) < todo.list
                                      \/ Pos(pool[c].tag) = todo.list
                                         /\ c < addr0[pool[c].tag] + (todo.name + 1))
  <2>1. PICK u \in Tags : u = pool[c].tag
    BY <1>4, EntryOf DEF DnlInv, PoolInv
  <2>2. Pos(u) = todo.list => u = t
    BY <2>1, PosIs
  <2>3. CASE u = t
    <3>1. c < p + (j + 1) <=> c < p + j \/ c = a
      BY <1>4
    <3>2. ~(todo.list < todo.list)
      BY <1>1
    <3> QED
      BY <1>2, <1>3, <2>1, <2>3, <3>1, <3>2 DEF AddedBy
  <2>4. CASE u # t
    <3>1. c # a
      BY <1>6, <2>1, <2>4
    <3> QED
      BY <2>1, <2>2, <2>4, <3>1 DEF AddedBy
  <2> QED
    BY <2>3, <2>4
<1> QED
  BY <1>2, <1>4, <1>5, <1>6, <1>7

(* A name is added: what was kept stays, and a name that was there is not   *)
(* kept again.                                                              *)
LEMMA AddNextInv ==
  ASSUME DnlInv, AddNext
  PROVE  DnlInv'
<1>1. PICK t : t = OrderedTags[todo.list]
  OBVIOUS
<1>2. PICK a : a = addr0[t] + todo.name
  OBVIOUS
<1>3. /\ pc = "add" /\ todo.name < count[t] /\ maps' = add_to_dnl(maps, a)
      /\ todo' = [todo EXCEPT !.name = @ + 1]
      /\ pc' = pc /\ tag' = tag /\ pool' = pool /\ count' = count /\ addr0' = addr0
      /\ interest' = interest
  BY <1>1, <1>2 DEF AddNext
<1>4. /\ t \in Tags /\ Pos(t) = todo.list /\ a \in DOMAIN pool /\ pool[a].tag = t
      /\ \A c \in DOMAIN pool :
           AddedBy(c) \/ c = a <=> (\/ Pos(pool[c].tag) < todo.list
                                    \/ Pos(pool[c].tag) = todo.list
                                       /\ c < addr0[pool[c].tag] + (todo.name + 1))
  BY <1>1, <1>2, <1>3, NextAddress
<1>5. PoolInv'
  BY <1>3 DEF DnlInv, PoolInv
<1>6. ListsInv'
  BY <1>3 DEF DnlInv, ListsInv
<1>7. LoadInv'
  BY <1>3 DEF LoadInv
<1>8. /\ todo = [list |-> todo.list, name |-> todo.name]
      /\ todo.list \in 1..(TagMax + 1) /\ todo.name \in Nat
      /\ pool # <<>> /\ KeptInv
  BY <1>3 DEF DnlInv, TodoInv
<1>9. /\ todo' = [list |-> todo.list, name |-> todo.name + 1]
      /\ todo'.list = todo.list /\ todo'.name = todo.name + 1
  BY <1>3, <1>8
<1>10. \A c \in DOMAIN pool : AddedBy(c)' <=> AddedBy(c) \/ c = a
  BY <1>3, <1>4, <1>9 DEF AddedBy
<1>11. DnlOk(pool, maps) /\ NextThere(maps) /\ PoolOk(pool)
  BY <1>8 DEF KeptInv, DnlInv, PoolInv
<1>12. IsAdded(pool, maps, maps', a)
  BY <1>3, <1>4, <1>11, AddToDnl
<1>13. /\ DnlOk(pool, maps') /\ NextThere(maps')
       /\ KeptAll(maps') = KeptAll(maps) \cup NewIn(pool, KeptAll(maps), a)
  BY <1>12 DEF IsAdded
<1>14. KeptAll(maps) \subseteq DOMAIN pool
  BY <1>11, KeptUnique
<1>15. ASSUME NEW c \in KeptAll(maps') PROVE AddedBy(c)'
  <2>1. c \in KeptAll(maps) \/ c = a
    BY <1>13 DEF NewIn
  <2> QED
    BY <1>4, <1>8, <1>10, <1>14, <2>1 DEF KeptInv
<1>16. ASSUME NEW c \in DOMAIN pool, AddedBy(c)'
       PROVE  \E d \in KeptAll(maps') :
                pool[d].name = pool[c].name /\ Pos(pool[d].tag) <= Pos(pool[c].tag)
  <2>1. CASE AddedBy(c)
    BY <1>8, <1>13, <2>1 DEF KeptInv
  <2>2. CASE c = a /\ a \in KeptAll(maps')
    <3>1. Pos(pool[c].tag) <= Pos(pool[c].tag)
      BY <1>4, <1>8, <2>2
    <3> QED
      BY <2>2, <3>1
  <2>3. CASE c = a /\ a \notin KeptAll(maps')
    <3>1. PICK d \in KeptAll(maps) : pool[d].name = pool[a].name
      BY <1>13, <2>3 DEF NewIn
    <3>2. AddedBy(d)
      BY <1>8 DEF KeptInv
    <3>3. PICK u \in Tags : u = pool[d].tag
      BY <1>11, <1>14, EntryOf
    <3>4. Pos(u) \in 1..(TagMax + 1)
      BY PosIs
    <3>5. Pos(u) <= todo.list
      BY <1>8, <3>2, <3>3, <3>4, DnlAssumption DEF AddedBy
    <3> QED
      BY <1>4, <1>13, <2>3, <3>1, <3>3, <3>5
  <2> QED
    BY <1>10, <1>16, <2>1, <2>2, <2>3
<1>17. KeptInv'
  BY <1>3, <1>13, <1>15, <1>16 DEF KeptInv
<1>18. todo.name + 1 \in Nat /\ todo.name + 1 <= count[t]
  <2>1. count[t] \in Nat
    BY <1>4 DEF DnlInv, ListsInv
  <2> QED
    BY <1>3, <1>8, <2>1
<1>19. TodoInv'
  BY <1>1, <1>3, <1>8, <1>9, <1>17, <1>18 DEF TodoInv
<1> QED
  BY <1>5, <1>6, <1>7, <1>19 DEF DnlInv

(* The last name of a list is added as the next list is taken. *)
LEMMA NextListInv ==
  ASSUME DnlInv, NextList
  PROVE  DnlInv'
<1>1. /\ pc = "add" /\ todo.name = count[OrderedTags[todo.list]]
      /\ \/ todo.list <= TagMax /\ todo' = [list |-> todo.list + 1, name |-> 0] /\ pc' = pc
         \/ todo.list = TagMax + 1 /\ pc' = "done" /\ todo' = todo
      /\ tag' = tag /\ pool' = pool /\ count' = count /\ addr0' = addr0
      /\ interest' = interest /\ maps' = maps
  BY DEF NextList
<1>2. PoolInv'
  BY <1>1 DEF DnlInv, PoolInv
<1>3. ListsInv'
  BY <1>1 DEF DnlInv, ListsInv
<1>4. LoadInv'
  BY <1>1 DEF LoadInv
<1>5. /\ todo = [list |-> todo.list, name |-> todo.name]
      /\ todo.list \in 1..(TagMax + 1) /\ todo.name \in Nat
      /\ todo.name <= count[OrderedTags[todo.list]]
      /\ pool # <<>> /\ KeptInv
  BY <1>1 DEF DnlInv, TodoInv
<1>6. CASE todo.list = TagMax + 1 /\ pc' = "done" /\ todo' = todo
  <2>1. \A a : AddedBy(a)' <=> AddedBy(a)
    BY <1>1, <1>6 DEF AddedBy
  <2>2. KeptInv'
    BY <1>1, <1>5, <2>1 DEF KeptInv
  <2>3. TodoInv'
    BY <1>1, <1>5, <1>6, <2>2 DEF TodoInv
  <2> QED
    BY <1>2, <1>3, <1>4, <2>3 DEF DnlInv
<1>7. CASE todo.list <= TagMax /\ todo' = [list |-> todo.list + 1, name |-> 0] /\ pc' = pc
  <2>1. todo'.list = todo.list + 1 /\ todo'.name = 0 /\ todo.list + 1 \in 1..(TagMax + 1)
    BY <1>5, <1>7, DnlAssumption
  <2>2. ASSUME NEW a \in DOMAIN pool PROVE AddedBy(a)' <=> AddedBy(a)
    <3>1. PICK u \in Tags : u = pool[a].tag
      BY EntryOf DEF DnlInv, PoolInv
    <3>2. PICK p \in Nat, k \in Nat : p = addr0[u] /\ k = count[u] /\ p <= a /\ a < p + k
      BY <3>1 DEF DnlInv, ListsInv
    <3>3. a \in Nat
      BY DEF DnlInv, PoolInv, PoolOk
    <3>4. Pos(u) = todo.list => todo.name = k
      BY <1>1, <3>2, PosIs
    <3>5. PICK x \in Nat, l \in Nat : x = Pos(u) /\ l = todo.list
      BY <1>5, PosIs, DnlAssumption
    <3>6. AddedBy(a) <=> x <= l
      <4>1. AddedBy(a) <=> x < l \/ (x = l /\ a < p + todo.name)
        BY <3>1, <3>2, <3>5 DEF AddedBy
      <4>2. x = l => (a < p + todo.name)
        BY <3>2, <3>4, <3>5
      <4> QED
        BY <3>5, <4>1, <4>2
    <3>7. AddedBy(a)' <=> x < l + 1
      <4>1. AddedBy(a)' <=> x < l + 1 \/ (x = l + 1 /\ a < p + 0)
        BY <1>1, <2>1, <3>1, <3>2, <3>5 DEF AddedBy
      <4>2. ~(a < p + 0)
        BY <3>2, <3>3
      <4> QED
        BY <4>1, <4>2
    <3> QED
      BY <3>5, <3>6, <3>7
  <2>3. KeptAll(maps) \subseteq DOMAIN pool
    BY <1>5, KeptUnique DEF KeptInv, DnlInv, PoolInv
  <2>4. KeptInv'
    BY <1>1, <1>5, <2>2, <2>3 DEF KeptInv
  <2>5. 0 <= count[OrderedTags[todo.list + 1]]
    <3>1. OrderedTags[todo.list + 1] \in Tags
      BY <2>1, PosIs
    <3>2. count[OrderedTags[todo.list + 1]] \in Nat
      BY <3>1 DEF DnlInv, ListsInv
    <3> QED
      BY <3>2
  <2>6. TodoInv'
    BY <1>1, <1>5, <1>7, <2>1, <2>4, <2>5 DEF TodoInv
  <2> QED
    BY <1>2, <1>3, <1>4, <2>6 DEF DnlInv
<1> QED
  BY <1>1, <1>6, <1>7

(* A step that changes nothing. *)
LEMMA StutterInv ==
  ASSUME DnlInv, UNCHANGED vars
  PROVE  DnlInv'
<1>1. /\ pc' = pc /\ tag' = tag /\ pool' = pool /\ count' = count /\ addr0' = addr0
      /\ interest' = interest /\ maps' = maps /\ todo' = todo
  BY DEF vars
<1>2. \A a : AddedBy(a)' <=> AddedBy(a)
  BY <1>1 DEF AddedBy
<1>3. KeptInv' <=> KeptInv
  BY <1>1, <1>2 DEF KeptInv
<1>4. PoolInv' /\ ListsInv' /\ LoadInv'
  BY <1>1 DEF DnlInv, PoolInv, ListsInv, LoadInv
<1>5. TodoInv'
  BY <1>1, <1>3 DEF DnlInv, TodoInv
<1> QED
  BY <1>4, <1>5 DEF DnlInv

(* Every step keeps the invariant. *)
LEMMA NextInv ==
  ASSUME DnlInv, [Next]_vars
  PROVE  DnlInv'
<1>1. ASSUME NEW t \in Tokens, LoadName(t) PROVE DnlInv'
  <2>1. CASE NameOk(t)
    BY <1>1, <2>1, LoadNameInv
  <2>2. CASE ~NameOk(t)
    <3>1. UNCHANGED vars
      BY <1>1, <2>2 DEF LoadName
    <3> QED
      BY <3>1, StutterInv
  <2> QED
    BY <2>1, <2>2
<1>2. CASE NextTag
  BY <1>2, NextTagInv
<1>3. CASE EndLoad
  BY <1>3, EndLoadInv
<1>4. CASE AddNext
  BY <1>4, AddNextInv
<1>5. CASE NextList
  BY <1>5, NextListInv
<1>6. CASE UNCHANGED vars
  BY <1>6, StutterInv
<1> QED
  BY <1>1, <1>2, <1>3, <1>4, <1>5, <1>6 DEF Next

(* The lists are where they were read to, and the map keeps one address for *)
(* every name that was added (DnlInv), in every state of load_list and      *)
(* add_list.                                                                *)
THEOREM DnlInvHolds == Spec => []DnlInv
<1>1. Init => DnlInv
  BY InitInv
<1>2. DnlInv /\ [Next]_vars => DnlInv'
  BY NextInv
<1> QED
  BY <1>1, <1>2, PTL DEF Spec

-----------------------------------------------------------------------------
(* The properties *)

(* "Once a suffix is loaded its attributes are not modified": add_to_dnl,   *)
(* also when it hands a list over or doubles the second level, loses no     *)
(* name that could be found and gives none another tag.                     *)
THEOREM StoredNamesKeepTheirTagHolds == Spec => StoredNamesKeepTheirTag
<1>1. ASSUME DnlInv, [Next]_vars, pc = "add", NEW n \in Names, Found(maps, n) # {}
      PROVE  Found(maps', n) = Found(maps, n)
  <2>1. CASE AddNext
    <3>1. PICK t : t = OrderedTags[todo.list]
      OBVIOUS
    <3>2. PICK a : a = addr0[t] + todo.name
      OBVIOUS
    <3>3. todo.name < count[t] /\ maps' = add_to_dnl(maps, a)
      BY <2>1, <3>1, <3>2 DEF AddNext
    <3>4. a \in DOMAIN pool
      BY <1>1, <3>1, <3>2, <3>3, NextAddress
    <3>5. PoolOk(pool) /\ DnlOk(pool, maps) /\ NextThere(maps)
      BY <1>1 DEF DnlInv, PoolInv, TodoInv, KeptInv
    <3>6. IsAdded(pool, maps, maps', a)
      BY <3>3, <3>4, <3>5, AddToDnl
    <3>7. /\ DnlOk(pool, maps') /\ NextThere(maps')
          /\ KeptAll(maps') = KeptAll(maps) \cup NewIn(pool, KeptAll(maps), a)
      BY <3>6 DEF IsAdded
    <3>8. Hash[n] \in Nat
      BY <1>1, <3>5, EntryOf DEF Names
    <3>9. Found(maps, n) = {c \in KeptAll(maps) : NameAt(c) = n}
      BY <3>5, <3>8, FoundIs
    <3>10. Found(maps', n) = {c \in KeptAll(maps') : NameAt(c) = n}
      BY <3>5, <3>7, <3>8, FoundIs
    <3>11. PICK c \in KeptAll(maps) : NameAt(c) = n
      BY <1>1, <3>9
    <3>12. ASSUME NEW d \in NewIn(pool, KeptAll(maps), a) PROVE NameAt(d) # n
      BY <3>11, <3>12 DEF NewIn, NameAt
    <3> QED
      BY <3>7, <3>9, <3>10, <3>12
  <2>2. CASE NextList
    BY <2>2 DEF NextList
  <2>3. CASE UNCHANGED vars
    BY <2>3 DEF vars
  <2> QED
    BY <1>1, <2>1, <2>2, <2>3 DEF Next, LoadName, NextTag, EndLoad
<1> DEFINE A == pc = "add" => \A n \in Names : Found(maps, n) # {} => Found(maps', n) = Found(maps, n)
<1>2. DnlInv /\ [Next]_vars => [A]_vars
  BY <1>1
<1>3. Spec => []DnlInv
  BY DnlInvHolds
<1>4. Spec => [][A]_vars
  <2> HIDE DEF A
  <2> QED
    BY <1>2, <1>3, PTL DEF Spec
<1> QED
  BY <1>4 DEF StoredNamesKeepTheirTag

(* What was added, list by list or by the turns of the lists. *)
LEMMA AddedIs ==
  ASSUME DnlInv, pc # "load", NEW a
  PROVE  a \in Added <=> a \in DOMAIN pool /\ AddedBy(a)
<1>1. /\ todo.list \in 1..(TagMax + 1) /\ todo.name \in Nat
      /\ todo.name <= count[OrderedTags[todo.list]]
  BY DEF DnlInv, TodoInv
<1>2. PICK l \in Nat, x \in Nat, L \in Nat : l = todo.list /\ x = todo.name /\ L = Len(pool) /\ DOMAIN pool = 1..L
  BY <1>1, DnlAssumption DEF DnlInv, PoolInv, PoolOk
<1> DEFINE Size1(i) == IF i < l THEN count[OrderedTags[i]] ELSE x
           Part(i) == addr0[OrderedTags[i]]..(addr0[OrderedTags[i]] + Size1(i) - 1)
<1>3. a \in Added <=> \E i \in 1..l : a \in Part(i)
  BY <1>2 DEF Added
<1>4. ASSUME NEW i \in 1..l
      PROVE  a \in Part(i) <=> a \in 1..L /\ Pos(pool[a].tag) = i /\ AddedBy(a)
  <2>1. PICK t \in Tags : t = OrderedTags[i] /\ Pos(t) = i /\ i \in 1..(TagMax + 1)
    BY <1>1, <1>2, PosIs, DnlAssumption
  <2>2. PICK p \in Nat, k \in Nat : p = addr0[t] /\ k = count[t] /\ (k > 0 => p >= 1 /\ p + k <= L + 1)
    BY <1>2 DEF DnlInv, ListsInv
  <2>3. \A c \in 1..L : pool[c].tag = t <=> p <= c /\ c < p + k
    BY <1>2, <2>2 DEF DnlInv, ListsInv
  <2>4. PICK s \in Nat : s = Size1(i) /\ s <= k /\ (i < l => s = k) /\ (~(i < l) => s = x)
    BY <1>1, <1>2, <2>1, <2>2
  <2>5. a \in Part(i) <=> a \in p..(p + s - 1)
    BY <2>1, <2>2, <2>4
  <2> HIDE DEF Part, Size1
  <2>6. ASSUME a \in p..(p + s - 1)
        PROVE  a \in 1..L /\ Pos(pool[a].tag) = i /\ AddedBy(a)
    <3>1. a \in 1..L /\ p <= a /\ a < p + k /\ a < p + s
      BY <2>2, <2>4, <2>6
    <3>2. pool[a].tag = t
      BY <2>3, <3>1
    <3>3. i < l \/ i = l
      BY <1>2
    <3> QED
      BY <1>2, <2>1, <2>2, <2>4, <3>1, <3>2, <3>3 DEF AddedBy
  <2>7. ASSUME a \in 1..L, Pos(pool[a].tag) = i, AddedBy(a)
        PROVE  a \in p..(p + s - 1)
    <3>1. pool[a].tag \in Tags
      BY <1>2, <2>7, EntryOf DEF DnlInv, PoolInv
    <3>2. pool[a].tag = t
      BY <2>1, <2>7, <3>1, PosIs
    <3>3. p <= a /\ a < p + k
      BY <2>3, <2>7, <3>2
    <3>4. i < l \/ (i = l /\ a < p + x)
      BY <1>2, <2>1, <2>2, <2>7, <3>2 DEF AddedBy
    <3>5. a < p + s
      BY <1>2, <2>4, <3>3, <3>4
    <3> QED
      BY <2>7, <3>3, <3>5
  <2> QED
    BY <2>5, <2>6, <2>7
<1> HIDE DEF Part
<1>5. ASSUME a \in 1..L, AddedBy(a) PROVE \E i \in 1..l : Pos(pool[a].tag) = i
  <2>1. pool[a].tag \in Tags
    BY <1>2, <1>5, EntryOf DEF DnlInv, PoolInv
  <2>2. Pos(pool[a].tag) \in 1..(TagMax + 1)
    BY <2>1, PosIs
  <2>3. Pos(pool[a].tag) < l \/ Pos(pool[a].tag) = l
    BY <1>2, <1>5 DEF AddedBy
  <2> QED
    BY <1>2, <2>2, <2>3, DnlAssumption
<1> QED
  BY <1>2, <1>3, <1>4, <1>5

\* the map m has the address a as the j-th of its list i
Place(m, i, j, a) == i \in DOMAIN m.buckets /\ j \in DOMAIN m.buckets[i].list /\ a = m.buckets[i].list[j]

(* An address is held at one place of a map. *)
LEMMA OnePlace ==
  ASSUME PoolOk(pool), NEW m, m = Null \/ MapOk(pool, m)
  PROVE  /\ \A a : a \in Held(m.buckets) <=> \E i, j : Place(m, i, j, a)
         /\ \A a, i, j, k, l : Place(m, i, j, a) /\ Place(m, k, l, a) => i = k /\ j = l
<1>1. CASE m = Null
  <2>1. m.buckets = <<>>
    BY <1>1 DEF Null
  <2>2. DOMAIN m.buckets = {}
    BY <2>1
  <2> QED
    BY <2>2 DEF Held, Place
<1>2. CASE MapOk(pool, m)
  <2>1. \A a : a \in Held(m.buckets) <=> \E i, j : Place(m, i, j, a)
    BY DEF Held, Place, ToSet
  <2>2. ASSUME NEW a, NEW i, NEW j, Place(m, i, j, a)
        PROVE  /\ BucketOk(pool, m.lcap, m.shift, i, m.buckets[i])
               /\ a \in ToSet(m.buckets[i].list)
               /\ i = At(m.lcap, m.shift, pool[a].name)
    <3>1. BucketOk(pool, m.lcap, m.shift, i, m.buckets[i])
      BY <1>2, <2>2 DEF MapOk, BucketsOk, Place
    <3>2. a \in ToSet(m.buckets[i].list)
      BY <2>2 DEF Place, ToSet
    <3> QED
      BY <3>1, <3>2 DEF BucketOk
  <2>3. ASSUME NEW a, NEW i, NEW j, NEW k, NEW l, Place(m, i, j, a), Place(m, k, l, a)
        PROVE  i = k /\ j = l
    <3>1. i = k
      BY <2>2, <2>3
    <3>2. IsInjective(m.buckets[i].list)
      BY <2>2, <2>3 DEF BucketOk
    <3> QED
      BY <2>3, <3>1, <3>2 DEF Place, IsInjective
  <2> QED
    BY <2>1, <2>3
<1> QED
  BY <1>1, <1>2

(* A set without two elements. *)
LEMMA AtMostOne ==
  ASSUME NEW S, \A x, y \in S : x = y
  PROVE  Cardinality(S) <= 1
<1>1. CASE S = {}
  BY <1>1, FS_EmptySet
<1>2. CASE S # {}
  <2>1. PICK x : S = {x}
    BY <1>2
  <2>2. Cardinality({x}) = 1
    BY FS_Singleton
  <2> QED
    BY <2>1, <2>2
<1> QED
  BY <1>1, <1>2

(* The places of a name. *)
LEMMA PlacesAre ==
  ASSUME PoolOk(pool), DnlOk(pool, maps), NEW n
  PROVE  /\ Cardinality(Places(n)) <= 1
         /\ Places(n) # {} <=> \E a \in KeptAll(maps) : NameAt(a) = n
<1>1. PICK m1, m2 : m1 = maps.m1 /\ m2 = maps.m2
  OBVIOUS
<1>2. MapOk(pool, m1) /\ (m2 = Null \/ MapOk(pool, m2))
  BY <1>1 DEF DnlOk, Level2
<1>3. /\ \A a : a \in Held(m1.buckets) <=> \E i, j : Place(m1, i, j, a)
      /\ \A a, i, j, k, l : Place(m1, i, j, a) /\ Place(m1, k, l, a) => i = k /\ j = l
  BY <1>2, OnePlace
<1>4. /\ \A a : a \in Held(m2.buckets) <=> \E i, j : Place(m2, i, j, a)
      /\ \A a, i, j, k, l : Place(m2, i, j, a) /\ Place(m2, k, l, a) => i = k /\ j = l
  BY <1>2, OnePlace
<1>5. /\ \A a, c \in KeptAll(maps) : NameAt(a) = NameAt(c) => a = c
      /\ \A a \in Held(m1.buckets), c \in Held(m2.buckets) : NameAt(a) # NameAt(c)
      /\ KeptAll(maps) = Held(m1.buckets) \cup Held(m2.buckets)
  BY <1>1, KeptUnique DEF KeptAll
<1>6. \A x : x \in Places(n) <=>
        \E i, j, a : NameAt(a) = n /\ (\/ Place(m1, i, j, a) /\ x = <<i, j, 1>>
                                       \/ Place(m2, i, j, a) /\ x = <<i, j, 2>>)
  <2> DEFINE Of(m, level) == UNION {{<<i, j, level>> : j \in {j \in DOMAIN m.buckets[i].list :
                                                               NameAt(m.buckets[i].list[j]) = n}} :
                                      i \in DOMAIN m.buckets}
  <2>1. Places(n) = Of(m1, 1) \cup Of(m2, 2)
    BY <1>1 DEF Places
  <2>2. \A m, level : \A x : x \in Of(m, level) <=>
          \E i, j, a : NameAt(a) = n /\ Place(m, i, j, a) /\ x = <<i, j, level>>
    BY DEF Place
  <2> HIDE DEF Of
  <2> QED
    BY <2>1, <2>2
<1>7. \A x, y \in Places(n) : x = y
  <2>1. SUFFICES ASSUME NEW x \in Places(n), NEW y \in Places(n) PROVE x = y
    OBVIOUS
  <2>2. PICK i, j, a : NameAt(a) = n /\ (\/ Place(m1, i, j, a) /\ x = <<i, j, 1>>
                                         \/ Place(m2, i, j, a) /\ x = <<i, j, 2>>)
    BY <1>6
  <2>3. PICK k, l, c : NameAt(c) = n /\ (\/ Place(m1, k, l, c) /\ y = <<k, l, 1>>
                                         \/ Place(m2, k, l, c) /\ y = <<k, l, 2>>)
    BY <1>6
  <2>4. a \in KeptAll(maps) /\ c \in KeptAll(maps) /\ a = c
    BY <1>3, <1>4, <1>5, <2>2, <2>3
  <2>5. CASE Place(m1, i, j, a) /\ x = <<i, j, 1>>
    <3>1. a \in Held(m1.buckets)
      BY <1>3, <2>5
    <3>2. ~Place(m2, k, l, c)
      BY <1>4, <1>5, <2>2, <2>3, <3>1
    <3> QED
      BY <1>3, <2>3, <2>4, <2>5, <3>2
  <2>6. CASE Place(m2, i, j, a) /\ x = <<i, j, 2>>
    <3>1. a \in Held(m2.buckets)
      BY <1>4, <2>6
    <3>2. ~Place(m1, k, l, c)
      BY <1>3, <1>5, <2>2, <2>3, <3>1
    <3> QED
      BY <1>4, <2>3, <2>4, <2>6, <3>2
  <2> QED
    BY <2>2, <2>5, <2>6
<1>8. Cardinality(Places(n)) <= 1
  BY <1>7, AtMostOne
<1>9. Places(n) # {} <=> \E a \in KeptAll(maps) : NameAt(a) = n
  <2>1. ASSUME NEW a \in KeptAll(maps), NameAt(a) = n PROVE Places(n) # {}
    <3>1. CASE a \in Held(m1.buckets)
      <4>1. PICK i, j : Place(m1, i, j, a)
        BY <1>3, <3>1
      <4>2. <<i, j, 1>> \in Places(n)
        BY <1>6, <2>1, <4>1
      <4> QED
        BY <4>2
    <3>2. CASE a \in Held(m2.buckets)
      <4>1. PICK i, j : Place(m2, i, j, a)
        BY <1>4, <3>2
      <4>2. <<i, j, 2>> \in Places(n)
        BY <1>6, <2>1, <4>1
      <4> QED
        BY <4>2
    <3> QED
      BY <1>5, <3>1, <3>2
  <2>2. ASSUME NEW x \in Places(n) PROVE \E a \in KeptAll(maps) : NameAt(a) = n
    <3>1. PICK i, j, a : NameAt(a) = n /\ (Place(m1, i, j, a) \/ Place(m2, i, j, a))
      BY <1>6
    <3> QED
      BY <1>3, <1>4, <1>5, <3>1
  <2> QED
    BY <2>1, <2>2
<1> QED
  BY <1>8, <1>9

(* Every name that was added is kept in one place, where exists_in_dnl gets *)
(* to; nitems and nlists count what is there; no list of the first level is *)
(* longer than MAX_COLLISION; the second level keeps its load and ends the  *)
(* pool (the assertion in resize_map2).                                     *)
THEOREM NamesAreStoredOnceHolds == Spec => []NamesAreStoredOnce
<1>1. ASSUME DnlInv, pc # "load", maps.m1.notnull PROVE NamesAreStoredOnce
  <2>1. pool # <<>>
    <3>1. ~Null.notnull
      BY DEF Null
    <3> QED
      BY <1>1, <3>1 DEF DnlInv, TodoInv
  <2>2. PoolOk(pool) /\ KeptInv
    BY <1>1, <2>1 DEF DnlInv, PoolInv, TodoInv
  <2>3. /\ DnlOk(pool, maps) /\ NextThere(maps)
        /\ \A a \in KeptAll(maps) : AddedBy(a)
        /\ \A a \in DOMAIN pool : AddedBy(a) => \E c \in KeptAll(maps) : pool[c].name = pool[a].name
    BY <2>2 DEF KeptInv
  <2>4. KeptAll(maps) \subseteq DOMAIN pool
    BY <2>2, <2>3, KeptUnique
  <2>5. ASSUME NEW n \in Names
        PROVE  /\ Cardinality(Places(n)) <= 1
               /\ (Places(n) # {}) <=> (Found(maps, n) # {})
               /\ (Places(n) # {}) <=> (\E a \in Added : NameAt(a) = n)
    <3>1. Hash[n] \in Nat
      BY <2>2, EntryOf DEF Names
    <3>2. Found(maps, n) = {a \in KeptAll(maps) : NameAt(a) = n}
      BY <2>2, <2>3, <3>1, FoundIs
    <3>3. /\ Cardinality(Places(n)) <= 1
          /\ Places(n) # {} <=> \E a \in KeptAll(maps) : NameAt(a) = n
      BY <2>2, <2>3, PlacesAre
    <3>4. (\E a \in KeptAll(maps) : NameAt(a) = n) <=> (\E a \in Added : NameAt(a) = n)
      <4>1. \A a \in KeptAll(maps) : a \in Added
        BY <1>1, <2>3, <2>4, AddedIs
      <4>2. \A a \in Added : \E c \in KeptAll(maps) : pool[c].name = pool[a].name
        BY <1>1, <2>3, AddedIs
      <4> QED
        BY <4>1, <4>2 DEF NameAt
    <3> QED
      BY <3>2, <3>3, <3>4
  <2>6. MapOk(pool, maps.m1) /\ (maps.m2 = Null \/ Level2(pool, maps.m2, maps.end))
    BY <2>3 DEF DnlOk
  <2>7. ASSUME NEW m, m = Null \/ MapOk(pool, m)
        PROVE  m.nitems = Cardinality(Kept(m)) /\ m.nlists = HeadCount(m.buckets)
    <3>1. Kept(m) = Held(m.buckets)
      BY DEF Kept, Held
    <3>2. CASE m = Null
      <4>1. m.buckets = <<>> /\ m.nitems = 0 /\ m.nlists = 0
        BY <3>2 DEF Null
      <4>2. Held(m.buckets) = {} /\ {i \in DOMAIN m.buckets : m.buckets[i].state = "HEAD"} = {}
        BY <4>1 DEF Held
      <4> QED
        BY <3>1, <4>1, <4>2, FS_EmptySet DEF HeadCount
    <3>3. CASE MapOk(pool, m)
      BY <3>1, <3>3 DEF MapOk
    <3> QED
      BY <2>7, <3>2, <3>3
  <2>8. \A m \in {maps.m1, maps.m2} : m.nitems = Cardinality(Kept(m)) /\ m.nlists = HeadCount(m.buckets)
    BY <2>6, <2>7 DEF Level2
  <2>9. \A i \in DOMAIN maps.m1.buckets : Len(maps.m1.buckets[i].list) <= MaxCollision
    <3>1. DOMAIN maps.m1.buckets = 1..cap(maps.m1)
      <4>1. PICK m : m = maps.m1
        OBVIOUS
      <4>2. MapOk(pool, m)
        BY <2>6, <4>1
      <4>3. DOMAIN m.buckets = 1..cap(m)
        BY <4>2 DEF MapOk, BucketsOk, cap
      <4> QED
        BY <4>1, <4>3
    <3> QED
      BY <2>3, <3>1 DEF DnlOk
  <2>10. maps.m2.notnull => /\ maps.m2.nitems <= maxload(maps.m2)
                            /\ maps.m2.at + cap(maps.m2) = maps.end
    <3>1. ~Null.notnull
      BY DEF Null
    <3> QED
      BY <2>6, <3>1 DEF Level2
  <2> QED
    BY <2>5, <2>8, <2>9, <2>10 DEF NamesAreStoredOnce
<1>2. DnlInv => NamesAreStoredOnce
  BY <1>1 DEF NamesAreStoredOnce
<1> QED
  BY <1>2, DnlInvHolds, PTL

(* Bounded numbers have a greatest one. *)
LEMMA Greatest ==
  ASSUME NEW T \in SUBSET Nat, T # {}, NEW B \in Nat, \A x \in T : x <= B
  PROVE  \E x \in T : \A y \in T : y <= x
<1> DEFINE R == {B - x : x \in T}
<1>1. R \in SUBSET Nat /\ R # {}
  <2>1. \A x \in T : B - x \in Nat
    OBVIOUS
  <2> QED
    BY <2>1
<1>2. PICK r \in R : \A q \in R : r <= q
  <2> HIDE DEF R
  <2> QED
    BY <1>1, Least
<1>3. PICK x \in T : r = B - x
  OBVIOUS
<1>4. ASSUME NEW y \in T PROVE y <= x
  <2>1. B - x <= B - y
    BY <1>2, <1>3
  <2> QED
    BY <2>1
<1> QED
  BY <1>4

(* s_level_max is the highest level of a name in the lists. *)
LEMMA LevelMaxIs ==
  ASSUME DnlInv, pool # <<>>
  PROVE  /\ LevelMax \in interest /\ interest \subseteq Nat \ {0}
         /\ \A k \in interest : k <= LevelMax
<1>1. /\ PoolOk(pool) /\ interest = {Len(pool[a].name) : a \in DOMAIN pool}
      /\ \A a \in DOMAIN pool : Len(pool[a].name) <= MaxLevel
  BY DEF DnlInv, PoolInv
<1>2. ASSUME NEW a \in DOMAIN pool PROVE Len(pool[a].name) \in Nat \ {0}
  <2>1. pool[a].name \in Seq(STRING) /\ pool[a].name # <<>>
    BY <1>1, EntryOf DEF PoolOk
  <2> QED
    BY <2>1
<1>3. interest \in SUBSET Nat /\ interest \subseteq Nat \ {0} /\ \A k \in interest : k <= MaxLevel
  BY <1>1, <1>2
<1>4. interest # {}
  <2>1. pool \in Seq(Entries)
    BY <1>1 DEF PoolOk
  <2>2. 1 \in DOMAIN pool
    BY <2>1
  <2> QED
    BY <1>1, <2>2
<1>5. \E l \in interest : \A k \in interest : k <= l
  BY <1>3, <1>4, Greatest, DnlAssumption
<1> QED
  BY <1>3, <1>5 DEF LevelMax

\* the levels at which a list has a suffix of n
Hits(n) == {level \in 1..Len(n) : LastLabels(n, level) \in Names}

(* get_suffix leaves out no suffix that a list has: a level is of interest  *)
(* if a name of that level was read, and the whole name comes after the     *)
(* first s_level_max dots.                                                  *)
LEMMA SuffixesAre ==
  ASSUME DnlInv, pool # <<>>, NEW n \in QueryNames
  PROVE  /\ {s \in get_suffix(n) : s \in Names} = {LastLabels(n, l) : l \in Hits(n)}
         /\ \A s \in get_suffix(n) : Hash[s] \in Nat
<1>1. n \in Seq(STRING) /\ n # <<>>
  BY DnlAssumption
<1>2. PICK L \in Nat \ {0} : L = Len(n)
  BY <1>1
<1>3. PICK M \in Nat : M = LevelMax /\ M \in interest /\ interest \subseteq Nat \ {0} /\ \A k \in interest : k <= M
  BY LevelMaxIs
<1>4. PICK top \in Nat : top = Smaller(M, L - 1)
  BY <1>2 DEF Smaller
<1>5. top <= M /\ top <= L - 1 /\ (top = M \/ top = L - 1)
  BY <1>4 DEF Smaller
<1>6. get_suffix(n) = {LastLabels(n, l) : l \in interest \cap 1..top}
                        \cup (IF top + 1 \in interest THEN {n} ELSE {})
  BY <1>2, <1>3, <1>4 DEF get_suffix
<1>7. LastLabels(n, L) = n /\ \A l \in 1..L : Len(LastLabels(n, l)) = l
  <2>1. L \in 1..Len(n)
    BY <1>2
  <2>2. LastLabels(n, L) = n
    BY <1>1, <1>2, <2>1, LastLabelsIs
  <2>3. \A l \in 1..L : Len(LastLabels(n, l)) = l
    BY <1>1, <1>2, LastLabelsIs
  <2> QED
    BY <2>2, <2>3
<1>8. ASSUME NEW s \in Names PROVE Len(s) \in interest
  BY DEF Names, DnlInv, PoolInv
<1>9. top + 1 \in interest => top + 1 = L
  BY <1>2, <1>3, <1>5
<1>10. ASSUME NEW s \in get_suffix(n), s \in Names PROVE \E l \in Hits(n) : s = LastLabels(n, l)
  <2>1. CASE s \in {LastLabels(n, l) : l \in interest \cap 1..top}
    <3>1. PICK l \in 1..top : s = LastLabels(n, l)
      BY <2>1
    <3>2. l \in 1..L
      BY <1>5
    <3> QED
      BY <1>2, <1>10, <3>1, <3>2 DEF Hits
  <2>2. CASE top + 1 \in interest /\ s = n
    <3>1. L \in Hits(n)
      BY <1>2, <1>7, <1>10, <2>2 DEF Hits
    <3> QED
      BY <1>7, <2>2, <3>1
  <2> QED
    BY <1>6, <1>10, <2>1, <2>2
<1>11. ASSUME NEW l \in Hits(n) PROVE LastLabels(n, l) \in get_suffix(n) /\ LastLabels(n, l) \in Names
  <2>1. l \in 1..L /\ LastLabels(n, l) \in Names
    BY <1>2 DEF Hits
  <2>2. l \in interest
    BY <1>7, <1>8, <2>1
  <2>3. l <= M
    BY <1>3, <2>2
  <2>4. CASE l <= L - 1
    <3>1. l \in 1..top
      BY <1>5, <2>1, <2>3, <2>4
    <3> QED
      BY <1>6, <2>1, <2>2, <3>1
  <2>5. CASE l = L
    <3>1. top + 1 = L
      BY <1>2, <1>5, <2>3, <2>5
    <3>2. top + 1 \in interest
      BY <2>2, <2>5, <3>1
    <3> QED
      BY <1>6, <1>7, <2>1, <2>5, <3>2
  <2> QED
    BY <2>1, <2>4, <2>5
<1>12. ASSUME NEW s \in get_suffix(n) PROVE Hash[s] \in Nat
  <2>1. PICK l \in 1..L : s = LastLabels(n, l)
    <3>1. \A l \in interest \cap 1..top : l \in 1..L
      BY <1>5
    <3>2. L \in 1..L
      OBVIOUS
    <3> QED
      BY <1>6, <1>7, <3>1, <3>2
  <2> QED
    BY <1>2, <2>1, DnlAssumption
<1> QED
  BY <1>10, <1>11, <1>12

(* The list whose turn comes first. *)
LEMMA FirstTag ==
  ASSUME NEW tags \in SUBSET Tags, NEW t \in tags, \A u \in tags : Pos(t) <= Pos(u)
  PROVE  t = IF tags \subseteq {0, 1}
             THEN IF (GfwlistFirst /\ 1 \in tags) \/ 0 \notin tags THEN 1 ELSE 0
             ELSE CHOOSE v \in tags : \A u \in tags : u <= v
<1>1. PICK M \in Nat \ {0}, g \in BOOLEAN : M = TagMax /\ g = GfwlistFirst
  BY DnlAssumption
<1>2. \A v : Pos(v) = IF v >= 2 THEN M + 1 - v ELSE IF (v = 1) <=> g THEN M ELSE M + 1
  BY <1>1 DEF Pos
<1>3. tags \subseteq 0..M /\ t \in 0..M
  BY <1>1 DEF Tags
<1>4. CASE tags \subseteq {0, 1}
  <2>1. t \in {0, 1}
    BY <1>4
  <2>2. Pos(1) = (IF g THEN M ELSE M + 1) /\ Pos(0) = (IF g THEN M + 1 ELSE M)
    BY <1>2
  <2>3. CASE g
    <3>1. Pos(1) = M /\ Pos(0) = M + 1
      BY <2>2, <2>3
    <3>2. 1 \in tags => t # 0
      BY <3>1
    <3> QED
      BY <1>1, <1>4, <2>1, <2>3, <3>2
  <2>4. CASE ~g
    <3>1. Pos(1) = M + 1 /\ Pos(0) = M
      BY <2>2, <2>4
    <3>2. 0 \in tags => t # 1
      BY <3>1
    <3> QED
      BY <1>1, <1>4, <2>1, <2>4, <3>2
  <2> QED
    BY <2>3, <2>4
<1>5. CASE ~(tags \subseteq {0, 1})
  <2>1. PICK w \in tags : w >= 2 /\ w \in 0..M
    BY <1>3, <1>5
  <2>2. Pos(w) = M + 1 - w
    BY <1>2, <2>1
  <2>3. t >= 2
    <3>1. Pos(t) <= M + 1 - w
      BY <2>1, <2>2
    <3>2. CASE ~(t >= 2)
      <4>1. Pos(t) = M \/ Pos(t) = M + 1
        BY <1>2, <3>2
      <4> QED
        BY <2>1, <3>1, <4>1
    <3> QED
      BY <3>2
  <2>4. ASSUME NEW u \in tags PROVE u <= t
    <3>1. CASE u >= 2
      <4>1. Pos(u) = M + 1 - u /\ Pos(t) = M + 1 - t
        BY <1>2, <2>3, <3>1
      <4>2. M + 1 - t <= M + 1 - u
        BY <4>1
      <4> QED
        BY <1>3, <4>2
    <3>2. CASE ~(u >= 2)
      BY <1>3, <2>3, <3>2
    <3> QED
      BY <3>1, <3>2
  <2>5. PICK v : v = CHOOSE x \in tags : \A u \in tags : u <= x
    OBVIOUS
  <2>6. v \in tags /\ \A u \in tags : u <= v
    BY <2>4, <2>5
  <2>7. v = t
    BY <1>3, <2>4, <2>6
  <2> QED
    BY <1>5, <2>5, <2>7
<1> QED
  BY <1>4, <1>5

(* Once the lists are added, a name of the lists is found, at an address    *)
(* whose list came first.                                                   *)
LEMMA FoundFirst ==
  ASSUME DnlInv, pc = "done", pool # <<>>, NEW s, Hash[s] \in Nat
  PROVE  /\ Found(maps, s) # {} <=> s \in Names
         /\ \A a \in Found(maps, s) :
              /\ pool[a].tag \in ListedIn(s) /\ ListedIn(s) \in SUBSET Tags
              /\ \A u \in ListedIn(s) : Pos(pool[a].tag) <= Pos(u)
<1>1. PoolOk(pool) /\ KeptInv
  BY DEF DnlInv, PoolInv, TodoInv
<1>2. /\ DnlOk(pool, maps) /\ NextThere(maps)
      /\ \A a \in DOMAIN pool : AddedBy(a) =>
           \E c \in KeptAll(maps) : pool[c].name = pool[a].name /\ Pos(pool[c].tag) <= Pos(pool[a].tag)
  BY <1>1 DEF KeptInv
<1>3. ASSUME NEW a \in DOMAIN pool PROVE AddedBy(a)
  <2>1. todo.list = TagMax + 1 /\ todo.name = count[OrderedTags[TagMax + 1]]
    BY DEF DnlInv, TodoInv
  <2>2. PICK u \in Tags : u = pool[a].tag
    BY <1>1, EntryOf
  <2>3. a < addr0[u] + count[u]
    BY <2>2 DEF DnlInv, ListsInv
  <2>4. PICK x \in 1..(TagMax + 1) : x = Pos(u)
    BY PosIs
  <2>5. x < TagMax + 1 \/ x = TagMax + 1
    BY DnlAssumption
  <2>6. x = TagMax + 1 => OrderedTags[TagMax + 1] = u
    BY <2>4, PosIs
  <2> QED
    BY <2>1, <2>2, <2>3, <2>4, <2>5, <2>6 DEF AddedBy
<1>4. Found(maps, s) = {a \in KeptAll(maps) : NameAt(a) = s}
  BY <1>1, <1>2, FoundIs
<1>5. KeptAll(maps) \subseteq DOMAIN pool /\ \A a, c \in KeptAll(maps) : NameAt(a) = NameAt(c) => a = c
  BY <1>1, <1>2, KeptUnique
<1>6. Found(maps, s) # {} <=> s \in Names
  BY <1>2, <1>3, <1>4, <1>5 DEF Names, NameAt
<1>7. ListedIn(s) \in SUBSET Tags
  BY <1>1, EntryOf DEF ListedIn
<1>8. ASSUME NEW a \in Found(maps, s)
      PROVE  pool[a].tag \in ListedIn(s) /\ \A u \in ListedIn(s) : Pos(pool[a].tag) <= Pos(u)
  <2>1. a \in KeptAll(maps) /\ a \in DOMAIN pool /\ pool[a].name = s
    BY <1>4, <1>5 DEF NameAt
  <2>2. pool[a].tag \in ListedIn(s)
    BY <2>1 DEF ListedIn
  <2>3. ASSUME NEW u \in ListedIn(s) PROVE Pos(pool[a].tag) <= Pos(u)
    <3>1. PICK c \in DOMAIN pool : pool[c].name = s /\ pool[c].tag = u
      BY DEF ListedIn
    <3>2. PICK d \in KeptAll(maps) : pool[d].name = s /\ Pos(pool[d].tag) <= Pos(u)
      BY <1>2, <1>3, <3>1
    <3>3. d = a
      BY <1>5, <2>1, <3>2 DEF NameAt
    <3> QED
      BY <3>2, <3>3
  <2> QED
    BY <2>2, <2>3
<1> QED
  BY <1>6, <1>7, <1>8

(* "Longest suffix match": get_tag answers with the tag of the longest      *)
(* suffix of the name in any list, and among the lists that have it, with   *)
(* the one that dnl_init loads first.                                       *)
THEOREM LookupIsLongestMatchHolds == Spec => []LookupIsLongestMatch
<1> DEFINE Level(n) == CHOOSE l \in Hits(n) : \A k \in Hits(n) : k <= l
           Listed(n) == ListedIn(LastLabels(n, Level(n)))
           Tag(n) == IF Listed(n) \subseteq {0, 1}
                     THEN IF (GfwlistFirst /\ 1 \in Listed(n)) \/ 0 \notin Listed(n) THEN 1 ELSE 0
                     ELSE CHOOSE t \in Listed(n) : \A u \in Listed(n) : u <= t
<1>1. ASSUME DnlInv, pc = "done", NEW n \in QueryNames
      PROVE  get_tag(n) = IF Hits(n) = {} THEN DefaultTag ELSE Tag(n)
  <2>1. CASE pool = <<>>
    <3>1. maps.m1 = Null /\ ~Null.notnull
      BY <1>1, <2>1 DEF DnlInv, TodoInv, Null
    <3>2. Names = {}
      BY <2>1 DEF Names
    <3>3. Hits(n) = {}
      BY <3>2 DEF Hits
    <3>4. get_tag(n) = DefaultTag
      BY <3>1 DEF get_tag
    <3> QED
      BY <3>3, <3>4
  <2>2. CASE pool # <<>>
    <3>1. maps.m1.notnull
      BY <1>1, <2>2 DEF DnlInv, TodoInv, KeptInv, DnlOk, MapOk
    <3>2. PICK S : S = {s \in get_suffix(n) : Found(maps, s) # {}}
      OBVIOUS
    <3>3. /\ {s \in get_suffix(n) : s \in Names} = {LastLabels(n, l) : l \in Hits(n)}
          /\ \A s \in get_suffix(n) : Hash[s] \in Nat
      BY <1>1, <2>2, SuffixesAre
    <3>4. \A s \in get_suffix(n) : Found(maps, s) # {} <=> s \in Names
      BY <1>1, <2>2, <3>3, FoundFirst
    <3>5. S = {LastLabels(n, l) : l \in Hits(n)}
      BY <3>2, <3>3, <3>4
    <3>6. get_tag(n) = IF S = {} THEN DefaultTag
                       ELSE pool[CHOOSE a \in Found(maps, CHOOSE s \in S : \A t \in S : Len(t) <= Len(s)) :
                                   TRUE].tag
      BY <3>1, <3>2 DEF get_tag
    <3>7. CASE Hits(n) = {}
      BY <3>5, <3>6, <3>7
    <3>8. CASE Hits(n) # {}
      <4>1. n \in Seq(STRING)
        BY DnlAssumption
      <4>2. PICK L \in Nat : L = Len(n)
        BY <4>1
      <4>3. Hits(n) \in SUBSET Nat /\ \A l \in Hits(n) : l <= L /\ l \in 1..Len(n)
        BY <4>2 DEF Hits
      <4>4. \E l \in Hits(n) : \A k \in Hits(n) : k <= l
        BY <3>8, <4>2, <4>3, Greatest
      <4>5. PICK v : v = Level(n)
        OBVIOUS
      <4>6. v \in Hits(n) /\ \A k \in Hits(n) : k <= v
        BY <4>4, <4>5
      <4>7. \A l \in Hits(n) : Len(LastLabels(n, l)) = l
        BY <4>1, <4>3, LastLabelsIs
      <4>8. PICK s : s = CHOOSE x \in S : \A t \in S : Len(t) <= Len(x)
        OBVIOUS
      <4>9. s \in S /\ \A t \in S : Len(t) <= Len(s)
        <5>1. LastLabels(n, v) \in S /\ \A t \in S : Len(t) <= Len(LastLabels(n, v))
          BY <3>5, <4>6, <4>7
        <5> QED
          BY <4>8, <5>1
      <4>10. s = LastLabels(n, v)
        <5>1. PICK k \in Hits(n) : s = LastLabels(n, k)
          BY <3>5, <4>9
        <5>2. v <= k
          BY <3>5, <4>6, <4>7, <4>9, <5>1
        <5>3. k <= v
          BY <4>6
        <5>4. k = v
          BY <4>3, <4>6, <5>2, <5>3
        <5> QED
          BY <5>1, <5>4
      <4>11. s \in get_suffix(n) /\ Found(maps, s) # {} /\ Hash[s] \in Nat
        BY <3>2, <3>3, <4>9
      <4>12. PICK a : a = CHOOSE x \in Found(maps, s) : TRUE
        OBVIOUS
      <4>13. a \in Found(maps, s)
        BY <4>11, <4>12
      <4>14. PICK tags : tags = ListedIn(s)
        OBVIOUS
      <4>15. /\ pool[a].tag \in tags /\ tags \in SUBSET Tags
             /\ \A u \in tags : Pos(pool[a].tag) <= Pos(u)
        BY <1>1, <2>2, <4>11, <4>13, <4>14, FoundFirst
      <4>16. pool[a].tag = IF tags \subseteq {0, 1}
                           THEN IF (GfwlistFirst /\ 1 \in tags) \/ 0 \notin tags THEN 1 ELSE 0
                           ELSE CHOOSE t \in tags : \A u \in tags : u <= t
        BY <4>15, FirstTag
      <4>17. tags = Listed(n)
        BY <4>5, <4>10, <4>14
      <4>18. get_tag(n) = pool[a].tag
        <5>1. S # {}
          BY <4>9
        <5> QED
          BY <3>6, <4>8, <4>12, <5>1
      <4> HIDE DEF Listed
      <4> QED
        BY <3>8, <4>16, <4>17, <4>18
    <3> QED
      BY <3>7, <3>8
  <2> QED
    BY <2>1, <2>2
<1>2. DnlInv => LookupIsLongestMatch
  BY <1>1 DEF LookupIsLongestMatch, Hits
<1> QED
  BY <1>2, DnlInvHolds, PTL

==============================================================================
