--------------------------- MODULE SequenceLemmas ---------------------------
(***************************************************************************)
(* Facts about sequences without repetition, which the session lists and   *)
(* the LRU list of the cache are: what an insertion, a removal and the     *)
(* loss of a prefix do to their elements and to their order.  Before them, *)
(* induction in the form the provers can use, and the arithmetic of the    *)
(* hash maps.                                                              *)
(***************************************************************************)
EXTENDS LinkedLists, FiniteSetTheorems, SequenceTheorems, WellFoundedInduction,
        TLAPS

(* A set of natural numbers has a least element: induction, in the form a   *)
(* first-order prover can use.                                              *)
LEMMA Least ==
  ASSUME NEW T \in SUBSET Nat, T # {}
  PROVE  \E x \in T : \A y \in T : x <= y
<1> DEFINE R == OpToRel(<, Nat)
<1>1. IsWellFoundedOn(R, Nat)
  BY NatLessThanWellFounded
<1>2. \A x, y \in Nat : y < x => <<y, x>> \in R
  BY DEF OpToRel
<1> HIDE DEF R
<1>3. \E x \in T : \A y \in T : ~(<<y, x>> \in R)
  BY <1>1, WFMin
<1>4. PICK x \in T : \A y \in T : ~(<<y, x>> \in R)
  BY <1>3
<1>5. ASSUME NEW y \in T PROVE x <= y
  <2>1. x \in Nat /\ y \in Nat
    OBVIOUS
  <2>2. ~(y < x)
    BY <1>2, <1>4, <2>1
  <2> QED
    BY <2>1, <2>2
<1> QED
  BY <1>5

(* Induction up to n, for a set of numbers that holds with each its         *)
(* successor.                                                               *)
LEMMA UpTo ==
  ASSUME NEW n \in Nat, NEW H,
         0 \in H, \A k \in 1..n : k - 1 \in H => k \in H
  PROVE  \A k \in 0..n : k \in H
<1> DEFINE T == {k \in 0..n : k \notin H}
<1>1. SUFFICES ASSUME T # {} PROVE FALSE
  OBVIOUS
<1>2. T \in SUBSET Nat
  OBVIOUS
<1>3. PICK x \in T : \A y \in T : x <= y
  BY <1>1, <1>2, Least
<1>4. x # 0 /\ x \in 1..n
  OBVIOUS
<1>5. x - 1 \in 0..n /\ ~(x <= x - 1)
  BY <1>4
<1>6. x - 1 \in H
  BY <1>3, <1>5
<1> QED
  BY <1>4, <1>6

(* A power of two is a natural number: it counts the subsets of a set. *)
LEMMA PowerOfTwo ==
  ASSUME NEW n \in Nat
  PROVE  2 ^ n \in Nat /\ 2 ^ n > 0
<1>1. IsFiniteSet(1..n) /\ Cardinality(1..n) = n
  <2>1. 1 \in Int /\ n \in Int /\ n - 1 + 1 = n /\ (1 > n => n = 0)
    OBVIOUS
  <2> QED
    BY <2>1, FS_Interval
<1>2. IsFiniteSet(SUBSET (1..n)) /\ Cardinality(SUBSET (1..n)) = 2 ^ n
  BY <1>1, FS_SUBSET
<1>3. {} \in SUBSET (1..n)
  OBVIOUS
<1>4. 2 ^ n \in Nat /\ 2 ^ n # 0
  BY <1>2, <1>3, FS_CardinalityType, FS_EmptySet
<1> QED
  BY <1>4

(* The remainder is the one number below the divisor that leaves a multiple. *)
LEMMA RemainderIsUnique ==
  ASSUME NEW a \in Int, NEW b \in Nat \ {0}, NEW q \in Int, NEW r \in Nat,
         r < b, a = q * b + r
  PROVE  a % b = r
<1>1. a = b * (a \div b) + (a % b) /\ a % b \in Nat /\ a % b < b /\ a \div b \in Int
  OBVIOUS
<1> DEFINE d == q - (a \div b)
<1>2. d * b = (a % b) - r
  BY <1>1
<1>3. d = 0
  <2>1. CASE d >= 1
    <3>1. d * b >= b
      BY <1>1, <2>1
    <3> QED
      BY <1>1, <1>2, <3>1
  <2>2. CASE d <= -1
    <3>1. d * b <= -b
      BY <1>1, <2>2
    <3> QED
      BY <1>1, <1>2, <3>1
  <2> QED
    BY <1>1, <2>1, <2>2
<1> QED
  BY <1>1, <1>2, <1>3

(* When the number of buckets doubles, a question stays where it is or      *)
(* moves to the same place of the second half (the asserts in try_resize    *)
(* and resize_map2).                                                        *)
LEMMA HomeSplits ==
  ASSUME NEW h \in Nat, NEW n \in Nat \ {0}
  PROVE  LET r == h % (2 * n)
         IN  r \in 0..(2 * n - 1) /\ h % n = IF r < n THEN r ELSE r - n
<1> DEFINE m == 2 * n
           q == h \div m
           r == h % m
<1>1. m \in Nat \ {0}
  OBVIOUS
<1>2. h = m * q + r /\ r \in Nat /\ r < m /\ q \in Int /\ h \in Int
  BY <1>1
<1>3. CASE r < n
  <2>1. 2 * q \in Int /\ h = (2 * q) * n + r
    BY <1>2
  <2>2. h % n = r
    BY <1>2, <1>3, <2>1, RemainderIsUnique
  <2> QED
    BY <1>2, <1>3, <2>2
<1>4. CASE ~(r < n)
  <2>1. 2 * q + 1 \in Int /\ r - n \in Nat /\ r - n < n /\ h = (2 * q + 1) * n + (r - n)
    BY <1>2, <1>4
  <2>2. h % n = r - n
    BY <1>2, <2>1, RemainderIsUnique
  <2> QED
    BY <1>2, <1>4, <2>2
<1> QED
  BY <1>3, <1>4

(* Less than n is its own remainder. *)
LEMMA SmallRemainder ==
  ASSUME NEW a \in Nat, NEW n \in Nat \ {0}, a < n
  PROVE  a % n = a
<1>1. 0 \in Int /\ a \in Int /\ a = 0 * n + a
  OBVIOUS
<1> QED
  BY <1>1, RemainderIsUnique

(* The next power of two is twice as large: half of the subsets of 1..n + 1 *)
(* have n + 1.                                                              *)
LEMMA PowerDoubles ==
  ASSUME NEW n \in Nat
  PROVE  2 ^ (n + 1) = 2 * 2 ^ n
<1> DEFINE W == 1..n
           V == 1..(n + 1)
           x == n + 1
           S == SUBSET W
           T == {X \in SUBSET V : x \in X}
           f == [X \in S |-> X \cup {x}]
<1>1. ASSUME NEW k \in Nat
      PROVE  IsFiniteSet(SUBSET (1..k)) /\ Cardinality(SUBSET (1..k)) = 2 ^ k
  <2>1. 1 \in Int /\ k \in Int /\ k - 1 + 1 = k /\ (1 > k => k = 0)
    OBVIOUS
  <2>2. IsFiniteSet(1..k) /\ Cardinality(1..k) = k
    BY <2>1, FS_Interval
  <2> QED
    BY <2>2, FS_SUBSET
<1>2. n + 1 \in Nat /\ x \notin W /\ V = W \cup {x}
  OBVIOUS
<1>3. S = SUBSET (1..n) /\ SUBSET V = SUBSET (1..(n + 1))
  OBVIOUS
<1> HIDE DEF W, V, x
<1>4. f \in Bijection(S, T)
  <2>1. ASSUME NEW X \in S PROVE f[X] = X \cup {x} /\ f[X] \in T
    <3>1. f[X] = X \cup {x} /\ X \subseteq W
      OBVIOUS
    <3>2. X \cup {x} \subseteq V /\ x \in X \cup {x}
      BY <1>2, <3>1
    <3> QED
      BY <3>1, <3>2
  <2>2. ASSUME NEW X \in S, NEW Y \in S, f[X] = f[Y] PROVE X = Y
    <3>1. X \cup {x} = Y \cup {x} /\ x \notin X /\ x \notin Y
      BY <1>2, <2>1, <2>2
    <3> QED
      BY <3>1
  <2>3. ASSUME NEW Y \in T PROVE \E X \in S : f[X] = Y
    <3>1. Y \ {x} \in S /\ (Y \ {x}) \cup {x} = Y
      BY <1>2
    <3> QED
      BY <2>1, <3>1
  <2> HIDE DEF S, T
  <2>4. f \in [S -> T]
    <3>1. f = [X \in S |-> f[X]]
      OBVIOUS
    <3> HIDE DEF f
    <3> QED
      BY <2>1, <3>1
  <2> HIDE DEF f
  <2> QED
    BY <2>2, <2>3, <2>4 DEF Bijection, Injection, Surjection, IsInjective
<1>5. IsFiniteSet(S) /\ Cardinality(S) = 2 ^ n
  BY <1>1, <1>3
<1>6. IsFiniteSet(T) /\ Cardinality(T) = 2 ^ n
  <2>1. ExistsBijection(S, T)
    BY <1>4 DEF ExistsBijection
  <2> QED
    BY <1>5, <2>1, FS_Bijection
<1>7. S \cap T = {} /\ S \cup T = SUBSET V
  <2>1. ASSUME NEW X \in S, X \in T PROVE FALSE
    BY <1>2, <2>1
  <2>2. ASSUME NEW X \in SUBSET V PROVE X \in S \/ X \in T
    BY <1>2
  <2>3. S \subseteq SUBSET V /\ T \subseteq SUBSET V
    BY <1>2
  <2> QED
    BY <2>1, <2>2, <2>3
<1> HIDE DEF S, T
<1>8. Cardinality(S \cup T) = Cardinality(S) + Cardinality(T) - Cardinality({})
  BY <1>5, <1>6, <1>7, FS_Union
<1>9. Cardinality({}) = 0 /\ 2 ^ n \in Nat
  BY FS_EmptySet, PowerOfTwo
<1>10. Cardinality(S \cup T) = 2 ^ (n + 1)
  BY <1>1, <1>2, <1>3, <1>7
<1> QED
  BY <1>5, <1>6, <1>8, <1>9, <1>10

-----------------------------------------------------------------------------
(* The elements of a sequence are its values at its positions. *)
LEMMA ToSetMembers ==
  ASSUME NEW S, NEW s \in Seq(S)
  PROVE  /\ ToSet(s) \subseteq S
         /\ \A k \in 1..Len(s) : s[k] \in ToSet(s)
         /\ \A x \in ToSet(s) : \E k \in 1..Len(s) : s[k] = x
BY DEF ToSet

(* A sequence without repetition is as long as it has elements. *)
LEMMA InjectiveLen ==
  ASSUME NEW S, NEW s \in Seq(S), IsInjective(s)
  PROVE  IsFiniteSet(ToSet(s)) /\ Cardinality(ToSet(s)) = Len(s)
<1>1. s \in [1..Len(s) -> ToSet(s)]
  BY DEF ToSet
<1>2. s \in Bijection(1..Len(s), ToSet(s))
  BY <1>1, ToSetMembers DEF Bijection, Injection, Surjection, IsInjective
<1>3. ExistsBijection(1..Len(s), ToSet(s))
  BY <1>2 DEF ExistsBijection
<1>4. IsFiniteSet(1..Len(s)) /\ Cardinality(1..Len(s)) = Len(s)
  <2>1. Len(s) \in Nat
    OBVIOUS
  <2>2. 1 \in Int /\ Len(s) \in Int /\ Len(s) - 1 + 1 = Len(s) /\ (1 > Len(s) => Len(s) = 0)
    BY <2>1
  <2> QED
    BY <2>2, FS_Interval
<1> QED
  BY <1>3, <1>4, FS_Bijection

(* Appending a new element. *)
LEMMA AppendNew ==
  ASSUME NEW S, NEW s \in Seq(S), IsInjective(s), NEW x \in S, x \notin ToSet(s)
  PROVE  /\ Append(s, x) \in Seq(S)
         /\ IsInjective(Append(s, x))
         /\ ToSet(Append(s, x)) = ToSet(s) \cup {x}
<1> DEFINE t == Append(s, x)
<1>1. /\ t \in Seq(S) /\ Len(t) = Len(s) + 1 /\ DOMAIN t = 1..(Len(s) + 1)
      /\ \A k \in 1..Len(s) : t[k] = s[k]
      /\ t[Len(s) + 1] = x
  OBVIOUS
<1>2. Len(s) \in Nat /\ DOMAIN s = 1..Len(s)
  OBVIOUS
<1> HIDE DEF t
<1>3. \A k \in DOMAIN t : k \in 1..Len(s) \/ k = Len(s) + 1
  BY <1>1, <1>2
<1>4. IsInjective(t)
  BY <1>1, <1>2, <1>3, ToSetMembers DEF IsInjective
<1>5. ToSet(t) = ToSet(s) \cup {x}
  BY <1>1, <1>2, <1>3 DEF ToSet
<1> QED
  BY <1>1, <1>4, <1>5 DEF t

(* Removing position k shifts what follows it by one. *)
LEMMA RemoveAtPositions ==
  ASSUME NEW S, NEW s \in Seq(S), NEW k \in 1..Len(s)
  PROVE  /\ RemoveAt(s, k) \in Seq(S)
         /\ Len(RemoveAt(s, k)) = Len(s) - 1
         /\ \A j \in 1..(Len(s) - 1) :
              RemoveAt(s, k)[j] = IF j < k THEN s[j] ELSE s[j + 1]
<1>1. Len(s) \in Nat /\ k \in Int /\ 1 <= k /\ k <= Len(s)
  OBVIOUS
<1> DEFINE a == SubSeq(s, 1, k - 1)
           b == SubSeq(s, k + 1, Len(s))
<1>2. /\ a \in Seq(S) /\ Len(a) = k - 1
      /\ \A i \in 1..(k - 1) : a[i] = s[i]
  BY <1>1, SubSeqProperties, ElementOfSeq
<1>3. /\ b \in Seq(S) /\ Len(b) = Len(s) - k
      /\ \A i \in 1..(Len(s) - k) : b[i] = s[k + i]
  BY <1>1, SubSeqProperties, ElementOfSeq
<1> HIDE DEF a, b
<1>4. /\ a \o b \in Seq(S)
      /\ Len(a \o b) = Len(a) + Len(b)
      /\ \A i \in 1..(Len(a) + Len(b)) :
           (a \o b)[i] = IF i <= Len(a) THEN a[i] ELSE b[i - Len(a)]
  BY <1>2, <1>3, ConcatProperties
<1>5. ASSUME NEW j \in 1..(Len(s) - 1)
      PROVE  (a \o b)[j] = IF j < k THEN s[j] ELSE s[j + 1]
  <2>1. CASE j < k
    <3>1. j \in 1..(k - 1) /\ j \in 1..(Len(a) + Len(b)) /\ j <= Len(a)
      BY <1>1, <1>2, <1>3, <2>1
    <3> QED
      BY <1>2, <1>4, <2>1, <3>1
  <2>2. CASE ~(j < k)
    <3>1. /\ j - (k - 1) \in 1..(Len(s) - k) /\ k + (j - (k - 1)) = j + 1
          /\ j \in 1..(Len(a) + Len(b)) /\ ~(j <= Len(a))
      BY <1>1, <1>2, <1>3, <2>2
    <3>2. (a \o b)[j] = b[j - (k - 1)]
      BY <1>2, <1>4, <3>1
    <3>3. b[j - (k - 1)] = s[j + 1]
      BY <1>3, <3>1
    <3> QED
      BY <2>2, <3>2, <3>3
  <2> QED
    BY <2>1, <2>2
<1>6. Len(a) + Len(b) = Len(s) - 1
  BY <1>1, <1>2, <1>3
<1> QED
  BY <1>4, <1>5, <1>6 DEF RemoveAt, a, b

(* Removing an element of a sequence without repetition.                    *)
LEMMA RemoveAtElements ==
  ASSUME NEW S, NEW s \in Seq(S), IsInjective(s), NEW k \in 1..Len(s)
  PROVE  /\ IsInjective(RemoveAt(s, k))
         /\ ToSet(RemoveAt(s, k)) = ToSet(s) \ {s[k]}
<1> DEFINE t == RemoveAt(s, k)
           at(j) == IF j < k THEN j ELSE j + 1
<1>1. /\ t \in Seq(S) /\ Len(t) = Len(s) - 1 /\ DOMAIN t = 1..(Len(s) - 1)
      /\ \A j \in 1..(Len(s) - 1) : t[j] = s[at(j)]
  <2>1. /\ t \in Seq(S) /\ Len(t) = Len(s) - 1
        /\ \A j \in 1..(Len(s) - 1) : t[j] = IF j < k THEN s[j] ELSE s[j + 1]
    BY RemoveAtPositions
  <2> HIDE DEF t
  <2> QED
    BY <2>1
<1>2. Len(s) \in Nat /\ DOMAIN s = 1..Len(s)
  OBVIOUS
<1> HIDE DEF t
<1>3. \A j \in 1..(Len(s) - 1) : at(j) \in 1..Len(s) /\ at(j) # k
  BY <1>2
<1>4. \A i, j \in 1..(Len(s) - 1) : at(i) = at(j) => i = j
  BY <1>2
<1>5. \A i \in 1..Len(s) : i # k => \E j \in 1..(Len(s) - 1) : at(j) = i
  <2> SUFFICES ASSUME NEW i \in 1..Len(s), i # k
               PROVE  \E j \in 1..(Len(s) - 1) : at(j) = i
    OBVIOUS
  <2>1. CASE i < k
    <3>1. i \in 1..(Len(s) - 1) /\ at(i) = i
      BY <1>2, <2>1
    <3> QED
      BY <3>1
  <2>2. CASE i > k
    <3>1. i - 1 \in 1..(Len(s) - 1) /\ at(i - 1) = i
      BY <1>2, <2>2
    <3> QED
      BY <3>1
  <2> QED
    BY <1>2, <2>1, <2>2
<1> HIDE DEF at
<1>6. IsInjective(t)
  BY <1>1, <1>2, <1>3, <1>4 DEF IsInjective
<1>7. ToSet(t) = ToSet(s) \ {s[k]}
  <2>1. ASSUME NEW x \in ToSet(t) PROVE x \in ToSet(s) \ {s[k]}
    <3>1. PICK j \in 1..(Len(s) - 1) : x = s[at(j)]
      BY <1>1 DEF ToSet
    <3> QED
      BY <1>2, <1>3, <3>1 DEF ToSet, IsInjective
  <2>2. ASSUME NEW x \in ToSet(s), x # s[k] PROVE x \in ToSet(t)
    <3>1. PICK i \in 1..Len(s) : x = s[i]
      BY <1>2 DEF ToSet
    <3>2. PICK j \in 1..(Len(s) - 1) : at(j) = i
      BY <1>5, <2>2, <3>1
    <3> QED
      BY <1>1, <3>1, <3>2 DEF ToSet
  <2> QED
    BY <2>1, <2>2
<1> QED
  BY <1>6, <1>7 DEF t

(* Unlist takes the session out of the list, if it is there. *)
LEMMA UnlistElements ==
  ASSUME NEW S, NEW s \in Seq(S), IsInjective(s), NEW x
  PROVE  /\ Unlist(s, x) \in Seq(S)
         /\ IsInjective(Unlist(s, x))
         /\ ToSet(Unlist(s, x)) = ToSet(s) \ {x}
<1>1. CASE x \in ToSet(s)
  <2> DEFINE k == CHOOSE j \in DOMAIN s : s[j] = x
  <2>1. k \in 1..Len(s) /\ s[k] = x
    BY <1>1 DEF ToSet
  <2> HIDE DEF k
  <2>2. Unlist(s, x) = RemoveAt(s, k)
    BY <1>1 DEF Unlist, k
  <2> QED
    BY <2>1, <2>2, RemoveAtPositions, RemoveAtElements
<1>2. CASE x \notin ToSet(s)
  BY <1>2 DEF Unlist
<1> QED
  BY <1>1, <1>2

(* Unlist keeps the order of the sessions that stay: what holds of any two  *)
(* of the list, the former before the latter, still does.                   *)
LEMMA UnlistOrder ==
  ASSUME NEW S, NEW s \in Seq(S), NEW x, NEW R,
         \A i, j \in DOMAIN s : i <= j => <<s[i], s[j]>> \in R
  PROVE  LET t == Unlist(s, x)
         IN  \A i, j \in DOMAIN t : i <= j => <<t[i], t[j]>> \in R
<1>1. CASE x \in ToSet(s)
  <2> DEFINE k == CHOOSE j \in DOMAIN s : s[j] = x
             t == RemoveAt(s, k)
             at(j) == IF j < k THEN j ELSE j + 1
  <2>1. k \in 1..Len(s)
    BY <1>1 DEF ToSet
  <2>2. Unlist(s, x) = t
    BY <1>1 DEF Unlist
  <2> HIDE DEF k
  <2>3. /\ DOMAIN t = 1..(Len(s) - 1) 
        /\ \A j \in 1..(Len(s) - 1) : t[j] = s[at(j)]
    BY <2>1, RemoveAtPositions
  <2> HIDE DEF t
  <2>4. /\ \A j \in 1..(Len(s) - 1) : at(j) \in 1..Len(s)
        /\ \A i, j \in 1..(Len(s) - 1) : i <= j => at(i) <= at(j)
    BY <2>1
  <2> HIDE DEF at
  <2>5. DOMAIN s = 1..Len(s)
    OBVIOUS
  <2> QED
    BY <2>2, <2>3, <2>4, <2>5
<1>2. CASE x \notin ToSet(s)
  BY <1>2 DEF Unlist
<1> QED
  BY <1>1, <1>2

(* A suffix of a sequence without repetition has the elements that are not  *)
(* in the prefix before it.                                                 *)
LEMMA SuffixElements ==
  ASSUME NEW S, NEW s \in Seq(S), IsInjective(s), NEW k \in 1..(Len(s) + 1)
  PROVE  LET t == SubSeq(s, k, Len(s))
         IN  /\ t \in Seq(S) /\ IsInjective(t)
             /\ DOMAIN t = 1..(Len(s) + 1 - k)
             /\ \A j \in 1..(Len(s) + 1 - k) : t[j] = s[k + j - 1]
             /\ ToSet(t) = ToSet(s) \ {s[j] : j \in 1..(k - 1)}
<1> DEFINE t == SubSeq(s, k, Len(s))
<1>1. Len(s) \in Nat /\ DOMAIN s = 1..Len(s) /\ k \in Int /\ 1 <= k /\ k <= Len(s) + 1
  OBVIOUS
<1>2. /\ t \in Seq(S)
      /\ Len(t) = Len(s) + 1 - k
      /\ \A j \in 1..(Len(s) + 1 - k) : t[j] = s[k + j - 1]
  <2>1. \A i \in k..Len(s) : s[i] \in S
    BY <1>1, ElementOfSeq
  <2>2. /\ t \in Seq(S)
        /\ Len(t) = IF k <= Len(s) THEN Len(s) - k + 1 ELSE 0
        /\ \A i \in 1..(Len(s) - k + 1) : t[i] = s[k + i - 1]
    BY <1>1, <2>1, SubSeqProperties
  <2> HIDE DEF t
  <2> QED
    BY <1>1, <2>2
<1> HIDE DEF t
<1>3. DOMAIN t = 1..(Len(s) + 1 - k)
  BY <1>2
<1>4. \A j \in 1..(Len(s) + 1 - k) : k + j - 1 \in 1..Len(s)
  BY <1>1
<1>5. IsInjective(t)
  <2> SUFFICES ASSUME NEW a \in DOMAIN t, NEW b \in DOMAIN t, t[a] = t[b]
               PROVE  a = b
    BY DEF IsInjective
  <2>1. k + a - 1 = k + b - 1
    BY <1>1, <1>2, <1>3, <1>4 DEF IsInjective
  <2> QED
    BY <1>1, <1>3, <2>1
<1>6. ASSUME NEW x \in ToSet(t)
      PROVE  x \in ToSet(s) /\ x \notin {s[j] : j \in 1..(k - 1)}
  <2>1. PICK j \in 1..(Len(s) + 1 - k) : x = s[k + j - 1]
    BY <1>2, <1>3 DEF ToSet
  <2>2. x \in ToSet(s)
    BY <1>1, <1>4, <2>1 DEF ToSet
  <2>3. ASSUME NEW i \in 1..(k - 1), x = s[i] PROVE FALSE
    <3>1. i \in 1..Len(s) /\ k + j - 1 \in 1..Len(s) /\ i # k + j - 1
      BY <1>1
    <3> QED
      BY <1>1, <2>1, <2>3, <3>1 DEF IsInjective
  <2> QED
    BY <2>2, <2>3
<1>7. ASSUME NEW x \in ToSet(s), x \notin {s[j] : j \in 1..(k - 1)}
      PROVE  x \in ToSet(t)
  <2>1. PICK i \in 1..Len(s) : s[i] = x
    BY <1>1 DEF ToSet
  <2>2. i \notin 1..(k - 1)
    BY <1>7, <2>1
  <2>3. i - k + 1 \in 1..(Len(s) + 1 - k) /\ k + (i - k + 1) - 1 = i
    BY <1>1, <2>2
  <2>4. t[i - k + 1] = x
    BY <1>2, <2>1, <2>3
  <2> QED
    BY <1>3, <2>3, <2>4 DEF ToSet
<1> QED
  BY <1>2, <1>3, <1>5, <1>6, <1>7 DEF t

(* The elements of a sequence are its first one and those of the rest. *)
LEMMA HeadToSet ==
  ASSUME NEW S, NEW s \in Seq(S), s # <<>>
  PROVE  ToSet(s) = {Head(s)} \cup ToSet(Tail(s))
<1>1. /\ Len(s) \in Nat \ {0} /\ Head(s) = s[1] /\ Tail(s) \in Seq(S)
      /\ Len(Tail(s)) = Len(s) - 1
      /\ \A k \in 1..Len(Tail(s)) : Tail(s)[k] = s[k + 1]
  BY HeadTailProperties, EmptySeq
<1>2. /\ DOMAIN s = 1..Len(s) /\ DOMAIN Tail(s) = 1..Len(Tail(s))
  BY <1>1, LenProperties
<1>3. ASSUME NEW x \in ToSet(s) PROVE x = s[1] \/ x \in ToSet(Tail(s))
  <2>1. PICK k \in 1..Len(s) : x = s[k]
    BY <1>2 DEF ToSet
  <2>2. CASE k # 1
    <3>1. k - 1 \in 1..Len(Tail(s)) /\ (k - 1) + 1 = k
      BY <1>1, <2>2
    <3>2. Tail(s)[k - 1] = x
      BY <1>1, <2>1, <3>1
    <3> QED
      BY <1>2, <3>1, <3>2 DEF ToSet
  <2> QED
    BY <2>1, <2>2
<1>4. ASSUME NEW x \in ToSet(Tail(s)) PROVE x \in ToSet(s)
  <2>1. PICK k \in 1..Len(Tail(s)) : x = Tail(s)[k]
    BY <1>2 DEF ToSet
  <2>2. k + 1 \in 1..Len(s) /\ x = s[k + 1]
    BY <1>1, <2>1
  <2> QED
    BY <1>2, <2>2 DEF ToSet
<1>5. s[1] \in ToSet(s)
  BY <1>1, <1>2 DEF ToSet
<1> QED
  BY <1>1, <1>3, <1>4, <1>5

(* The elements of two sequences in a row. *)
LEMMA ConcatToSet ==
  ASSUME NEW S, NEW s \in Seq(S), NEW t \in Seq(S)
  PROVE  ToSet(s \o t) = ToSet(s) \cup ToSet(t)
<1>1. s \o t \in Seq(S)
  BY ConcatProperties
<1>2. Range(s \o t) = Range(s) \cup Range(t)
  BY RangeConcatenation
<1>3. \A u \in Seq(S) : Range(u) = ToSet(u)
  BY DEF Range, ToSet
<1> QED
  BY <1>1, <1>2, <1>3

(* SetToSeq puts a finite set in some order. *)
LEMMA SetToSeqElements ==
  ASSUME NEW S, IsFiniteSet(S)
  PROVE  /\ SetToSeq(S) \in Seq(S) /\ Len(SetToSeq(S)) = Cardinality(S)
         /\ ToSet(SetToSeq(S)) = S /\ IsInjective(SetToSeq(S))
<1> DEFINE n == Cardinality(S)
           f == SetToSeq(S)
<1>1. n \in Nat /\ ExistsBijection(1..n, S)
  BY FS_CardinalityType
<1>2. \E g \in [1..n -> S] : IsInjective(g)
  BY <1>1 DEF ExistsBijection, Bijection, Injection
<1>3. f \in [1..n -> S] /\ IsInjective(f)
  BY <1>2 DEF SetToSeq
<1> HIDE DEF f
<1>4. f \in Seq(S) /\ Len(f) = n
  BY <1>1, <1>3, SeqDef
<1>5. IsFiniteSet(ToSet(f)) /\ Cardinality(ToSet(f)) = n
  BY <1>3, <1>4, InjectiveLen
<1>6. ToSet(f) \subseteq S
  BY <1>4, ToSetMembers
<1>7. ToSet(f) = S
  BY <1>5, <1>6, FS_Subset
<1> QED
  BY <1>3, <1>4, <1>7 DEF f

(* Appending an element, new or not. *)
LEMMA AppendToSet ==
  ASSUME NEW S, NEW s \in Seq(S), NEW x \in S
  PROVE  ToSet(Append(s, x)) = ToSet(s) \cup {x}
<1>1. /\ Append(s, x) \in Seq(S) /\ Len(Append(s, x)) = Len(s) + 1 /\ Len(s) \in Nat
      /\ \A k \in 1..Len(s) : Append(s, x)[k] = s[k]
      /\ Append(s, x)[Len(s) + 1] = x
  BY AppendProperties
<1>2. DOMAIN s = 1..Len(s) /\ DOMAIN Append(s, x) = 1..(Len(s) + 1)
  BY <1>1, LenProperties
<1>3. \A k \in 1..(Len(s) + 1) : k \in 1..Len(s) \/ k = Len(s) + 1
  BY <1>1
<1> QED
  BY <1>1, <1>2, <1>3 DEF ToSet

-----------------------------------------------------------------------------
(* Putting a new element in front. *)
LEMMA PrependNew ==
  ASSUME NEW S, NEW s \in Seq(S), IsInjective(s), NEW x \in S, x \notin ToSet(s)
  PROVE  /\ <<x>> \o s \in Seq(S) /\ IsInjective(<<x>> \o s)
         /\ ToSet(<<x>> \o s) = ToSet(s) \cup {x}
<1> DEFINE t == <<x>> \o s
<1>1. <<x>> \in Seq(S) /\ Len(<<x>>) = 1 /\ <<x>>[1] = x
  OBVIOUS
<1>2. /\ t \in Seq(S) /\ Len(t) = 1 + Len(s)
      /\ \A i \in 1..(1 + Len(s)) : t[i] = IF i <= 1 THEN x ELSE s[i - 1]
  BY <1>1, ConcatProperties
<1>3. Len(s) \in Nat /\ DOMAIN s = 1..Len(s) /\ DOMAIN t = 1..(1 + Len(s))
  BY <1>2, LenProperties
<1> HIDE DEF t
<1>4. t[1] = x /\ \A i \in DOMAIN t : i = 1 \/ (i - 1 \in DOMAIN s /\ t[i] = s[i - 1])
  BY <1>2, <1>3
<1>5. IsInjective(t)
  BY <1>3, <1>4, ToSetMembers DEF IsInjective
<1>6. ToSet(t) = ToSet(s) \cup {x}
  <2>1. \A i \in DOMAIN s : i + 1 \in DOMAIN t /\ t[i + 1] = s[i]
    BY <1>2, <1>3
  <2>2. 1 \in DOMAIN t
    BY <1>3
  <2> QED
    BY <1>4, <2>1, <2>2 DEF ToSet
<1> QED
  BY <1>2, <1>5, <1>6 DEF t

(* Reversing a sequence keeps its elements. *)
LEMMA ReverseElements ==
  ASSUME NEW S, NEW s \in Seq(S), IsInjective(s)
  PROVE  /\ Reverse(s) \in Seq(S) /\ IsInjective(Reverse(s))
         /\ ToSet(Reverse(s)) = ToSet(s)
<1> DEFINE t == Reverse(s)
<1>1. Len(s) \in Nat /\ DOMAIN s = 1..Len(s)
  BY LenProperties
<1>2. t = [i \in 1..Len(s) |-> s[(Len(s) - i) + 1]]
  BY DEF Reverse
<1>3. \A i \in 1..Len(s) : (Len(s) - i) + 1 \in 1..Len(s) /\ (Len(s) - ((Len(s) - i) + 1)) + 1 = i
  BY <1>1
<1>4. t \in [1..Len(s) -> S]
  BY <1>1, <1>2, <1>3
<1>5. t \in Seq(S) /\ DOMAIN t = 1..Len(s)
  BY <1>1, <1>4
<1> HIDE DEF t
<1>6. IsInjective(t)
  <2> SUFFICES ASSUME NEW i \in 1..Len(s), NEW j \in 1..Len(s), t[i] = t[j]
               PROVE  i = j
    BY <1>5 DEF IsInjective
  <2>1. s[(Len(s) - i) + 1] = s[(Len(s) - j) + 1]
    BY <1>2
  <2>2. (Len(s) - i) + 1 = (Len(s) - j) + 1
    BY <1>1, <1>3, <2>1 DEF IsInjective
  <2> QED
    BY <1>1, <2>2
<1>7. ToSet(t) = ToSet(s)
  <2>1. \A i \in 1..Len(s) : t[i] = s[(Len(s) - i) + 1]
    BY <1>2
  <2>2. ASSUME NEW i \in 1..Len(s) PROVE t[(Len(s) - i) + 1] = s[i]
    BY <1>3, <2>1
  <2>3. ToSet(t) = {t[i] : i \in 1..Len(s)} /\ ToSet(s) = {s[i] : i \in 1..Len(s)}
    BY <1>1, <1>5 DEF ToSet
  <2>4. ASSUME NEW x \in ToSet(t) PROVE x \in ToSet(s)
    <3>1. PICK i \in 1..Len(s) : x = t[i]
      BY <2>3
    <3>2. x = s[(Len(s) - i) + 1] /\ (Len(s) - i) + 1 \in 1..Len(s)
      BY <1>3, <2>1, <3>1
    <3> QED
      BY <2>3, <3>2
  <2>5. ASSUME NEW x \in ToSet(s) PROVE x \in ToSet(t)
    <3>1. PICK i \in 1..Len(s) : x = s[i]
      BY <2>3
    <3>2. x = t[(Len(s) - i) + 1] /\ (Len(s) - i) + 1 \in 1..Len(s)
      BY <1>3, <2>2, <3>1
    <3> QED
      BY <2>3, <3>2
  <2> QED
    BY <2>4, <2>5
<1> QED
  BY <1>5, <1>6, <1>7 DEF t

-----------------------------------------------------------------------------
(* t is what is left of the first n elements of s when only those in T are  *)
(* kept: at is the position in s of each.                                   *)
Thinned(s, T, n, t) ==
  \E at \in [1..Len(t) -> 1..n] :
    /\ \A i \in 1..Len(t) : t[i] = s[at[i]] /\ t[i] \in T
    /\ \A i, j \in 1..Len(t) : i < j => at[i] < at[j]
    /\ \A k \in 1..n : s[k] \in T => \E i \in 1..Len(t) : at[i] = k

(* One more element of s. *)
LEMMA ThinnedStep ==
  ASSUME NEW S, NEW s \in Seq(S), NEW T, NEW n \in 1..Len(s), NEW t \in Seq(S),
         Thinned(s, T, n - 1, t)
  PROVE  Thinned(s, T, n, IF s[n] \in T THEN Append(t, s[n]) ELSE t)
<1>1. PICK at \in [1..Len(t) -> 1..(n - 1)] :
        /\ \A i \in 1..Len(t) : t[i] = s[at[i]] /\ t[i] \in T
        /\ \A i, j \in 1..Len(t) : i < j => at[i] < at[j]
        /\ \A k \in 1..(n - 1) : s[k] \in T => \E i \in 1..Len(t) : at[i] = k
  BY DEF Thinned
<1>2. Len(t) \in Nat /\ Len(s) \in Nat /\ n \in Int /\ 1 <= n /\ n <= Len(s)
  BY LenProperties
<1>3. \A k \in 1..n : k \in 1..(n - 1) \/ k = n
  BY <1>2
<1>4. CASE s[n] \notin T
  <2>1. at \in [1..Len(t) -> 1..n]
    BY <1>1, <1>2
  <2>2. \A k \in 1..n : s[k] \in T => \E i \in 1..Len(t) : at[i] = k
    BY <1>1, <1>3, <1>4
  <2> QED
    BY <1>1, <1>4, <2>1, <2>2 DEF Thinned
<1>5. CASE s[n] \in T
  <2> DEFINE u == Append(t, s[n])
             bt == [i \in 1..(Len(t) + 1) |-> IF i <= Len(t) THEN at[i] ELSE n]
  <2>1. s[n] \in S
    BY ElementOfSeq
  <2>2. /\ Len(u) = Len(t) + 1
        /\ \A i \in 1..Len(t) : u[i] = t[i]
        /\ u[Len(t) + 1] = s[n]
    BY <2>1, AppendProperties
  <2>3. \A i \in 1..(Len(t) + 1) : (i \in 1..Len(t) /\ i <= Len(t)) \/ (i = Len(t) + 1 /\ ~(i <= Len(t)))
    BY <1>2
  <2>4. /\ \A i \in 1..Len(t) : bt[i] = at[i]
        /\ bt[Len(t) + 1] = n
    BY <1>2
  <2>5. bt \in [1..(Len(t) + 1) -> 1..n]
    <3>1. \A i \in 1..(Len(t) + 1) : bt[i] \in 1..n
      BY <1>1, <1>2, <2>3, <2>4
    <3> QED
      BY <3>1
  <2> HIDE DEF u, bt
  <2>6. \A i \in 1..(Len(t) + 1) : u[i] = s[bt[i]] /\ u[i] \in T
    BY <1>1, <1>5, <2>2, <2>3, <2>4
  <2>7. ASSUME NEW i \in 1..(Len(t) + 1), NEW j \in 1..(Len(t) + 1), i < j
        PROVE  bt[i] < bt[j]
    <3>1. i \in 1..Len(t)
      BY <1>2, <2>7
    <3>2. CASE j \in 1..Len(t)
      BY <1>1, <2>4, <2>7, <3>1, <3>2
    <3>3. CASE j = Len(t) + 1
      <4>1. at[i] \in 1..(n - 1)
        BY <1>1, <3>1
      <4> QED
        BY <1>2, <2>4, <3>1, <3>3, <4>1
    <3> QED
      BY <2>3, <3>2, <3>3
  <2>8. ASSUME NEW k \in 1..n, s[k] \in T
        PROVE  \E i \in 1..(Len(t) + 1) : bt[i] = k
    <3>1. 1..Len(t) \subseteq 1..(Len(t) + 1) /\ Len(t) + 1 \in 1..(Len(t) + 1)
      BY <1>2
    <3> QED
      BY <1>1, <1>3, <2>4, <2>8, <3>1
  <2>9. Thinned(s, T, n, u)
    <3> DEFINE m == Len(t) + 1
    <3>1. Len(u) = m
      BY <2>2
    <3>2. /\ bt \in [1..m -> 1..n]
          /\ \A i \in 1..m : u[i] = s[bt[i]] /\ u[i] \in T
          /\ \A i, j \in 1..m : i < j => bt[i] < bt[j]
          /\ \A k \in 1..n : s[k] \in T => \E i \in 1..m : bt[i] = k
      BY <2>5, <2>6, <2>7, <2>8
    <3> HIDE DEF m
    <3> QED
      BY ONLY <3>1, <3>2 DEF Thinned
  <2> QED
    BY <1>5, <2>9 DEF u
<1> QED
  BY <1>4, <1>5

(* Within keeps the elements of the set, in their order, and only them. *)
LEMMA WithinThinned ==
  ASSUME NEW S, NEW s \in Seq(S), NEW T
  PROVE  Within(s, T) \in Seq(S) /\ Thinned(s, T, Len(s), Within(s, T))
<1> DEFINE f[n \in Nat] == IF n = 0 THEN <<>>
                           ELSE IF s[n] \in T THEN Append(f[n - 1], s[n])
                           ELSE f[n - 1]
           P(n) == f[n] \in Seq(S) /\ Thinned(s, T, n, f[n])
<1>1. Within(s, T) = f[Len(s)]
  BY DEF Within
<1>2. /\ f[0] = <<>>
      /\ \A n \in Nat \ {0} : f[n] = IF s[n] \in T THEN Append(f[n - 1], s[n])
                                     ELSE f[n - 1]
  <2> DEFINE d(v, n) == IF s[n] \in T THEN Append(v, s[n]) ELSE v
  <2>1. NatInductiveDefHypothesis(f, <<>>, d)
    BY DEF NatInductiveDefHypothesis
  <2>2. NatInductiveDefConclusion(f, <<>>, d)
    BY <2>1, NatInductiveDef
  <2>3. f = [n \in Nat |-> IF n = 0 THEN <<>> ELSE d(f[n - 1], n)]
    BY <2>2 DEF NatInductiveDefConclusion
  <2> QED
    BY <2>3
<1> HIDE DEF f
<1>3. P(0)
  <2>1. <<>> \in Seq(S) /\ Len(<<>>) = 0 /\ 1..0 = {}
    OBVIOUS
  <2>2. Thinned(s, T, 0, <<>>)
    <3> DEFINE at == [i \in 1..0 |-> i]
    <3>1. at \in [1..Len(<<>>) -> 1..0]
      BY <2>1
    <3>2. Len(<<>>) = 0 /\ \A i \in 1..0 : FALSE
      BY <2>1
    <3> HIDE DEF at
    <3> QED
      BY <3>1, <3>2 DEF Thinned
  <2> QED
    BY <1>2, <2>1, <2>2
<1>4. ASSUME NEW n \in 1..Len(s), P(n - 1) PROVE P(n)
  <2>1. n \in Nat \ {0} /\ s[n] \in S
    BY ElementOfSeq, LenProperties
  <2>2. f[n] = IF s[n] \in T THEN Append(f[n - 1], s[n]) ELSE f[n - 1]
    BY <1>2, <2>1
  <2>3. Thinned(s, T, n, f[n])
    BY <1>4, <2>2, ThinnedStep
  <2>4. f[n] \in Seq(S)
    BY <1>4, <2>1, <2>2, AppendProperties
  <2> QED
    BY <2>3, <2>4
<1> HIDE DEF P
<1>5. P(Len(s))
  <2> DEFINE T0 == {n \in 0..Len(s) : ~P(n)}
  <2>1. Len(s) \in Nat
    BY LenProperties
  <2>2. SUFFICES ASSUME T0 # {} PROVE FALSE
    BY <2>1
  <2>3. T0 \in SUBSET Nat
    BY <2>1
  <2>4. PICK x \in T0 : \A y \in T0 : x <= y
    BY <2>2, <2>3, Least
  <2>5. x # 0
    BY <1>3
  <2>6. x \in 1..Len(s) /\ x - 1 \in 0..Len(s) /\ ~(x <= x - 1)
    BY <2>1, <2>5
  <2>7. P(x - 1)
    BY <2>4, <2>6
  <2> QED
    BY <1>4, <2>6, <2>7
<1> QED
  BY <1>1, <1>5 DEF P

(* The elements that Within keeps, and that a sequence without repetition   *)
(* stays so.                                                                *)
LEMMA WithinElements ==
  ASSUME NEW S, NEW s \in Seq(S), NEW T
  PROVE  /\ Within(s, T) \in Seq(S) /\ ToSet(Within(s, T)) = ToSet(s) \cap T
         /\ IsInjective(s) => IsInjective(Within(s, T))
<1> DEFINE t == Within(s, T)
<1>1. t \in Seq(S) /\ Thinned(s, T, Len(s), t)
  BY WithinThinned
<1> HIDE DEF t
<1>2. PICK at \in [1..Len(t) -> 1..Len(s)] :
        /\ \A i \in 1..Len(t) : t[i] = s[at[i]] /\ t[i] \in T
        /\ \A i, j \in 1..Len(t) : i < j => at[i] < at[j]
        /\ \A k \in 1..Len(s) : s[k] \in T => \E i \in 1..Len(t) : at[i] = k
  BY <1>1 DEF Thinned
<1>3. /\ DOMAIN t = 1..Len(t) /\ DOMAIN s = 1..Len(s)
      /\ Len(t) \in Nat /\ Len(s) \in Nat
  BY <1>1, LenProperties
<1>4. ToSet(t) = ToSet(s) \cap T
  BY <1>2, <1>3 DEF ToSet
<1>5. ASSUME IsInjective(s), NEW i \in 1..Len(t), NEW j \in 1..Len(t), t[i] = t[j]
      PROVE  i = j
  <2>1. at[i] = at[j]
    BY <1>2, <1>3, <1>5 DEF IsInjective
  <2>2. i \in Int /\ j \in Int /\ at[i] \in Int
    <3>1. at[i] \in 1..Len(s)
      BY <1>2
    <3> QED
      BY <1>3, <3>1
  <2>3. ~(i < j) /\ ~(j < i)
    BY <1>2, <2>1, <2>2
  <2> QED
    BY <2>2, <2>3
<1>6. IsInjective(s) => IsInjective(t)
  BY <1>3, <1>5 DEF IsInjective
<1> QED
  BY <1>1, <1>4, <1>6 DEF t

=============================================================================
