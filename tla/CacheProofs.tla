----------------------------- MODULE CacheProofs -----------------------------
(***************************************************************************)
(* Proofs about Cache: the hash map and the LRU list agree, the TTLs       *)
(* follow the clock, nothing is served that is too old, and the cache      *)
(* implements CacheContract; for any number of questions and messages, any *)
(* hash function, any size of the cache and any run of the clock.          *)
(***************************************************************************)
EXTENDS Cache, SequenceLemmas

-----------------------------------------------------------------------------
(* The inductive invariant *)

(* An entry whose TTL is counted from update_time. *)
Sound == {e \in Entry : e.ttl + e.update_time = e.expires /\ e.ttl_r \in Nat}

Distinct(es) == \A i, j \in DOMAIN es : Key(es[i]) = Key(es[j]) => i = j

(* b is a hash map of the questions K: each is in the chain where get looks *)
(* for it, once, and there is nothing else in the chains.                   *)
Mapped(b, K) ==
  /\ b \in Seq(Seq(Keys)) /\ (Len(b) = 0 \/ Len(b) >= InitLen)
  /\ \A i \in DOMAIN b :
       /\ IsInjective(b[i])
       /\ \A k \in ToSet(b[i]) : k \in K /\ i = Idx(b, k)
  /\ \A k \in K : InChain(b, k)

(* The entry used last, if it is still there, is the head of the list. *)
LastIsHead == last # None => list # <<>> /\ last = Key(list[1])

(* Behind the whole records of the file there is at most a part of one. *)
TailIsOne == tail = <<>> \/ \E p \in Piece : tail = <<p>>

CacheInv ==
  /\ clock \in 0..MaxTime /\ last \in Keys \cup {None}
  /\ list \in Seq(Sound) /\ db \in Seq(Sound)
  /\ Distinct(list) /\ Distinct(db) /\ TailIsOne
  /\ nitems = Len(list) /\ nitems <= CacheSize
  /\ Mapped(buckets, KeysOf(list))
  /\ LastIsHead

-----------------------------------------------------------------------------
(* The hash map *)

(* The place of a question in a map that has buckets. *)
LEMMA IdxInDomain ==
  ASSUME NEW b \in Seq(Seq(Keys)), Len(b) > 0, NEW k \in Keys
  PROVE  Idx(b, k) \in 1..Len(b) /\ Idx(b, k) \in DOMAIN b /\ b[Idx(b, k)] \in Seq(Keys)
<1>1. Len(b) \in Nat \ {0} /\ DOMAIN b = 1..Len(b)
  BY LenProperties
<1>2. Hash[k] \in Nat
  BY CacheAssumption
<1>3. Hash[k] % Len(b) \in Nat /\ Hash[k] % Len(b) < Len(b)
  BY <1>1, <1>2
<1>4. Idx(b, k) \in 1..Len(b)
  BY <1>1, <1>3 DEF Idx
<1> QED
  BY <1>1, <1>4, ElementOfSeq

(* A and B differ in k at most. *)
SameBut(k, A, B) == A \ {k} = B \ {k}

(* d is b with c as the chain of k. *)
Rechained(b, d, k, c) == Len(b) > 0 /\ d = [b EXCEPT ![Idx(b, k)] = c]

(* A map whose chain for k is replaced by one with the same questions but   *)
(* k, which may come or go.                                                 *)
LEMMA ChainReplaced ==
  ASSUME NEW b \in Seq(Seq(Keys)), NEW K \in SUBSET Keys, NEW L \in SUBSET Keys,
         Mapped(b, K),
         NEW k \in Keys, NEW c \in Seq(Keys), IsInjective(c),
         SameBut(k, L, K), SameBut(k, ToSet(c), ToSet(b[Idx(b, k)])),
         k \in ToSet(c) <=> k \in L,
         NEW d, Rechained(b, d, k, c)
  PROVE  Mapped(d, L) /\ Len(d) = Len(b)
<1> DEFINE j == Idx(b, k)
<1>1. /\ b \in Seq(Seq(Keys)) /\ Len(b) >= InitLen /\ Len(b) \in Nat /\ DOMAIN b = 1..Len(b)
      /\ Len(b) > 0
  BY LenProperties DEF Mapped, Rechained
<1>2. j \in 1..Len(b)
  BY <1>1, IdxInDomain
<1>3. /\ d \in Seq(Seq(Keys)) /\ Len(d) = Len(b) /\ DOMAIN d = DOMAIN b
      /\ d[j] = c /\ \A i \in DOMAIN b : i # j => d[i] = b[i]
  BY <1>1, <1>2, ExceptSeq DEF Rechained
<1>4. \A x : Idx(d, x) = Idx(b, x)
  BY <1>3 DEF Idx
<1>5. Idx(b, k) = j
  OBVIOUS
<1> HIDE DEF j
<1>6. ASSUME NEW i \in DOMAIN d
      PROVE  IsInjective(d[i]) /\ \A x \in ToSet(d[i]) : x \in L /\ i = Idx(d, x)
  <2>1. CASE i = j
    <3>1. ASSUME NEW x \in ToSet(c), x # k PROVE x \in L /\ j = Idx(d, x)
      <4>1. x \in ToSet(b[j])
        BY <3>1, <1>5 DEF SameBut
      <4>2. x \in K /\ j = Idx(b, x)
        BY <1>1, <1>2, <4>1 DEF Mapped
      <4> QED
        BY <1>4, <3>1, <4>2 DEF SameBut
    <3> QED
      BY <1>3, <1>4, <1>5, <2>1, <3>1
  <2>2. CASE i # j
    <3>1. d[i] = b[i] /\ i \in DOMAIN b
      BY <1>3, <2>2
    <3>2. \A x \in ToSet(b[i]) : x \in K /\ i = Idx(b, x)
      BY <3>1 DEF Mapped
    <3>3. k \notin ToSet(b[i])
      BY <1>5, <2>2, <3>2
    <3>4. IsInjective(b[i])
      BY <3>1 DEF Mapped
    <3> QED
      BY <1>4, <3>1, <3>2, <3>3, <3>4 DEF SameBut
  <2> QED
    BY <2>1, <2>2
<1>7. ASSUME NEW x \in L PROVE InChain(d, x)
  <2>1. Idx(b, x) \in DOMAIN b
    BY <1>1, IdxInDomain
  <2>2. CASE x = k
    BY <1>1, <1>3, <1>4, <1>5, <2>2 DEF InChain
  <2>3. CASE x # k
    <3>1. x \in ToSet(b[Idx(b, x)])
      BY <2>3 DEF Mapped, InChain, SameBut
    <3>2. x \in ToSet(d[Idx(b, x)])
      BY <1>3, <1>5, <2>1, <2>3, <3>1 DEF SameBut
    <3> QED
      BY <1>1, <1>3, <1>4, <3>2 DEF InChain
  <2> QED
    BY <2>2, <2>3
<1>8. Mapped(d, L)
  BY <1>1, <1>3, <1>6, <1>7 DEF Mapped
<1> QED
  BY <1>3, <1>8

(* A question is in the map when it is in its chain, and only then. *)
LEMMA InChainIff ==
  ASSUME NEW b, NEW K \in SUBSET Keys, Mapped(b, K), NEW k \in Keys
  PROVE  InChain(b, k) <=> k \in K
<1>1. k \in K => InChain(b, k)
  BY DEF Mapped
<1>2. ASSUME InChain(b, k) PROVE k \in K
  <2>1. b \in Seq(Seq(Keys)) /\ Len(b) > 0 /\ k \in ToSet(b[Idx(b, k)])
    BY <1>2 DEF InChain, Mapped
  <2>2. Idx(b, k) \in DOMAIN b
    BY <2>1, IdxInDomain
  <2> QED
    BY <2>1, <2>2 DEF Mapped
<1> QED
  BY <1>1, <1>2

(* get keeps what is in the map. *)
LEMMA GetMapped ==
  ASSUME NEW b, NEW K \in SUBSET Keys, Mapped(b, K), NEW k \in Keys
  PROVE  Mapped(map_get(b, k), K) /\ Len(map_get(b, k)) = Len(b)
<1>1. CASE ~InChain(b, k)
  BY <1>1 DEF map_get
<1>2. CASE InChain(b, k)
  <2> DEFINE s == b[Idx(b, k)]
  <2>0. PICK c : c = <<k>> \o Unlist(s, k)
    OBVIOUS
  <2>1. b \in Seq(Seq(Keys)) /\ Len(b) > 0 /\ k \in ToSet(s)
    BY <1>2 DEF InChain, Mapped
  <2>2. Idx(b, k) \in DOMAIN b /\ s \in Seq(Keys)
    BY <2>1, IdxInDomain
  <2>3. IsInjective(s) /\ k \in K
    BY <2>1, <2>2 DEF Mapped
  <2>4. Rechained(b, map_get(b, k), k, c)
    BY <1>2, <2>0, <2>1 DEF map_get, Rechained
  <2>5. b[Idx(b, k)] = s
    OBVIOUS
  <2> HIDE DEF s
  <2>6. Unlist(s, k) \in Seq(Keys) /\ IsInjective(Unlist(s, k)) /\ ToSet(Unlist(s, k)) = ToSet(s) \ {k}
    BY <2>2, <2>3, UnlistElements
  <2>7. c \in Seq(Keys) /\ IsInjective(c) /\ ToSet(c) = (ToSet(s) \ {k}) \cup {k}
    BY <2>0, <2>6, PrependNew
  <2>8. SameBut(k, ToSet(c), ToSet(b[Idx(b, k)])) /\ (k \in ToSet(c) <=> k \in K)
    BY <2>3, <2>5, <2>7 DEF SameBut
  <2>9. /\ K \in SUBSET Keys /\ k \in Keys /\ SameBut(k, K, K) /\ Mapped(b, K)
        /\ c \in Seq(Keys) /\ IsInjective(c) /\ b \in Seq(Seq(Keys))
    BY <2>1, <2>7 DEF SameBut
  <2> QED
    BY ONLY <2>4, <2>8, <2>9, ChainReplaced
<1> QED
  BY <1>1, <1>2

(* del takes the question out of the map. *)
LEMMA DelMapped ==
  ASSUME NEW b, NEW K \in SUBSET Keys, Mapped(b, K), NEW k \in Keys
  PROVE  Mapped(map_del(b, k), K \ {k}) /\ Len(map_del(b, k)) = Len(b)
<1>1. CASE ~InChain(b, k)
  <2>1. K \ {k} = K
    BY <1>1, InChainIff
  <2> QED
    BY <1>1, <2>1 DEF map_del
<1>2. CASE InChain(b, k)
  <2> DEFINE s == b[Idx(b, k)]
  <2>0. PICK c, L : c = Unlist(s, k) /\ L = K \ {k}
    OBVIOUS
  <2>1. b \in Seq(Seq(Keys)) /\ Len(b) > 0 /\ k \in ToSet(s)
    BY <1>2 DEF InChain, Mapped
  <2>2. Idx(b, k) \in DOMAIN b /\ s \in Seq(Keys)
    BY <2>1, IdxInDomain
  <2>3. IsInjective(s)
    BY <2>1, <2>2 DEF Mapped
  <2>4. Rechained(b, map_del(b, k), k, c)
    BY <1>2, <2>0, <2>1 DEF map_del, Rechained
  <2>5. b[Idx(b, k)] = s
    OBVIOUS
  <2> HIDE DEF s
  <2>6. c \in Seq(Keys) /\ IsInjective(c) /\ ToSet(c) = ToSet(s) \ {k}
    BY <2>0, <2>2, <2>3, UnlistElements
  <2>7. SameBut(k, ToSet(c), ToSet(b[Idx(b, k)])) /\ (k \in ToSet(c) <=> k \in L)
    BY <2>0, <2>5, <2>6 DEF SameBut
  <2>8. L \in SUBSET Keys /\ SameBut(k, L, K)
    BY <2>0 DEF SameBut
  <2>9. Mapped(map_del(b, k), L) /\ Len(map_del(b, k)) = Len(b)
    <3>1. /\ K \in SUBSET Keys /\ k \in Keys /\ Mapped(b, K)
          /\ c \in Seq(Keys) /\ IsInjective(c) /\ b \in Seq(Seq(Keys))
      BY <2>1, <2>6
    <3> QED
      BY ONLY <2>4, <2>7, <2>8, <3>1, ChainReplaced
  <2> QED
    BY <2>0, <2>9
<1> QED
  BY <1>1, <1>2

(* Growing the array: every chain is split between its place and the same   *)
(* place of the second half, and nothing is lost.                           *)
LEMMA GrowMapped ==
  ASSUME NEW b \in Seq(Seq(Keys)), NEW K \in SUBSET Keys, Mapped(b, K), Len(b) > 0,
         NEW n \in Nat, ~(n < (Len(b) * 75) \div 100)
  PROVE  Mapped(try_resize(b, n), K) /\ Len(try_resize(b, n)) = 2 * Len(b)
<1> DEFINE l == Len(b)
           m == 2 * l
           AtHome(i) == {k \in Keys : (Hash[k] % m) + 1 = i}
           r == try_resize(b, n)
<1>1. l \in Nat \ {0} /\ DOMAIN b = 1..l /\ l >= InitLen /\ InitLen \in Nat \ {0}
  BY LenProperties, CacheAssumption DEF Mapped
<1>2. NewLen(b) = m /\ m \in Nat \ {0}
  BY <1>1 DEF NewLen
<1>3. r = [i \in 1..m |-> IF i <= l THEN Within(b[i], AtHome(i))
                          ELSE IF l = 0 THEN <<>>
                          ELSE Reverse(Within(b[((i - 1) % l) + 1], AtHome(i)))]
  BY <1>2 DEF try_resize
<1>4. ASSUME NEW i \in 1..m, ~(i <= l) PROVE ((i - 1) % l) + 1 = i - l /\ i - l \in 1..l
  <2>1. i - 1 \in Int /\ 1 \in Int /\ (i - 1) - l \in Nat /\ (i - 1) - l < l
        /\ i - 1 = 1 * l + ((i - 1) - l)
    BY <1>1, <1>4
  <2>2. (i - 1) % l = (i - 1) - l
    BY <1>1, <2>1, RemainderIsUnique
  <2> QED
    BY <1>1, <1>4, <2>1, <2>2
<1> DEFINE From(i) == IF i <= l THEN i ELSE i - l
<1>5. ASSUME NEW i \in 1..m PROVE From(i) \in 1..l
  BY <1>1, <1>4
<1> HIDE DEF l, m, AtHome, r
<1>6. ASSUME NEW i \in 1..m
      PROVE  /\ r[i] \in Seq(Keys) /\ IsInjective(r[i])
             /\ ToSet(r[i]) = ToSet(b[From(i)]) \cap AtHome(i)
  <2> DEFINE c == b[From(i)]
             w == Within(c, AtHome(i))
  <2>1. c \in Seq(Keys) /\ IsInjective(c)
    BY <1>1, <1>5, ElementOfSeq DEF Mapped, l
  <2> HIDE DEF c
  <2>2. w \in Seq(Keys) /\ IsInjective(w) /\ ToSet(w) = ToSet(c) \cap AtHome(i)
    BY <2>1, WithinElements
  <2>3. Reverse(w) \in Seq(Keys) /\ IsInjective(Reverse(w)) /\ ToSet(Reverse(w)) = ToSet(w)
    BY <2>2, ReverseElements
  <2>4. r[i] = w \/ r[i] = Reverse(w)
    BY <1>1, <1>3, <1>4 DEF c
  <2> HIDE DEF w
  <2>5. ToSet(r[i]) = ToSet(c) \cap AtHome(i)
    BY <2>2, <2>3, <2>4
  <2> QED
    BY <2>2, <2>3, <2>4, <2>5 DEF c
<1>7. r \in Seq(Seq(Keys)) /\ Len(r) = m /\ DOMAIN r = 1..m
  <2>1. DOMAIN r = 1..m /\ r = [i \in 1..m |-> r[i]]
    BY <1>3
  <2>2. \A i \in 1..m : r[i] \in Seq(Keys)
    BY <1>6
  <2>3. r \in [1..m -> Seq(Keys)]
    BY <2>1, <2>2
  <2> QED
    BY <1>2, <2>1, <2>3
<1>8. ASSUME NEW i \in 1..m, NEW k \in ToSet(r[i]) PROVE k \in K /\ i = Idx(r, k)
  <2>1. k \in ToSet(b[From(i)]) /\ k \in AtHome(i)
    BY <1>6
  <2>2. k \in K
    BY <1>1, <1>5, <2>1 DEF Mapped, l
  <2>3. i = Idx(r, k)
    BY <1>7, <2>1 DEF AtHome, Idx
  <2> QED
    BY <2>2, <2>3
<1>9. ASSUME NEW k \in K PROVE InChain(r, k)
  <2> DEFINE h == Hash[k]
             i == (h % m) + 1
  <2>1. h \in Nat /\ k \in ToSet(b[(h % l) + 1])
    BY CacheAssumption DEF Mapped, InChain, Idx, l
  <2>2. h % m \in 0..(m - 1) /\ h % l = IF h % m < l THEN h % m ELSE (h % m) - l
    BY <1>1, <2>1, HomeSplits DEF m
  <2>3. i \in 1..m /\ From(i) = (h % l) + 1
    BY <1>1, <1>2, <2>2
  <2>4. k \in AtHome(i)
    BY DEF AtHome
  <2>5. Idx(r, k) = i
    BY <1>7 DEF Idx
  <2> HIDE DEF i, h
  <2>6. k \in ToSet(r[i])
    BY <1>6, <2>1, <2>3, <2>4
  <2> QED
    BY <1>2, <1>7, <2>5, <2>6 DEF InChain
<1>10. Mapped(r, K)
  <2>1. Len(r) >= InitLen
    BY <1>1, <1>7 DEF m
  <2> QED
    BY <1>6, <1>7, <1>8, <1>9, <2>1 DEF Mapped
<1> QED
  BY <1>7, <1>10 DEF r, m, l

(* Before an add there are buckets, and the map is what it was. *)
LEMMA ResizeMapped ==
  ASSUME NEW b, NEW K \in SUBSET Keys, Mapped(b, K), NEW n \in Nat
  PROVE  Mapped(try_resize(b, n), K) /\ Len(try_resize(b, n)) > 0
<1> DEFINE r == try_resize(b, n)
<1>1. b \in Seq(Seq(Keys)) /\ Len(b) \in Nat
  BY LenProperties DEF Mapped
<1>2. CASE n < (Len(b) * 75) \div 100
  <2>1. Len(b) # 0
    BY <1>2
  <2> QED
    BY <1>1, <1>2, <2>1 DEF try_resize
<1>3. CASE ~(n < (Len(b) * 75) \div 100) /\ Len(b) > 0
  <2>1. Mapped(r, K) /\ Len(r) = 2 * Len(b)
    BY <1>1, <1>3, GrowMapped
  <2> QED
    BY <1>1, <1>3, <2>1
<1>4. CASE Len(b) = 0
  <2>1. K = {}
    BY <1>4 DEF Mapped, InChain
  <2>2. InitLen \in Nat \ {0} /\ NewLen(b) = InitLen
    BY <1>4, CacheAssumption DEF NewLen
  <2>3. r = [i \in 1..InitLen |-> <<>>]
    <3>1. ~(n < (Len(b) * 75) \div 100)
      BY <1>4
    <3>2. \A i \in 1..InitLen : ~(i <= Len(b))
      BY <1>4, <2>2
    <3> QED
      BY <1>4, <2>2, <3>1, <3>2 DEF try_resize
  <2> HIDE DEF r
  <2>4. <<>> \in Seq(Keys) /\ ToSet(<<>>) = {} /\ IsInjective(<<>>)
    BY DEF ToSet, IsInjective
  <2>5. r \in Seq(Seq(Keys)) /\ Len(r) = InitLen /\ DOMAIN r = 1..InitLen
    BY <2>2, <2>3, <2>4
  <2>6. \A i \in DOMAIN r : r[i] = <<>>
    BY <2>3, <2>5
  <2>7. Mapped(r, K)
    BY <2>1, <2>2, <2>4, <2>5, <2>6 DEF Mapped
  <2> QED
    BY <2>2, <2>5, <2>7 DEF r
<1> QED
  BY <1>1, <1>2, <1>3, <1>4

(* add puts a new question into the map. *)
LEMMA AddMapped ==
  ASSUME NEW b, NEW K \in SUBSET Keys, Mapped(b, K), NEW n \in Nat,
         NEW k \in Keys, k \notin K
  PROVE  Mapped(map_add(b, n, k), K \cup {k})
<1>0. PICK r, L : r = try_resize(b, n) /\ L = K \cup {k}
  OBVIOUS
<1>1. Mapped(r, K) /\ Len(r) > 0 /\ r \in Seq(Seq(Keys))
  <2>1. Mapped(r, K) /\ Len(r) > 0
    BY <1>0, ResizeMapped
  <2> QED
    BY <2>1 DEF Mapped
<1>2. PICK c : c = <<k>> \o r[Idx(r, k)]
  OBVIOUS
<1>3. Idx(r, k) \in DOMAIN r /\ r[Idx(r, k)] \in Seq(Keys)
  BY <1>1, IdxInDomain
<1>4. IsInjective(r[Idx(r, k)]) /\ k \notin ToSet(r[Idx(r, k)])
  BY <1>1, <1>3 DEF Mapped
<1>5. /\ c \in Seq(Keys) /\ IsInjective(c)
      /\ ToSet(c) = ToSet(r[Idx(r, k)]) \cup {k}
  BY <1>2, <1>3, <1>4, PrependNew
<1>6. Rechained(r, map_add(b, n, k), k, c)
  BY <1>0, <1>1, <1>2 DEF map_add, Rechained
<1>7. /\ SameBut(k, ToSet(c), ToSet(r[Idx(r, k)])) /\ (k \in ToSet(c) <=> k \in L)
      /\ SameBut(k, L, K) /\ L \in SUBSET Keys
  BY <1>0, <1>5 DEF SameBut
<1>8. /\ K \in SUBSET Keys /\ k \in Keys /\ Mapped(r, K)
      /\ c \in Seq(Keys) /\ IsInjective(c) /\ r \in Seq(Seq(Keys))
  BY <1>1, <1>5
<1>9. Mapped(map_add(b, n, k), L)
  BY ONLY <1>6, <1>7, <1>8, ChainReplaced
<1> QED
  BY <1>0, <1>9

(* An empty map. *)
LEMMA EmptyMapped ==
  Mapped(<<>>, {})
<1>1. <<>> \in Seq(Seq(Keys)) /\ Len(<<>>) = 0 /\ DOMAIN <<>> = {}
  OBVIOUS
<1> QED
  BY <1>1 DEF Mapped

(* load fills the map with the questions of the file. *)
LEMMA LoadMapped ==
  ASSUME NEW es \in Seq(Entry), Distinct(es)
  PROVE  Mapped(MapOf(es), KeysOf(es))
<1> DEFINE f[n \in Nat] == IF n = 0 THEN <<>> ELSE map_add(f[n - 1], n - 1, Key(es[n]))
           Some(n) == {Key(es[i]) : i \in 1..n}
           P(n) == Mapped(f[n], Some(n))
<1>1. MapOf(es) = f[Len(es)]
  BY DEF MapOf
<1>2. f[0] = <<>> /\ \A n \in Nat \ {0} : f[n] = map_add(f[n - 1], n - 1, Key(es[n]))
  <2> DEFINE d(v, n) == map_add(v, n - 1, Key(es[n]))
  <2>1. NatInductiveDefHypothesis(f, <<>>, d)
    BY DEF NatInductiveDefHypothesis
  <2>2. NatInductiveDefConclusion(f, <<>>, d)
    BY <2>1, NatInductiveDef
  <2>3. f = [n \in Nat |-> IF n = 0 THEN <<>> ELSE d(f[n - 1], n)]
    BY <2>2 DEF NatInductiveDefConclusion
  <2> QED
    BY <2>3
<1> HIDE DEF f
<1>3. Len(es) \in Nat /\ DOMAIN es = 1..Len(es)
  BY LenProperties
<1>4. \A i \in 1..Len(es) : Key(es[i]) \in Keys
  <2>1. \A i \in 1..Len(es) : es[i] \in Entry
    BY <1>3, ElementOfSeq
  <2> QED
    BY <2>1, CacheAssumption DEF Entry, Key
<1>5. P(0)
  <2>1. Some(0) = {}
    OBVIOUS
  <2> QED
    BY <1>2, <2>1, EmptyMapped
<1>6. ASSUME NEW n \in 1..Len(es), P(n - 1) PROVE P(n)
  <2>1. n \in Nat \ {0} /\ n - 1 \in Nat /\ \A i \in 1..(n - 1) : i \in 1..Len(es) /\ i # n
    BY <1>3
  <2>2. Key(es[n]) \notin Some(n - 1)
    BY <1>3, <2>1 DEF Distinct
  <2>3. Some(n - 1) \in SUBSET Keys
    BY <1>4, <2>1
  <2>4. Some(n) = Some(n - 1) \cup {Key(es[n])}
    <3>1. \A i \in 1..n : i \in 1..(n - 1) \/ i = n
      BY <2>1
    <3>2. n \in 1..n /\ \A i \in 1..(n - 1) : i \in 1..n
      BY <2>1
    <3> QED
      BY <3>1, <3>2
  <2> HIDE DEF Some
  <2>5. Mapped(map_add(f[n - 1], n - 1, Key(es[n])), Some(n - 1) \cup {Key(es[n])})
    BY <1>4, <1>6, <2>1, <2>2, <2>3, AddMapped
  <2> QED
    BY <1>2, <2>1, <2>4, <2>5
<1>7. Some(Len(es)) = KeysOf(es)
  BY <1>3 DEF KeysOf
<1> HIDE DEF P, Some
<1>8. P(Len(es))
  <2> DEFINE T == {n \in 0..Len(es) : ~P(n)}
  <2>1. SUFFICES ASSUME T # {} PROVE FALSE
    BY <1>3
  <2>2. T \in SUBSET Nat
    BY <1>3
  <2>3. PICK x \in T : \A y \in T : x <= y
    BY <2>1, <2>2, Least
  <2>4. x # 0
    BY <1>5
  <2>5. x \in 1..Len(es) /\ x - 1 \in 0..Len(es) /\ ~(x <= x - 1)
    BY <1>3, <2>4
  <2>6. P(x - 1)
    BY <2>3, <2>5
  <2> QED
    BY <1>6, <2>5, <2>6
<1> QED
  BY <1>1, <1>7, <1>8 DEF P

-----------------------------------------------------------------------------
(* Entries *)

(* The fields of an entry. *)
LEMMA SoundFields ==
  ASSUME NEW e \in Sound
  PROVE  /\ e.msg \in Messages /\ e.ttl \in Int /\ e.ttl_r \in Nat
         /\ e.update_time \in Nat /\ e.rttl \in Nat \ {0} /\ e.added_ip \in BOOLEAN
         /\ e.expires \in Nat /\ e.ttl + e.update_time = e.expires
         /\ Key(e) \in Keys /\ Key(e) # None
<1>1. e \in Entry /\ e.ttl + e.update_time = e.expires /\ e.ttl_r \in Nat
  BY DEF Sound
<1>2. /\ e.msg \in Messages /\ e.ttl \in Int /\ e.update_time \in Nat
      /\ e.rttl \in Nat \ {0} /\ e.added_ip \in BOOLEAN /\ e.expires \in Nat
  BY <1>1 DEF Entry
<1>3. Key(e) \in Keys
  BY <1>2, CacheAssumption DEF Key
<1>4. Key(e) # None
  BY DEF Key, question, None
<1> QED
  BY <1>1, <1>2, <1>3, <1>4

(* The TTL of an entry is what is left until it expires. *)
LEMMA TtlLeft ==
  ASSUME NEW e \in Sound, clock \in Nat
  PROVE  get_ttl(e) = e.expires - (IF clock > e.update_time THEN clock ELSE e.update_time)
BY SoundFields DEF get_ttl, Elapsed

(* A hit brings the entry up to date. *)
LEMMA UpdatedEntry ==
  ASSUME NEW e \in Sound, clock \in Nat
  PROVE  LET u == [update_ttl(e) EXCEPT !.added_ip = TRUE]
         IN  /\ u \in Sound /\ u.msg = e.msg /\ u.added_ip = TRUE
             /\ u.expires = e.expires /\ u.ttl = get_ttl(e) /\ u.ttl_r = e.ttl_r
<1> DEFINE u == [update_ttl(e) EXCEPT !.added_ip = TRUE]
           t == Elapsed(e)
<1>1. e \in Entry
  BY DEF Sound
<1>2. t \in Nat /\ (t # 0 => e.update_time + t = clock)
  BY SoundFields DEF Elapsed
<1>3. CASE t = 0
  <2>1. u = [e EXCEPT !.added_ip = TRUE]
    BY <1>3 DEF update_ttl
  <2>2. u \in Entry /\ u.msg = e.msg /\ u.added_ip = TRUE /\ u.expires = e.expires
        /\ u.ttl = e.ttl /\ u.ttl_r = e.ttl_r /\ u.update_time = e.update_time
    BY <1>1, <2>1 DEF Entry
  <2>3. get_ttl(e) = e.ttl
    BY <1>3, SoundFields DEF get_ttl
  <2> QED
    BY <2>2, <2>3, SoundFields DEF Sound
<1>4. CASE t # 0
  <2>1. u = [e EXCEPT !.ttl = @ - t, !.rttl = AtLeast1(@ - t), !.update_time = clock,
                      !.added_ip = TRUE]
    BY <1>1, <1>4 DEF update_ttl, Entry
  <2>2. AtLeast1(e.rttl - t) \in Nat \ {0} /\ e.ttl - t \in Int
    BY <1>2, SoundFields DEF AtLeast1
  <2>3. u \in Entry /\ u.msg = e.msg /\ u.added_ip = TRUE /\ u.expires = e.expires
        /\ u.ttl = e.ttl - t /\ u.ttl_r = e.ttl_r /\ u.update_time = clock
    BY <1>1, <2>1, <2>2 DEF Entry
  <2>4. u.ttl + u.update_time = u.expires
    BY <1>2, <1>4, <2>3, SoundFields
  <2> QED
    BY <2>3, <2>4, SoundFields DEF Sound, get_ttl
<1> QED
  BY <1>3, <1>4

(* The entry made of a reply. *)
LEMMA NewEntrySound ==
  ASSUME NEW m \in Messages, NEW ttl \in Nat \ {0}, clock \in Nat
  PROVE  LET e == NewEntry(m, ttl)
         IN  e \in Sound /\ e.msg = m /\ e.added_ip = TRUE /\ Key(e) = question(m)
<1> DEFINE e == NewEntry(m, ttl)
<1>1. (ttl * Refresh) \div 100 \in Nat
  <2>1. Refresh \in Nat
    BY CacheAssumption
  <2>2. ttl * Refresh \in Nat
    BY <2>1
  <2> HIDE DEF e
  <2> QED
    BY <2>2
<1>2. e = [msg |-> m, ttl |-> ttl, ttl_r |-> (ttl * Refresh) \div 100,
           update_time |-> clock, rttl |-> ttl, added_ip |-> TRUE, expires |-> clock + ttl]
  BY DEF NewEntry
<1>3. PICK r \in Nat : r = (ttl * Refresh) \div 100
  BY <1>1
<1> HIDE DEF e
<1>4. e = [msg |-> m, ttl |-> ttl, ttl_r |-> r, update_time |-> clock, rttl |-> ttl,
           added_ip |-> TRUE, expires |-> clock + ttl]
  BY <1>2, <1>3
<1>5. e \in Entry
  BY <1>4 DEF Entry
<1>6. e \in Sound
  BY <1>4, <1>5 DEF Sound
<1> QED
  BY <1>4, <1>6 DEF e, Key

-----------------------------------------------------------------------------
(* Lists of entries with distinct questions *)

(* A question of the list is that of one entry. *)
LEMMA KeysOfList ==
  ASSUME NEW es \in Seq(Sound)
  PROVE  /\ DOMAIN es = 1..Len(es) /\ Len(es) \in Nat
         /\ \A i \in 1..Len(es) : es[i] \in Sound /\ Key(es[i]) \in KeysOf(es)
         /\ \A k \in KeysOf(es) : \E i \in 1..Len(es) : Key(es[i]) = k
         /\ KeysOf(es) \in SUBSET Keys /\ None \notin KeysOf(es)
<1>1. DOMAIN es = 1..Len(es) /\ Len(es) \in Nat
  BY LenProperties
<1>2. \A i \in 1..Len(es) : es[i] \in Sound
  BY <1>1, ElementOfSeq
<1>3. \A i \in 1..Len(es) : Key(es[i]) \in Keys /\ Key(es[i]) # None
  BY <1>2, SoundFields
<1> QED
  BY <1>1, <1>2, <1>3 DEF KeysOf

(* Putting an entry in front. *)
LEMMA PrependEntry ==
  ASSUME NEW es \in Seq(Sound), Distinct(es), NEW e \in Sound, Key(e) \notin KeysOf(es)
  PROVE  LET l == <<e>> \o es
         IN  /\ l \in Seq(Sound) /\ Distinct(l) /\ Len(l) = Len(es) + 1 /\ l[1] = e
             /\ KeysOf(l) = KeysOf(es) \cup {Key(e)}
             /\ \A i \in 1..Len(es) : l[i + 1] = es[i]
<1> DEFINE l == <<e>> \o es
<1>1. <<e>> \in Seq(Sound) /\ Len(<<e>>) = 1 /\ <<e>>[1] = e
  OBVIOUS
<1>2. /\ l \in Seq(Sound) /\ Len(l) = 1 + Len(es)
      /\ \A i \in 1..(1 + Len(es)) : l[i] = IF i <= 1 THEN e ELSE es[i - 1]
  BY <1>1, ConcatProperties
<1> HIDE DEF l
<1>3. Len(es) \in Nat /\ DOMAIN es = 1..Len(es) /\ DOMAIN l = 1..(1 + Len(es))
  BY <1>2, LenProperties
<1>4. l[1] = e /\ \A i \in DOMAIN l : i = 1 \/ (i - 1 \in DOMAIN es /\ l[i] = es[i - 1])
  BY <1>2, <1>3
<1>5. \A i \in 1..Len(es) : i + 1 \in DOMAIN l /\ l[i + 1] = es[i]
  BY <1>2, <1>3
<1>6. Distinct(l)
  <2> SUFFICES ASSUME NEW i \in DOMAIN l, NEW j \in DOMAIN l, Key(l[i]) = Key(l[j])
               PROVE  i = j
    BY DEF Distinct
  <2>1. \A n \in DOMAIN es : Key(es[n]) # Key(e)
    BY DEF KeysOf
  <2>2. CASE i = 1 \/ j = 1
    BY <1>4, <2>1, <2>2
  <2>3. CASE i # 1 /\ j # 1
    <3>1. i - 1 = j - 1
      BY <1>4, <2>3 DEF Distinct
    <3> QED
      BY <1>3, <3>1
  <2> QED
    BY <2>2, <2>3
<1>7. KeysOf(l) = KeysOf(es) \cup {Key(e)}
  <2>1. 1 \in DOMAIN l
    BY <1>3
  <2> QED
    BY <1>3, <1>4, <1>5, <2>1 DEF KeysOf
<1> QED
  BY <1>2, <1>3, <1>4, <1>5, <1>6, <1>7 DEF l

(* Taking the entry of a question out of the list. *)
LEMMA OthersEntries ==
  ASSUME list \in Seq(Sound), Distinct(list), NEW k \in KeysOf(list)
  PROVE  /\ Pos(k) \in 1..Len(list) /\ Key(list[Pos(k)]) = k
         /\ Others(k) \in Seq(Sound) /\ Distinct(Others(k))
         /\ Len(Others(k)) = Len(list) - 1 /\ KeysOf(Others(k)) = KeysOf(list) \ {k}
         /\ \A j \in 1..(Len(list) - 1) :
              Others(k)[j] = IF j < Pos(k) THEN list[j] ELSE list[j + 1]
<1>1. Len(list) \in Nat /\ DOMAIN list = 1..Len(list)
  BY LenProperties
<1>2. Pos(k) \in 1..Len(list) /\ Key(list[Pos(k)]) = k
  BY <1>1 DEF Pos, KeysOf
<1> DEFINE p == Pos(k)
           t == Others(k)
           at(j) == IF j < p THEN j ELSE j + 1
<1>3. /\ t \in Seq(Sound) /\ Len(t) = Len(list) - 1
      /\ \A j \in 1..(Len(list) - 1) : t[j] = IF j < p THEN list[j] ELSE list[j + 1]
  BY <1>2, RemoveAtPositions DEF Others
<1> HIDE DEF t
<1>4. DOMAIN t = 1..(Len(list) - 1)
  BY <1>3, LenProperties
<1> HIDE DEF p
<1>5. p \in 1..Len(list) /\ Key(list[p]) = k
  BY <1>2 DEF p
<1>6. ASSUME NEW j \in DOMAIN t
      PROVE  at(j) \in 1..Len(list) /\ at(j) # p /\ t[j] = list[at(j)]
  BY <1>1, <1>3, <1>4, <1>5
<1>7. \A i, j \in DOMAIN t : at(i) = at(j) => i = j
  BY <1>1, <1>4, <1>5
<1>8. ASSUME NEW i \in 1..Len(list), i # p PROVE \E j \in DOMAIN t : at(j) = i
  <2>1. CASE i < p
    <3>1. i \in DOMAIN t /\ at(i) = i
      BY <1>1, <1>4, <1>5, <2>1
    <3> QED
      BY <3>1
  <2>2. CASE ~(i < p)
    <3>1. i - 1 \in DOMAIN t /\ at(i - 1) = i
      BY <1>1, <1>4, <1>5, <1>8, <2>2
    <3> QED
      BY <3>1
  <2> QED
    BY <2>1, <2>2
<1> HIDE DEF at
<1>9. Distinct(t)
  BY <1>1, <1>6, <1>7 DEF Distinct
<1>10. KeysOf(t) = KeysOf(list) \ {k}
  <2>1. ASSUME NEW x \in KeysOf(t) PROVE x \in KeysOf(list) \ {k}
    <3>1. PICK j \in DOMAIN t : x = Key(t[j])
      BY <2>1 DEF KeysOf
    <3>2. x = Key(list[at(j)]) /\ at(j) \in DOMAIN list /\ at(j) # p
      BY <1>1, <1>6, <3>1
    <3>3. x # k
      BY <1>1, <1>5, <3>2 DEF Distinct
    <3> QED
      BY <3>2, <3>3 DEF KeysOf
  <2>2. ASSUME NEW x \in KeysOf(list), x # k PROVE x \in KeysOf(t)
    <3>1. PICK i \in 1..Len(list) : x = Key(list[i])
      BY <1>1 DEF KeysOf
    <3>2. PICK j \in DOMAIN t : at(j) = i
      BY <1>5, <1>8, <2>2, <3>1
    <3> QED
      BY <1>6, <3>1, <3>2 DEF KeysOf
  <2> QED
    BY <2>1, <2>2
<1> QED
  BY <1>2, <1>3, <1>9, <1>10 DEF t, p

(* What a loop over the list keeps. *)
LEMMA WithinEntries ==
  ASSUME NEW es \in Seq(Sound), Distinct(es), NEW T
  PROVE  LET t == Within(es, T)
         IN  t \in Seq(Sound) /\ Distinct(t) /\ ToSet(t) \subseteq ToSet(es)
<1> DEFINE t == Within(es, T)
<1>1. t \in Seq(Sound) /\ Thinned(es, T, Len(es), t)
  BY WithinThinned
<1>2. ToSet(t) = ToSet(es) \cap T
  BY WithinElements
<1> HIDE DEF t
<1>3. PICK at \in [1..Len(t) -> 1..Len(es)] :
        /\ \A i \in 1..Len(t) : t[i] = es[at[i]]
        /\ \A i, j \in 1..Len(t) : i < j => at[i] < at[j]
  BY <1>1 DEF Thinned
<1>4. /\ DOMAIN t = 1..Len(t) /\ Len(t) \in Nat
      /\ DOMAIN es = 1..Len(es) /\ Len(es) \in Nat
  BY <1>1, LenProperties
<1>5. ASSUME NEW i \in 1..Len(t), NEW j \in 1..Len(t), Key(t[i]) = Key(t[j])
      PROVE  i = j
  <2>1. at[i] = at[j]
    BY <1>3, <1>4, <1>5 DEF Distinct
  <2>2. i \in Int /\ j \in Int /\ at[i] \in 1..Len(es)
    BY <1>3, <1>4
  <2>3. ~(i < j) /\ ~(j < i)
    BY <1>3, <1>4, <2>1, <2>2
  <2> QED
    BY <2>2, <2>3
<1> QED
  BY <1>1, <1>2, <1>4, <1>5 DEF t, Distinct

(* A beginning of the list. *)
LEMMA PrefixEntries ==
  ASSUME NEW es \in Seq(Sound), Distinct(es), NEW n \in 0..Len(es)
  PROVE  LET t == SubSeq(es, 1, n)
         IN  /\ t \in Seq(Sound) /\ Distinct(t) /\ Len(t) = n
             /\ \A i \in 1..n : t[i] = es[i]
<1> DEFINE t == SubSeq(es, 1, n)
<1>1. Len(es) \in Nat /\ DOMAIN es = 1..Len(es) /\ n \in Nat /\ n <= Len(es)
  BY LenProperties
<1>2. \A i \in 1..n : i \in 1..Len(es) /\ es[i] \in Sound
  BY <1>1, ElementOfSeq
<1>3. t \in Seq(Sound) /\ Len(t) = n /\ \A i \in 1..n : t[i] = es[i]
  BY <1>1, <1>2, SubSeqProperties
<1> HIDE DEF t
<1>4. DOMAIN t = 1..n
  BY <1>3, LenProperties
<1>5. Distinct(t)
  BY <1>1, <1>2, <1>3, <1>4 DEF Distinct
<1> QED
  BY <1>3, <1>5 DEF t

(* The records of the file: those that are whole pass the test of           *)
(* CacheMsg.load, one that is cut does not.                                 *)
LEMMA FileRecords ==
  ASSUME db \in Seq(Sound), TailIsOne
  PROVE  /\ Len(File) \in Nat /\ Len(db) <= Len(File) /\ Len(File) <= Len(db) + 1
         /\ \A i \in 1..Len(db) : load_ok(File[i]) /\ File[i].entry = db[i]
         /\ Len(db) < Len(File) => ~load_ok(File[Len(db) + 1])
<1> DEFINE whole == [i \in DOMAIN db |-> [upto |-> "end", entry |-> db[i]]]
           R == {[upto |-> "end", entry |-> e] : e \in Sound} \cup Piece
<1>1. Len(db) \in Nat /\ DOMAIN db = 1..Len(db) /\ \A i \in 1..Len(db) : db[i] \in Sound
  BY LenProperties, ElementOfSeq
<1>2. whole \in [1..Len(db) -> R]
  BY <1>1
<1>3. whole \in Seq(R) /\ Len(whole) = Len(db)
  BY <1>1, <1>2
<1>4. \A i \in 1..Len(db) : whole[i].upto = "end" /\ whole[i].entry = db[i]
  BY <1>1
<1>5. File = whole \o tail
  BY DEF File
<1>6. \A p \in Piece : p \in R /\ p.upto # "end"
  BY DEF Piece
<1> HIDE DEF whole, R
<1>7. CASE tail = <<>>
  <2>1. File = whole
    BY <1>3, <1>5, <1>7
  <2> QED
    BY <1>1, <1>3, <1>4, <2>1 DEF load_ok
<1>8. ASSUME NEW p \in Piece, tail = <<p>>
      PROVE  /\ Len(File) = Len(db) + 1 /\ File[Len(db) + 1] = p
             /\ \A i \in 1..Len(db) : File[i] = whole[i]
  <2>1. File = Append(whole, p)
    BY <1>3, <1>5, <1>6, <1>8
  <2> QED
    BY <1>1, <1>3, <1>6, <2>1
<1>9. CASE tail # <<>>
  <2>1. PICK p \in Piece : tail = <<p>>
    BY <1>9 DEF TailIsOne
  <2> QED
    BY <1>1, <1>4, <1>6, <1>8, <2>1 DEF load_ok
<1> QED
  BY <1>7, <1>9

(* load takes whole records only, and no more than the cache may hold. *)
LEMMA LoadsWholeRecords ==
  ASSUME db \in Seq(Sound), TailIsOne
  PROVE  LoadCount \in 0..Len(db) /\ LoadCount <= CacheSize
<1> DEFINE P(n) == /\ n <= CacheSize /\ \A i \in 1..n : load_ok(File[i])
                   /\ n < Len(File) /\ n < CacheSize => ~load_ok(File[n + 1])
           s == IF Len(db) < CacheSize THEN Len(db) ELSE CacheSize
<1>1. Len(db) \in Nat /\ CacheSize \in Nat
  BY LenProperties, CacheAssumption
<1>2. /\ Len(File) \in Nat /\ Len(db) <= Len(File) /\ Len(File) <= Len(db) + 1
      /\ \A i \in 1..Len(db) : load_ok(File[i])
      /\ Len(db) < Len(File) => ~load_ok(File[Len(db) + 1])
  BY FileRecords
<1>3. s \in 0..Len(File) /\ P(s)
  BY <1>1, <1>2
<1>4. LoadCount = CHOOSE n \in 0..Len(File) : P(n)
  BY DEF LoadCount
<1>5. LoadCount \in 0..Len(File) /\ P(LoadCount)
  BY <1>3, <1>4
<1>6. LoadCount # Len(db) + 1
  <2>1. SUFFICES ASSUME LoadCount = Len(db) + 1 PROVE FALSE
    OBVIOUS
  <2>2. Len(db) + 1 \in 1..LoadCount /\ Len(db) < Len(File)
    BY <1>1, <1>2, <1>5, <2>1
  <2> QED
    BY <1>2, <1>5, <2>2
<1> QED
  BY <1>1, <1>2, <1>5, <1>6

(* What load makes of the file. *)
LEMMA LoadedEntries ==
  ASSUME db \in Seq(Sound), Distinct(db), TailIsOne
  PROVE  LET l == LoadList
         IN  /\ l \in Seq(Sound) /\ Distinct(l) /\ Len(l) <= Len(db) /\ Len(l) <= CacheSize
             /\ \A i \in 1..Len(l) : l[i].msg = db[i].msg /\ l[i].added_ip = FALSE
<1> DEFINE n == LoadCount
           es == SubSeq(db, 1, n)
           l == LoadList
<1>1. Len(db) \in Nat /\ CacheSize \in Nat
  BY LenProperties, CacheAssumption
<1>2. n \in 0..Len(db) /\ n <= CacheSize /\ n \in Nat
  BY <1>1, LoadsWholeRecords
<1>3. l = [i \in 1..n |-> LoadEntry(db[i])]
  <2>1. \A i \in 1..n : File[i].entry = db[i]
    BY <1>1, <1>2, FileRecords
  <2> QED
    BY <2>1 DEF LoadList
<1> HIDE DEF n
<1>4. es \in Seq(Sound) /\ Distinct(es) /\ Len(es) = n /\ \A i \in 1..n : es[i] = db[i]
  BY <1>2, PrefixEntries
<1> HIDE DEF es, l
<1>5. DOMAIN es = 1..n /\ \A i \in 1..n : es[i] \in Sound
  BY <1>4, LenProperties, ElementOfSeq
<1>6. ASSUME NEW i \in 1..n
      PROVE  /\ l[i] \in Sound /\ l[i].msg = es[i].msg /\ l[i].added_ip = FALSE
             /\ Key(l[i]) = Key(es[i])
  <2>1. PICK e \in Sound : e = es[i] /\ l[i] = [e EXCEPT !.added_ip = FALSE]
    BY <1>3, <1>4, <1>5 DEF LoadEntry
  <2>2. e \in Entry
    BY DEF Sound
  <2>3. /\ l[i] \in Entry /\ l[i].msg = e.msg /\ l[i].added_ip = FALSE /\ l[i].ttl = e.ttl
        /\ l[i].update_time = e.update_time /\ l[i].expires = e.expires /\ l[i].ttl_r = e.ttl_r
    BY <2>1, <2>2 DEF Entry
  <2> QED
    BY <2>1, <2>3 DEF Sound, Key
<1>7. DOMAIN l = 1..n /\ l \in [1..n -> Sound]
  <2>1. DOMAIN l = 1..n /\ l = [i \in 1..n |-> l[i]]
    BY <1>3, <1>5
  <2> QED
    BY <1>6, <2>1
<1>8. l \in Seq(Sound) /\ Len(l) = n
  BY <1>2, <1>7
<1>9. Distinct(l)
  BY <1>4, <1>5, <1>6, <1>7 DEF Distinct
<1>10. Len(l) <= Len(db) /\ Len(l) <= CacheSize
  BY <1>1, <1>2, <1>8
<1>11. \A i \in 1..Len(l) : l[i].msg = db[i].msg /\ l[i].added_ip = FALSE
  BY <1>4, <1>6, <1>8
<1> QED
  BY <1>8, <1>9, <1>10, <1>11 DEF l

-----------------------------------------------------------------------------
(* The steps *)

(* A cache that holds nothing. *)
LEMMA InitCacheInv ==
  Init => CacheInv
<1> SUFFICES ASSUME Init PROVE CacheInv
  OBVIOUS
<1>1. list = <<>> /\ db = <<>> /\ tail = <<>> /\ buckets = <<>> /\ nitems = 0 /\ clock = 0 /\ last = None
  BY DEF Init
<1>2. <<>> \in Seq(Sound) /\ Len(<<>>) = 0 /\ DOMAIN <<>> = {}
  OBVIOUS
<1>3. Distinct(<<>>) /\ KeysOf(<<>>) = {}
  BY <1>2 DEF Distinct, KeysOf
<1>4. clock \in 0..MaxTime /\ 0 <= CacheSize
  BY <1>1, CacheAssumption
<1> QED
  BY <1>1, <1>2, <1>3, <1>4, EmptyMapped DEF CacheInv, LastIsHead, TailIsOne

(* What is found in the map is in the list. *)
LEMMA FoundInList ==
  ASSUME CacheInv, NEW k \in Keys
  PROVE  /\ InChain(buckets, k) <=> k \in KeysOf(list)
         /\ KeysOf(list) \in SUBSET Keys /\ clock \in Nat
         /\ list \in Seq(Sound) /\ Distinct(list) /\ Len(list) \in Nat /\ nitems = Len(list)
         /\ k \in KeysOf(list) =>
              Pos(k) \in 1..Len(list) /\ list[Pos(k)] \in Sound /\ Key(list[Pos(k)]) = k
<1>1. /\ list \in Seq(Sound) /\ Distinct(list) /\ Mapped(buckets, KeysOf(list))
      /\ clock \in Nat /\ nitems = Len(list)
  BY CacheAssumption DEF CacheInv
<1>2. KeysOf(list) \in SUBSET Keys /\ Len(list) \in Nat /\ \A i \in 1..Len(list) : list[i] \in Sound
  BY <1>1, KeysOfList
<1>3. InChain(buckets, k) <=> k \in KeysOf(list)
  BY <1>1, <1>2, InChainIff
<1>4. k \in KeysOf(list) => Pos(k) \in 1..Len(list) /\ Key(list[Pos(k)]) = k
  BY <1>1, OthersEntries
<1> QED
  BY <1>1, <1>2, <1>3, <1>4

(* get, of an entry that is not too old. *)
LEMMA GetHitKept ==
  ASSUME CacheInv, NEW k \in Keys, GetHit(k)
  PROVE  CacheInv'
<1>1. /\ InChain(buckets, k) /\ buckets' = map_get(buckets, k)
      /\ list' = <<[update_ttl(list[Pos(k)]) EXCEPT !.added_ip = TRUE]>> \o Others(k)
      /\ last' = k /\ clock' = clock /\ nitems' = nitems /\ db' = db /\ tail' = tail
  BY DEF GetHit
<1>2. /\ k \in KeysOf(list) /\ KeysOf(list) \in SUBSET Keys /\ clock \in Nat
      /\ list \in Seq(Sound) /\ Distinct(list) /\ Len(list) \in Nat
      /\ list[Pos(k)] \in Sound /\ Key(list[Pos(k)]) = k
  BY <1>1, FoundInList
<1>3. PICK e : e = [update_ttl(list[Pos(k)]) EXCEPT !.added_ip = TRUE]
  OBVIOUS
<1>4. e \in Sound /\ Key(e) = k
  BY <1>2, <1>3, UpdatedEntry DEF Key
<1>5. /\ Others(k) \in Seq(Sound) /\ Distinct(Others(k))
      /\ KeysOf(Others(k)) = KeysOf(list) \ {k} /\ Len(Others(k)) = Len(list) - 1
  BY <1>2, OthersEntries
<1>6. list' = <<e>> \o Others(k) /\ Key(e) \notin KeysOf(Others(k))
  BY <1>1, <1>3, <1>4, <1>5
<1>7. /\ list' \in Seq(Sound) /\ Distinct(list') /\ Len(list') = Len(Others(k)) + 1
      /\ list'[1] = e /\ KeysOf(list') = KeysOf(Others(k)) \cup {k}
  BY <1>4, <1>5, <1>6, PrependEntry
<1>8. KeysOf(list') = KeysOf(list) /\ Len(list') = Len(list)
  BY <1>2, <1>5, <1>7
<1>9. Mapped(buckets', KeysOf(list'))
  <2>1. Mapped(buckets, KeysOf(list))
    BY DEF CacheInv
  <2> QED
    BY <1>1, <1>2, <1>8, <2>1, GetMapped
<1>10. LastIsHead'
  <2>1. list' # <<>>
    BY <1>2, <1>5, <1>7
  <2> QED
    BY <1>1, <1>4, <1>7, <2>1 DEF LastIsHead
<1>11. /\ clock' \in 0..MaxTime /\ last' \in Keys \cup {None} /\ db' \in Seq(Sound)
       /\ Distinct(db') /\ TailIsOne' /\ nitems' = Len(list') /\ nitems' <= CacheSize
  BY <1>1, <1>8 DEF CacheInv, TailIsOne
<1> QED
  BY <1>7, <1>9, <1>10, <1>11 DEF CacheInv

(* get, of an entry that has expired. *)
LEMMA GetExpiredKept ==
  ASSUME CacheInv, NEW k \in Keys, GetExpired(k)
  PROVE  CacheInv'
<1>1. /\ InChain(buckets, k) /\ buckets' = map_del(buckets, k) /\ list' = Others(k)
      /\ nitems' = nitems - 1 /\ last' = (IF k = last THEN None ELSE last)
      /\ clock' = clock /\ db' = db /\ tail' = tail
  BY DEF GetExpired
<1>2. /\ k \in KeysOf(list) /\ KeysOf(list) \in SUBSET Keys
      /\ list \in Seq(Sound) /\ Distinct(list) /\ Len(list) \in Nat /\ nitems = Len(list)
  BY <1>1, FoundInList
<1>3. /\ Others(k) \in Seq(Sound) /\ Distinct(Others(k))
      /\ KeysOf(Others(k)) = KeysOf(list) \ {k} /\ Len(Others(k)) = Len(list) - 1
      /\ Pos(k) \in 1..Len(list) /\ Key(list[Pos(k)]) = k
      /\ \A j \in 1..(Len(list) - 1) :
           Others(k)[j] = IF j < Pos(k) THEN list[j] ELSE list[j + 1]
  BY <1>2, OthersEntries
<1>4. Mapped(buckets', KeysOf(list'))
  <2>1. Mapped(buckets, KeysOf(list))
    BY DEF CacheInv
  <2> QED
    BY <1>1, <1>2, <1>3, <2>1, DelMapped
<1>5. LastIsHead'
  <2> SUFFICES ASSUME last' # None PROVE list' # <<>> /\ last' = Key(list'[1])
    BY DEF LastIsHead
  <2>1. last # k /\ last' = last /\ last = Key(list[1])
    BY <1>1 DEF CacheInv, LastIsHead
  <2>2. Pos(k) # 1
    BY <1>3, <2>1
  <2>3. 1 \in 1..(Len(list) - 1) /\ 1 < Pos(k)
    BY <1>2, <1>3, <2>2
  <2>4. Others(k)[1] = list[1]
    BY <1>3, <2>3
  <2>5. list' # <<>>
    BY <1>1, <1>2, <1>3, <2>3
  <2> QED
    BY <1>1, <2>1, <2>4, <2>5
<1>6. /\ clock' \in 0..MaxTime /\ db' \in Seq(Sound) /\ Distinct(db') /\ TailIsOne'
      /\ last' \in Keys \cup {None}
  BY <1>1 DEF CacheInv, TailIsOne
<1>7. nitems' = Len(list') /\ nitems' <= CacheSize
  <2>1. nitems <= CacheSize /\ CacheSize \in Nat
    BY CacheAssumption DEF CacheInv
  <2> QED
    BY <1>1, <1>2, <1>3, <2>1
<1> QED
  BY <1>1, <1>3, <1>4, <1>5, <1>6, <1>7 DEF CacheInv

(* add that stores a reply: what stays of the list, and of the map when it  *)
(* is added.  An entry leaves because it is the old one for the question,   *)
(* or because the cache is full and it is the last of the list.             *)
LEMMA AddEntryParts ==
  ASSUME CacheInv, NEW m \in Messages, AddEntry(m, Ttl[m])
  PROVE  \E rest, b :
           /\ list' = <<NewEntry(m, Ttl[m])>> \o rest
           /\ buckets' = map_add(b, Len(rest), question(m)) /\ nitems' = Len(rest) + 1
           /\ rest \in Seq(Sound) /\ Distinct(rest) /\ Mapped(b, KeysOf(rest))
           /\ question(m) \notin KeysOf(rest) /\ Len(rest) < CacheSize
           /\ \/ rest = list
              \/ \E x \in KeysOf(list) :
                   /\ rest = Others(x)
                   /\ x = question(m) \/ (Len(list) >= CacheSize /\ x = Key(list[Len(list)]))
<1> DEFINE k == question(m)
           new == NewEntry(m, Ttl[m])
<1>1. k \in Keys
  BY CacheAssumption
<1>2. /\ InChain(buckets, k) <=> k \in KeysOf(list)
      /\ KeysOf(list) \in SUBSET Keys /\ nitems = Len(list)
      /\ list \in Seq(Sound) /\ Distinct(list) /\ Len(list) \in Nat
  BY <1>1, FoundInList
<1>3. Mapped(buckets, KeysOf(list)) /\ nitems <= CacheSize /\ CacheSize \in Nat \ {0}
  BY CacheAssumption DEF CacheInv
<1>4. \A x : Cardinality({x}) = 1 /\ (CHOOSE y \in {x} : TRUE) = x /\ {x} # {}
  BY FS_Singleton
<1>5. Cardinality({}) = 0
  BY FS_EmptySet
<1>6. ASSUME NEW x \in KeysOf(list)
      PROVE  /\ Others(x) \in Seq(Sound) /\ Distinct(Others(x))
             /\ Len(Others(x)) = Len(list) - 1 /\ KeysOf(Others(x)) = KeysOf(list) \ {x}
             /\ Mapped(map_del(map_get(buckets, k), x), KeysOf(Others(x)))
             /\ nitems - 1 = Len(Others(x)) /\ Len(Others(x)) < CacheSize
             /\ (nitems - 1) + 1 = Len(Others(x)) + 1
  <2>1. /\ Others(x) \in Seq(Sound) /\ Distinct(Others(x))
        /\ Len(Others(x)) = Len(list) - 1 /\ KeysOf(Others(x)) = KeysOf(list) \ {x}
    BY <1>2, OthersEntries
  <2>2. x \in Keys
    BY <1>2
  <2>3. Mapped(map_get(buckets, k), KeysOf(list))
    BY <1>1, <1>2, <1>3, GetMapped
  <2>4. Mapped(map_del(map_get(buckets, k), x), KeysOf(list) \ {x})
    BY <1>2, <2>2, <2>3, DelMapped
  <2>5. Mapped(map_del(map_get(buckets, k), x), KeysOf(Others(x)))
    BY <2>1, <2>4
  <2>6. nitems - 1 = Len(Others(x)) /\ Len(Others(x)) < CacheSize
    BY <1>2, <1>3, <2>1
  <2> QED
    BY <2>1, <2>5, <2>6
<1>7. CASE k \in KeysOf(list)
  <2>1. /\ list' = <<new>> \o Others(k)
        /\ buckets' = map_add(map_del(map_get(buckets, k), k), nitems - 1, k)
        /\ nitems' = (nitems - 1) + 1
    BY <1>2, <1>4, <1>7 DEF AddEntry
  <2> HIDE DEF k, new
  <2>2. k \notin KeysOf(Others(k))
    BY <1>6, <1>7
  <2> QED
    BY <1>6, <1>7, <2>1, <2>2 DEF k, new
<1>8. CASE k \notin KeysOf(list) /\ nitems < CacheSize
  <2>1. /\ list' = <<new>> \o list /\ buckets' = map_add(buckets, nitems - 0, k)
        /\ nitems' = (nitems - 0) + 1
    BY <1>2, <1>5, <1>8 DEF AddEntry
  <2>2. nitems - 0 = Len(list) /\ Len(list) < CacheSize
    BY <1>2, <1>8
  <2> QED
    BY <1>2, <1>3, <1>8, <2>1, <2>2
<1>9. CASE k \notin KeysOf(list) /\ ~(nitems < CacheSize)
  <2> DEFINE x == Key(list[Len(list)])
  <2>1. /\ list' = <<new>> \o Others(x)
        /\ buckets' = map_add(map_del(map_get(buckets, k), x), nitems - 1, k)
        /\ nitems' = (nitems - 1) + 1
    BY <1>2, <1>4, <1>9 DEF AddEntry, Victim
  <2>2. Len(list) \in 1..Len(list) /\ Len(list) >= CacheSize
    BY <1>2, <1>3, <1>9
  <2>3. x \in KeysOf(list)
    BY <1>2, <2>2, KeysOfList
  <2> HIDE DEF k, new
  <2>4. k \notin KeysOf(Others(x))
    BY <1>6, <1>9, <2>3
  <2>5. x = Key(list[Len(list)])
    OBVIOUS
  <2> HIDE DEF x
  <2> QED
    BY <1>6, <2>1, <2>2, <2>3, <2>4, <2>5 DEF k, new
<1> QED
  BY <1>7, <1>8, <1>9

(* add that stores a reply. *)
LEMMA AddEntryKept ==
  ASSUME CacheInv, NEW m \in Messages, AddEntry(m, Ttl[m])
  PROVE  CacheInv'
<1> DEFINE k == question(m)
           e == NewEntry(m, Ttl[m])
<1>1. PICK rest, b :
        /\ list' = <<e>> \o rest
        /\ buckets' = map_add(b, Len(rest), k) /\ nitems' = Len(rest) + 1
        /\ rest \in Seq(Sound) /\ Distinct(rest) /\ Mapped(b, KeysOf(rest))
        /\ k \notin KeysOf(rest) /\ Len(rest) < CacheSize
  BY AddEntryParts
<1>2. last' = k /\ clock' = clock /\ db' = db /\ tail' = tail /\ Ttl[m] > 0
  BY DEF AddEntry
<1>3. clock \in Nat /\ Ttl[m] \in Nat \ {0} /\ k \in Keys /\ CacheSize \in Nat
  BY <1>2, CacheAssumption DEF CacheInv
<1>4. e \in Sound /\ Key(e) = k
  BY <1>3, NewEntrySound
<1> HIDE DEF e, k
<1>5. /\ list' \in Seq(Sound) /\ Distinct(list') /\ Len(list') = Len(rest) + 1
      /\ list'[1] = e /\ KeysOf(list') = KeysOf(rest) \cup {k}
  BY <1>1, <1>4, PrependEntry
<1>6. Len(rest) \in Nat /\ KeysOf(rest) \in SUBSET Keys
  BY <1>1, KeysOfList
<1>7. Mapped(buckets', KeysOf(list'))
  BY <1>1, <1>3, <1>5, <1>6, AddMapped
<1>8. LastIsHead'
  <2>1. list' # <<>>
    BY <1>5, <1>6
  <2> QED
    BY <1>2, <1>4, <1>5, <2>1 DEF LastIsHead
<1>9. nitems' = Len(list') /\ nitems' <= CacheSize
  BY <1>1, <1>3, <1>5, <1>6
<1>10. /\ clock' \in 0..MaxTime /\ db' \in Seq(Sound) /\ Distinct(db') /\ TailIsOne'
       /\ last' \in Keys \cup {None}
  BY <1>2, <1>3 DEF CacheInv, TailIsOne
<1> QED
  BY <1>5, <1>7, <1>8, <1>9, <1>10 DEF CacheInv

(* add of a reply with nearly the TTL of the entry. *)
LEMMA AddSameTtlKept ==
  ASSUME CacheInv, NEW m \in Messages, AddSameTtl(m, Ttl[m])
  PROVE  CacheInv'
<1>1. /\ buckets' = map_get(buckets, question(m))
      /\ UNCHANGED <<clock, list, nitems, db, tail, last>>
  BY DEF AddSameTtl
<1>2. question(m) \in Keys
  BY CacheAssumption
<1>3. KeysOf(list) \in SUBSET Keys /\ Mapped(buckets, KeysOf(list))
  BY <1>2, FoundInList DEF CacheInv
<1>4. Mapped(buckets', KeysOf(list))
  BY <1>1, <1>2, <1>3, GetMapped
<1> QED
  BY <1>1, <1>4 DEF CacheInv, LastIsHead, TailIsOne, Distinct, KeysOf

(* What dump writes, all of it or a beginning. *)
LEMMA DumpedEntries ==
  ASSUME CacheInv, NEW lost \in 0..MaxLost, Dump(lost)
  PROVE  /\ db' \in Seq(Sound) /\ Distinct(db') /\ ToSet(db') \subseteq ToSet(list)
         /\ TailIsOne'
<1>1. list \in Seq(Sound) /\ Distinct(list)
  BY DEF CacheInv
<1>2. PICK d : d = DumpList
  OBVIOUS
<1>3. d \in Seq(Sound) /\ Distinct(d) /\ ToSet(d) \subseteq ToSet(list)
  BY <1>1, <1>2, WithinEntries DEF DumpList
<1>4. PICK n : n = Len(d) - lost
  OBVIOUS
<1>5. /\ db' = SubSeq(d, 1, n) /\ lost <= Len(d)
      /\ \/ tail' = <<>>
         \/ lost > 0 /\ tail' = <<[upto |-> "header"]>>
         \/ lost > 0 /\ tail' = <<[upto |-> "message", entry |-> d[n + 1]]>>
  BY <1>2, <1>4 DEF Dump
<1>6. n \in 0..Len(d)
  BY <1>3, <1>4, <1>5, CacheAssumption, LenProperties
<1>7. db' \in Seq(Sound) /\ Distinct(db') /\ Len(db') = n /\ \A i \in 1..n : db'[i] = d[i]
  BY <1>3, <1>5, <1>6, PrefixEntries
<1>8. \A i \in 1..n : d[i] \in ToSet(d)
  BY <1>3, <1>6, ToSetMembers
<1>9. \A x \in ToSet(db') : \E i \in 1..n : db'[i] = x
  BY <1>7, ToSetMembers
<1>10. lost > 0 => d[n + 1] \in Entry
  <2>1. lost > 0 => n + 1 \in 1..Len(d)
    BY <1>3, <1>4, <1>5, CacheAssumption, LenProperties
  <2> QED
    BY <1>3, <2>1, KeysOfList DEF Sound
<1>11. [upto |-> "header"] \in Piece
  BY DEF Piece
<1>12. lost > 0 => [upto |-> "message", entry |-> d[n + 1]] \in Piece
  BY <1>10 DEF Piece
<1>13. TailIsOne'
  BY <1>5, <1>11, <1>12 DEF TailIsOne
<1> QED
  BY <1>3, <1>7, <1>8, <1>9, <1>13

(* What dns_cache_mgr leaves in the file. *)
LEMMA DeletedEntries ==
  ASSUME CacheInv, NEW S, Delete(S)
  PROVE  /\ db' \in Seq(Sound) /\ Distinct(db') /\ ToSet(db') \subseteq ToSet(db)
         /\ TailIsOne'
<1>1. db \in Seq(Sound) /\ Distinct(db)
  BY DEF CacheInv
<1>2. db' = Within(db, {e \in ToSet(db) : Key(e) \notin S})
  BY DEF Delete
<1>3. TailIsOne'
  BY DEF Delete, TailIsOne
<1> QED
  BY <1>1, <1>2, <1>3, WithinEntries

(* The program starts again. *)
LEMMA RestartKept ==
  ASSUME CacheInv, Restart
  PROVE  CacheInv'
<1>1. /\ list' = LoadList /\ buckets' = MapOf(LoadList) /\ nitems' = Len(LoadList)
      /\ last' = None /\ clock' = clock /\ db' = db /\ tail' = tail
  BY DEF Restart
<1>2. PICK l : l = LoadList
  OBVIOUS
<1>3. l \in Seq(Sound) /\ Distinct(l) /\ Len(l) <= CacheSize
  BY <1>2, LoadedEntries DEF CacheInv
<1>4. l \in Seq(Entry)
  <2>1. \A i \in 1..Len(l) : l[i] \in Entry
    BY <1>3, KeysOfList DEF Sound
  <2>2. l \in [1..Len(l) -> Entry] /\ Len(l) \in Nat
    BY <1>3, <2>1, KeysOfList
  <2> QED
    BY <2>2
<1>5. Mapped(MapOf(l), KeysOf(l))
  BY <1>3, <1>4, LoadMapped
<1> QED
  BY <1>1, <1>2, <1>3, <1>5 DEF CacheInv, LastIsHead, TailIsOne

(* Every step keeps the invariant. *)
LEMMA NextCacheInv ==
  ASSUME CacheInv, [Next]_vars
  PROVE  CacheInv'
<1>1. CASE \E k \in Keys : GetHit(k) \/ GetExpired(k)
  BY <1>1, GetHitKept, GetExpiredKept
<1>2. CASE \E m \in Messages : AddEntry(m, Ttl[m]) \/ AddSameTtl(m, Ttl[m])
  BY <1>2, AddEntryKept, AddSameTtlKept
<1>3. ASSUME db' \in Seq(Sound), Distinct(db'), TailIsOne',
             UNCHANGED <<clock, list, buckets, nitems, last>>
      PROVE  CacheInv'
  BY <1>3 DEF CacheInv, LastIsHead, Distinct, KeysOf
<1>4. CASE \E lost \in 0..MaxLost : Dump(lost)
  BY <1>3, <1>4, DumpedEntries DEF Dump
<1>5. CASE \E S \in Removals : Delete(S)
  BY <1>3, <1>5, DeletedEntries DEF Delete
<1>6. CASE Restart
  BY <1>6, RestartKept
<1>7. CASE \E d \in Ticks : Tick(d)
  BY <1>7 DEF Tick, CacheInv, LastIsHead, TailIsOne, Distinct, KeysOf
<1>8. CASE UNCHANGED vars
  BY <1>8 DEF vars, CacheInv, LastIsHead, TailIsOne, Distinct, KeysOf
<1> QED
  BY <1>1, <1>2, <1>4, <1>5, <1>6, <1>7, <1>8 DEF Next

(* The invariant holds in every reachable state. *)
LEMMA CacheInvariance ==
  Spec => []CacheInv
<1>1. CacheInv /\ [Next]_vars => CacheInv'
  BY NextCacheInv
<1> QED
  BY InitCacheInv, <1>1, PTL DEF Spec

-----------------------------------------------------------------------------
(* The theorems *)

(* Every variable of the cache keeps its type; in particular the TTLs in    *)
(* the records of a cached message are never brought down to 0 (update_ttl  *)
(* in dns.c).                                                               *)
THEOREM CacheTypeCorrect == Spec => []TypeOK
<1>1. ASSUME NEW es \in Seq(Sound) PROVE es \in Seq(Entry)
  <2>1. \A i \in 1..Len(es) : es[i] \in Entry
    BY KeysOfList DEF Sound
  <2>2. es \in [1..Len(es) -> Entry] /\ Len(es) \in Nat
    BY <2>1, KeysOfList
  <2> QED
    BY <2>2
<1>2. CacheInv => TypeOK
  <2> SUFFICES ASSUME CacheInv PROVE TypeOK
    OBVIOUS
  <2>1. list \in Seq(Entry) /\ db \in Seq(Entry)
    BY <1>1 DEF CacheInv
  <2>2. buckets \in Seq(Seq(Keys)) /\ nitems \in Nat
    BY LenProperties DEF CacheInv, Mapped
  <2>3. tail \in Seq(Piece) /\ Len(tail) <= 1
    <3>1. tail = <<>> \/ \E p \in Piece : tail = <<p>>
      BY DEF CacheInv, TailIsOne
    <3>2. \A P : <<>> \in Seq(P) /\ Len(<<>>) = 0
      OBVIOUS
    <3>3. \A P : \A p \in P : <<p>> \in Seq(P) /\ Len(<<p>>) = 1
      OBVIOUS
    <3>4. CASE tail = <<>>
      BY <3>2, <3>4
    <3>5. ASSUME NEW p \in Piece, tail = <<p>> PROVE tail \in Seq(Piece) /\ Len(tail) <= 1
      BY <3>3, <3>5
    <3> QED
      BY <3>1, <3>4, <3>5, Zenon
  <2> QED
    BY <2>1, <2>2, <2>3 DEF CacheInv, TypeOK
<1> QED
  BY CacheInvariance, <1>2, PTL

(* The hash map and the LRU list hold the same entries, each once and in    *)
(* the chain where get looks for it, and never more than cache_size, after  *)
(* any sequence of get, add, dump, dns_cache_mgr -r, crash and load.        *)
THEOREM CacheMapAgreesWithList == Spec => []MapAgreesWithList
<1>1. CacheInv => MapAgreesWithList
  BY DEF CacheInv, Mapped, Distinct, MapAgreesWithList
<1> QED
  BY CacheInvariance, <1>1, PTL

(* However often an entry was hit, dumped and loaded, get_ttl is the TTL it *)
(* came with minus the time since then.                                     *)
THEOREM CacheTtlTracksClock == Spec => []TtlTracksClock
<1>1. ASSUME CacheInv PROVE TtlTracksClock
  <2>1. list \in Seq(Sound) /\ clock \in Nat
    BY <1>1, CacheAssumption DEF CacheInv
  <2>2. \A i \in DOMAIN list : list[i] \in Sound
    BY <2>1, KeysOfList
  <2> QED
    BY <2>1, <2>2, TtlLeft DEF TtlTracksClock
<1> QED
  BY CacheInvariance, <1>1, PTL

(* get never returns a reply older than its TTL plus cache-stale, and what  *)
(* it returns after the TTL is always due for a refresh.                    *)
THEOREM CacheHitIsFresh == Spec => HitIsFreshOrRefreshed
<1>1. ASSUME CacheInv, NEW k \in Keys, GetHit(k)
      PROVE  LET e == list'[1]
             IN /\ clock < e.expires + (IF Stale > 0 THEN Stale + 1 ELSE 0)
                /\ clock >= e.expires => e.ttl <= e.ttl_r
  <2>1. /\ InChain(buckets, k) /\ ttl_ok(get_ttl(list[Pos(k)]))
        /\ list' = <<[update_ttl(list[Pos(k)]) EXCEPT !.added_ip = TRUE]>> \o Others(k)
    BY <1>1 DEF GetHit
  <2>2. /\ k \in KeysOf(list) /\ clock \in Nat /\ list \in Seq(Sound) /\ Distinct(list)
        /\ list[Pos(k)] \in Sound /\ Key(list[Pos(k)]) = k
    BY <1>1, <2>1, FoundInList
  <2>3. PICK o \in Sound : o = list[Pos(k)]
    BY <2>2
  <2>4. PICK e : e = [update_ttl(o) EXCEPT !.added_ip = TRUE]
    OBVIOUS
  <2>5. /\ e \in Sound /\ e.msg = o.msg /\ e.expires = o.expires
        /\ e.ttl = get_ttl(o) /\ e.ttl_r = o.ttl_r
    BY <2>2, <2>4, UpdatedEntry
  <2>6. list'[1] = e
    <3>1. <<e>> \in Seq(Sound) /\ Others(k) \in Seq(Sound)
      BY <2>2, <2>5, OthersEntries
    <3>2. list' = <<e>> \o Others(k)
      BY <2>1, <2>3, <2>4
    <3> QED
      BY <3>1, <3>2
  <2>7. get_ttl(o) = o.expires - (IF clock > o.update_time THEN clock ELSE o.update_time)
    BY <2>2, TtlLeft
  <2>8. /\ o.expires \in Nat /\ o.update_time \in Nat /\ o.ttl_r \in Nat
        /\ Stale \in Nat
    BY SoundFields, CacheAssumption
  <2>9. clock < o.expires + (IF Stale > 0 THEN Stale + 1 ELSE 0)
    BY <2>1, <2>2, <2>3, <2>7, <2>8 DEF ttl_ok
  <2>10. clock >= o.expires => get_ttl(o) <= o.ttl_r
    BY <2>2, <2>7, <2>8
  <2> QED
    BY <2>5, <2>6, <2>9, <2>10
<1>2. CacheInv /\ [Next]_vars =>
        [\A k \in Keys : GetHit(k) =>
           LET e == list'[1]
           IN /\ clock < e.expires + (IF Stale > 0 THEN Stale + 1 ELSE 0)
              /\ clock >= e.expires => e.ttl <= e.ttl_r]_vars
  BY <1>1
<1> QED
  BY CacheInvariance, <1>2, PTL DEF Spec, HitIsFreshOrRefreshed

(* The entry that was used last is never the one that add evicts. *)
THEOREM CacheLastUsedSurvives == Spec => LastUsedSurvives
<1>1. ASSUME CacheInv, NEW m \in Messages, AddEntry(m, Ttl[m]), CacheSize > 1,
             last \in KeysOf(list)
      PROVE  last \in KeysOf(list')
  <2> DEFINE k == question(m)
             e == NewEntry(m, Ttl[m])
  <2>1. PICK rest, b :
          /\ list' = <<e>> \o rest
          /\ rest \in Seq(Sound) /\ Distinct(rest) /\ k \notin KeysOf(rest)
          /\ \/ rest = list
             \/ \E x \in KeysOf(list) :
                  /\ rest = Others(x)
                  /\ x = k \/ (Len(list) >= CacheSize /\ x = Key(list[Len(list)]))
    BY <1>1, AddEntryParts
  <2>2. clock \in Nat /\ Ttl[m] \in Nat \ {0} /\ CacheSize \in Nat
    BY <1>1, CacheAssumption DEF CacheInv, AddEntry
  <2>3. e \in Sound /\ Key(e) = k
    BY <2>2, NewEntrySound
  <2> HIDE DEF e, k
  <2>4. KeysOf(list') = KeysOf(rest) \cup {k}
    BY <2>1, <2>3, PrependEntry
  <2>5. list \in Seq(Sound) /\ Distinct(list) /\ last = Key(list[1])
    <3>1. list \in Seq(Sound)
      BY <1>1 DEF CacheInv
    <3>2. last # None
      BY <1>1, <3>1, KeysOfList
    <3> QED
      BY <1>1, <3>1, <3>2 DEF CacheInv, LastIsHead
  <2>6. Len(list) \in Nat /\ DOMAIN list = 1..Len(list)
    BY <2>5, KeysOfList
  <2>7. ASSUME NEW x \in KeysOf(list), rest = Others(x), last # k,
               x = k \/ (Len(list) >= CacheSize /\ x = Key(list[Len(list)]))
        PROVE  last \in KeysOf(rest)
    <3>1. last # x
      <4>1. CASE Len(list) >= CacheSize /\ x = Key(list[Len(list)])
        <5>1. 1 \in DOMAIN list /\ Len(list) \in DOMAIN list /\ Len(list) # 1
          BY <1>1, <2>2, <2>6, <4>1
        <5> QED
          BY <2>5, <4>1, <5>1 DEF Distinct
      <4> QED
        BY <2>7, <4>1
    <3> QED
      BY <1>1, <2>5, <2>7, <3>1, OthersEntries
  <2> QED
    BY <1>1, <2>1, <2>4, <2>7
<1>2. CacheInv /\ [Next]_vars =>
        [\A m \in Messages :
           /\ AddEntry(m, Ttl[m]) /\ CacheSize > 1
           /\ last \in KeysOf(list)
           => last \in KeysOf(list')]_vars
  BY <1>1
<1> QED
  BY CacheInvariance, <1>2, PTL DEF Spec, LastUsedSurvives

-----------------------------------------------------------------------------
(* The refinement *)

(* The partial function that a list of entries stands for. *)
LEMMA StoreAt ==
  ASSUME NEW es \in Seq(Sound), Distinct(es)
  PROVE  /\ AsStore(es) = [k \in KeysOf(es) |-> AsStore(es)[k]]
         /\ DOMAIN AsStore(es) = KeysOf(es)
         /\ \A i \in 1..Len(es) :
              AsStore(es)[Key(es[i])] = CacheEntry(es[i].msg, es[i].added_ip)
<1> DEFINE at(k) == CHOOSE i \in DOMAIN es : Key(es[i]) = k
<1>1. AsStore(es) = [k \in KeysOf(es) |-> CacheEntry(es[at(k)].msg, es[at(k)].added_ip)]
  BY DEF AsStore
<1>2. ASSUME NEW i \in 1..Len(es) PROVE at(Key(es[i])) = i /\ Key(es[i]) \in KeysOf(es)
  <2>1. i \in DOMAIN es
    BY KeysOfList
  <2> QED
    BY <2>1 DEF Distinct, KeysOf
<1> HIDE DEF at
<1> QED
  BY <1>1, <1>2

(* An entry in front is a new value of the function. *)
LEMMA StorePrepend ==
  ASSUME NEW es \in Seq(Sound), Distinct(es), NEW e \in Sound, Key(e) \notin KeysOf(es)
  PROVE  AsStore(<<e>> \o es) = Put(AsStore(es), Key(e), CacheEntry(e.msg, e.added_ip))
<1>0. PICK l : l = <<e>> \o es
  OBVIOUS
<1>1. /\ l \in Seq(Sound) /\ Distinct(l) /\ Len(l) = Len(es) + 1 /\ l[1] = e
      /\ KeysOf(l) = KeysOf(es) \cup {Key(e)}
      /\ \A i \in 1..Len(es) : l[i + 1] = es[i]
  BY <1>0, PrependEntry
<1>2. Len(es) \in Nat /\ \A k \in KeysOf(es) : \E i \in 1..Len(es) : Key(es[i]) = k
  BY KeysOfList
<1>3. ASSUME NEW k \in KeysOf(es) PROVE AsStore(l)[k] = AsStore(es)[k]
  <2>1. PICK i \in 1..Len(es) : Key(es[i]) = k
    BY <1>2
  <2>2. i + 1 \in 1..Len(l) /\ l[i + 1] = es[i]
    BY <1>1, <1>2
  <2>3. AsStore(l)[k] = CacheEntry(es[i].msg, es[i].added_ip)
    BY <1>1, <2>1, <2>2, StoreAt
  <2>4. AsStore(es)[k] = CacheEntry(es[i].msg, es[i].added_ip)
    BY <2>1, StoreAt
  <2> QED
    BY <2>3, <2>4
<1>4. AsStore(l)[Key(e)] = CacheEntry(e.msg, e.added_ip)
  <2>1. 1 \in 1..Len(l)
    BY <1>1, <1>2
  <2> QED
    BY <1>1, <2>1, StoreAt
<1>5. AsStore(l) = [k \in KeysOf(l) |-> AsStore(l)[k]] /\ DOMAIN AsStore(es) = KeysOf(es)
  BY <1>1, StoreAt
<1>6. \A k \in KeysOf(l) : AsStore(l)[k] = IF k = Key(e) THEN CacheEntry(e.msg, e.added_ip)
                                           ELSE AsStore(es)[k]
  BY <1>1, <1>3, <1>4
<1> QED
  BY <1>0, <1>1, <1>5, <1>6 DEF Put

(* Some of the entries are the function on fewer questions. *)
LEMMA StoreRestrict ==
  ASSUME NEW es \in Seq(Sound), Distinct(es), NEW fs \in Seq(Sound), Distinct(fs),
         ToSet(fs) \subseteq ToSet(es)
  PROVE  /\ KeysOf(fs) \subseteq KeysOf(es)
         /\ AsStore(fs) = [k \in KeysOf(fs) |-> AsStore(es)[k]]
<1>1. ASSUME NEW k \in KeysOf(fs)
      PROVE  k \in KeysOf(es) /\ AsStore(fs)[k] = AsStore(es)[k]
  <2>1. PICK i \in 1..Len(fs) : Key(fs[i]) = k
    BY KeysOfList
  <2>2. fs[i] \in ToSet(es)
    BY ToSetMembers
  <2>3. PICK j \in 1..Len(es) : es[j] = fs[i]
    BY <2>2, ToSetMembers
  <2>4. AsStore(fs)[k] = CacheEntry(fs[i].msg, fs[i].added_ip)
    BY <2>1, StoreAt
  <2>5. AsStore(es)[k] = CacheEntry(fs[i].msg, fs[i].added_ip)
    BY <2>1, <2>3, StoreAt
  <2>6. k \in KeysOf(es)
    BY <2>1, <2>3, KeysOfList
  <2> QED
    BY <2>4, <2>5, <2>6
<1>2. AsStore(fs) = [k \in KeysOf(fs) |-> AsStore(fs)[k]]
  BY StoreAt
<1> QED
  BY <1>1, <1>2

(* Without the entry of a question. *)
LEMMA StoreOthers ==
  ASSUME list \in Seq(Sound), Distinct(list), NEW x \in KeysOf(list)
  PROVE  AsStore(Others(x)) = Without(AsStore(list), x)
<1>1. /\ Pos(x) \in 1..Len(list)
      /\ Others(x) \in Seq(Sound) /\ Distinct(Others(x))
      /\ Len(Others(x)) = Len(list) - 1 /\ KeysOf(Others(x)) = KeysOf(list) \ {x}
      /\ \A j \in 1..(Len(list) - 1) :
           Others(x)[j] = IF j < Pos(x) THEN list[j] ELSE list[j + 1]
  BY OthersEntries
<1>2. ToSet(Others(x)) \subseteq ToSet(list)
  <2> SUFFICES ASSUME NEW y \in ToSet(Others(x)) PROVE y \in ToSet(list)
    OBVIOUS
  <2>1. PICK j \in 1..(Len(list) - 1) : y = Others(x)[j]
    BY <1>1, ToSetMembers
  <2>2. Len(list) \in Nat
    BY KeysOfList
  <2>3. j \in 1..Len(list) /\ j + 1 \in 1..Len(list)
    BY <2>2
  <2> QED
    BY <1>1, <2>1, <2>3, ToSetMembers
<1>3. AsStore(Others(x)) = [k \in KeysOf(list) \ {x} |-> AsStore(list)[k]]
  <2>1. Others(x) \in Seq(Sound) /\ Distinct(Others(x))
    BY <1>1
  <2>2. AsStore(Others(x)) = [k \in KeysOf(Others(x)) |-> AsStore(list)[k]]
    BY <1>2, <2>1, StoreRestrict
  <2> QED
    BY <1>1, <2>2
<1>4. DOMAIN AsStore(list) = KeysOf(list)
  BY StoreAt
<1> QED
  BY <1>3, <1>4 DEF Without

(* get that hits is the contract's Hit. *)
LEMMA HitStep ==
  ASSUME CacheInv, NEW k \in Keys, GetHit(k)
  PROVE  Contract!Hit(k)
<1>1. /\ InChain(buckets, k) /\ db' = db
      /\ list' = <<[update_ttl(list[Pos(k)]) EXCEPT !.added_ip = TRUE]>> \o Others(k)
  BY DEF GetHit
<1>2. /\ k \in KeysOf(list) /\ clock \in Nat
      /\ list \in Seq(Sound) /\ Distinct(list)
      /\ Pos(k) \in 1..Len(list) /\ list[Pos(k)] \in Sound /\ Key(list[Pos(k)]) = k
  BY <1>1, FoundInList
<1>3. PICK e : e = [update_ttl(list[Pos(k)]) EXCEPT !.added_ip = TRUE]
  OBVIOUS
<1>4. e \in Sound /\ Key(e) = k /\ e.msg = list[Pos(k)].msg /\ e.added_ip = TRUE
  BY <1>2, <1>3, UpdatedEntry DEF Key
<1>5. Others(k) \in Seq(Sound) /\ Distinct(Others(k)) /\ k \notin KeysOf(Others(k))
  BY <1>2, OthersEntries
<1>6. PICK c : c = AsStore(list)
  OBVIOUS
<1>7. AsStore(list') = Put(Without(c, k), k, CacheEntry(e.msg, TRUE))
  BY <1>1, <1>2, <1>3, <1>4, <1>5, <1>6, StorePrepend, StoreOthers
<1>8. DOMAIN c = KeysOf(list) /\ c[k].msg = e.msg
  <2>1. AsStore(list)[k] = CacheEntry(list[Pos(k)].msg, list[Pos(k)].added_ip)
    BY <1>2, StoreAt
  <2>2. DOMAIN AsStore(list) = KeysOf(list)
    BY <1>2, StoreAt
  <2> QED
    BY <1>4, <1>6, <2>1, <2>2 DEF CacheEntry
<1>9. AsStore(list') = Put(c, k, CacheEntry(c[k].msg, TRUE))
  <2>1. (DOMAIN c \ {k}) \cup {k} = DOMAIN c \cup {k}
    OBVIOUS
  <2> QED
    BY <1>7, <1>8, <2>1 DEF Put, Without
<1> QED
  BY <1>1, <1>2, <1>6, <1>8, <1>9
     DEF Contract!Hit, Contract!cache_hit, Contract!Put, Contract!CacheEntry, Put, CacheEntry

(* get that finds an expired entry is the contract's Miss. *)
LEMMA MissStep ==
  ASSUME CacheInv, NEW k \in Keys, GetExpired(k)
  PROVE  Contract!Miss(k)
<1>1. InChain(buckets, k) /\ db' = db /\ list' = Others(k)
  BY DEF GetExpired
<1>2. k \in KeysOf(list) /\ list \in Seq(Sound) /\ Distinct(list)
  BY <1>1, FoundInList
<1>3. AsStore(list') = Without(AsStore(list), k)
  BY <1>1, <1>2, StoreOthers
<1> QED
  BY <1>1, <1>3 DEF Contract!Miss, Contract!cache_miss, Contract!Without, Without

(* add that stores the reply is the contract's Add. *)
LEMMA AddStep ==
  ASSUME CacheInv, NEW m \in Messages, AddEntry(m, Ttl[m])
  PROVE  Contract!Add(m)
<1> DEFINE k == question(m)
           e == NewEntry(m, Ttl[m])
<1>1. PICK rest, b :
        /\ list' = <<e>> \o rest
        /\ rest \in Seq(Sound) /\ Distinct(rest) /\ k \notin KeysOf(rest)
        /\ rest = list \/ \E x \in KeysOf(list) : rest = Others(x)
  BY AddEntryParts
<1>2. clock \in Nat /\ Ttl[m] \in Nat \ {0} /\ is_good(m) /\ db' = db /\ CacheEnabled
  BY CacheAssumption DEF CacheInv, AddEntry
<1>3. e \in Sound /\ Key(e) = k /\ e.msg = m /\ e.added_ip = TRUE
  BY <1>2, NewEntrySound
<1> HIDE DEF e
<1>4. AsStore(list') = Put(AsStore(rest), k, CacheEntry(m, TRUE))
  BY <1>1, <1>3, StorePrepend
<1>5. list \in Seq(Sound) /\ Distinct(list)
  BY DEF CacheInv
<1>6. PICK c, c2, v : c = AsStore(list) /\ c2 = AsStore(list') /\ v = CacheEntry(m, TRUE)
  OBVIOUS
<1>7. DOMAIN c = KeysOf(list)
  BY <1>5, <1>6, StoreAt
<1>8. c2 = Put(c, k, v) \/ \E x \in DOMAIN c : c2 = Put(Without(c, x), k, v)
  <2>1. CASE rest = list
    BY <1>4, <1>6, <2>1
  <2>2. ASSUME NEW x \in KeysOf(list), rest = Others(x)
        PROVE  c2 = Put(Without(c, x), k, v)
    BY <1>4, <1>5, <1>6, <2>2, StoreOthers
  <2> QED
    BY <1>1, <1>7, <2>1, <2>2
<1>9. c2 \in cache_add(c, m)
  BY <1>2, <1>6, <1>8 DEF cache_add
<1>10. c2 \in Contract!cache_add(c, m)
  BY <1>9 DEF Contract!cache_add, Contract!Put, Contract!Without, Contract!CacheEntry,
              Contract!is_good, Contract!question, cache_add, Put, Without, CacheEntry,
              is_good, question
<1> QED
  BY <1>2, <1>6, <1>10 DEF Contract!Add

(* dump is the contract's Dump: what is lost or cut at the end is left out. *)
LEMMA DumpStep ==
  ASSUME CacheInv, NEW lost \in 0..MaxLost, Dump(lost)
  PROVE  Contract!Dump
<1>1. db' \in Seq(Sound) /\ Distinct(db') /\ ToSet(db') \subseteq ToSet(list) /\ list' = list
  BY DumpedEntries DEF Dump
<1>2. list \in Seq(Sound) /\ Distinct(list)
  BY DEF CacheInv
<1>3. PICK S : S = KeysOf(db')
  OBVIOUS
<1>4. S \subseteq KeysOf(list) /\ AsStore(db') = [k \in S |-> AsStore(list)[k]]
  BY <1>1, <1>2, <1>3, StoreRestrict
<1>5. DOMAIN AsStore(list) = KeysOf(list)
  BY <1>2, StoreAt
<1>6. AsDb(db') = [k \in S |-> AsStore(list)[k].msg]
  BY <1>4 DEF AsDb
<1> QED
  BY <1>1, <1>4, <1>5, <1>6 DEF Contract!Dump

(* dns_cache_mgr -r is the contract's Remove. *)
LEMMA RemoveStep ==
  ASSUME CacheInv, NEW T, Delete(T)
  PROVE  Contract!Remove
<1>1. db' \in Seq(Sound) /\ Distinct(db') /\ ToSet(db') \subseteq ToSet(db) /\ list' = list
  BY DeletedEntries DEF Delete
<1>2. db \in Seq(Sound) /\ Distinct(db)
  BY DEF CacheInv
<1>3. PICK S : S = KeysOf(db')
  OBVIOUS
<1>4. S \subseteq KeysOf(db) /\ AsStore(db') = [k \in S |-> AsStore(db)[k]]
  BY <1>1, <1>2, <1>3, StoreRestrict
<1>5. DOMAIN AsStore(db) = KeysOf(db)
  BY <1>2, StoreAt
<1>6. /\ AsDb(db') = [k \in S |-> AsStore(db)[k].msg]
      /\ AsDb(db) = [k \in KeysOf(db) |-> AsStore(db)[k].msg]
  BY <1>4, <1>5 DEF AsDb
<1>7. AsDb(db') = [k \in S |-> AsDb(db)[k]] /\ DOMAIN AsDb(db) = KeysOf(db)
  BY <1>4, <1>6
<1> QED
  BY <1>1, <1>4, <1>7 DEF Contract!Remove

(* load is the contract's Restart: a record that is cut is not loaded. *)
LEMMA RestartStep ==
  ASSUME CacheInv, Restart
  PROVE  Contract!Restart
<1>1. list' = LoadList /\ db' = db
  BY DEF Restart
<1>2. db \in Seq(Sound) /\ Distinct(db) /\ TailIsOne
  BY DEF CacheInv
<1>3. PICK l : l = LoadList
  OBVIOUS
<1>4. /\ l \in Seq(Sound) /\ Distinct(l) /\ Len(l) <= Len(db)
      /\ \A i \in 1..Len(l) : l[i].msg = db[i].msg /\ l[i].added_ip = FALSE
  BY <1>2, <1>3, LoadedEntries
<1>5. Len(l) \in Nat /\ Len(db) \in Nat
  BY <1>2, <1>4, KeysOfList
<1>6. PICK S : S = KeysOf(l)
  OBVIOUS
<1>7. DOMAIN AsStore(db) = KeysOf(db) /\ AsDb(db) = [k \in KeysOf(db) |-> AsStore(db)[k].msg]
  BY <1>2, StoreAt DEF AsDb
<1>8. ASSUME NEW k \in S
      PROVE  k \in KeysOf(db) /\ AsStore(l)[k] = CacheEntry(AsDb(db)[k], FALSE)
  <2>1. PICK i \in 1..Len(l) : Key(l[i]) = k
    BY <1>4, <1>6, KeysOfList
  <2>2. i \in 1..Len(db) /\ l[i].msg = db[i].msg /\ l[i].added_ip = FALSE
    BY <1>4, <1>5
  <2>3. Key(db[i]) = k
    BY <2>1, <2>2 DEF Key
  <2>4. k \in KeysOf(db)
    BY <1>2, <2>2, <2>3, KeysOfList
  <2>5. AsStore(db)[k] = CacheEntry(db[i].msg, db[i].added_ip)
    BY <1>2, <2>2, <2>3, StoreAt
  <2>6. AsDb(db)[k] = db[i].msg
    BY <1>7, <2>4, <2>5 DEF CacheEntry
  <2>7. AsStore(l)[k] = CacheEntry(l[i].msg, l[i].added_ip)
    BY <1>4, <2>1, StoreAt
  <2> QED
    BY <2>2, <2>4, <2>6, <2>7
<1>9. AsStore(l) = [k \in S |-> AsStore(l)[k]]
  BY <1>4, <1>6, StoreAt
<1>10. S \subseteq DOMAIN AsDb(db) /\ AsStore(list') = [k \in S |-> CacheEntry(AsDb(db)[k], FALSE)]
  BY <1>1, <1>3, <1>7, <1>8, <1>9
<1> QED
  BY <1>1, <1>10 DEF Contract!Restart, Contract!Reloaded, Contract!CacheEntry, CacheEntry

(* The cache implements its contract: every step of the LRU list, the hash  *)
(* map and the db file is a step of the partial function of CacheContract,  *)
(* or leaves it alone; after a dump that was cut within a record, too, load *)
(* brings back only messages that were dumped whole.                        *)
THEOREM CacheImplementsContract == Spec => ImplementsContract
<1>1. Init => Contract!ContractInit
  <2> SUFFICES ASSUME Init PROVE Contract!ContractInit
    OBVIOUS
  <2>1. list = <<>> /\ db = <<>>
    BY DEF Init
  <2>2. KeysOf(<<>>) = {}
    BY DEF KeysOf
  <2>3. AsStore(list) = [k \in {} |-> CacheEntry(AsDb(db)[k], FALSE)]
    BY <2>1, <2>2 DEF AsStore
  <2>4. AsStore(list) = Contract!Reloaded({}) /\ {} \in SUBSET DOMAIN AsDb(db)
    BY <2>3 DEF Contract!Reloaded, Contract!CacheEntry, CacheEntry
  <2> QED
    BY <2>1, <2>4 DEF Contract!ContractInit
<1>2. ASSUME CacheInv, [Next]_vars PROVE [Contract!ContractNext]_(Contract!contractVars)
  <2>1. CASE \E k \in Keys : GetHit(k) \/ GetExpired(k)
    BY <1>2, <2>1, HitStep, MissStep DEF Contract!ContractNext
  <2>2. ASSUME NEW m \in Messages, AddEntry(m, Ttl[m]) PROVE Contract!ContractNext
    BY <1>2, <2>2, AddStep DEF Contract!ContractNext
  <2>3. ASSUME UNCHANGED <<list, db>> PROVE UNCHANGED Contract!contractVars
    BY <2>3 DEF Contract!contractVars
  <2>4. ASSUME NEW m \in Messages, AddSameTtl(m, Ttl[m]) PROVE UNCHANGED Contract!contractVars
    BY <2>3, <2>4 DEF AddSameTtl
  <2>5. CASE \E lost \in 0..MaxLost : Dump(lost)
    BY <1>2, <2>5, DumpStep DEF Contract!ContractNext
  <2>6. CASE \E S \in Removals : Delete(S)
    BY <1>2, <2>6, RemoveStep DEF Contract!ContractNext
  <2>7. CASE Restart
    BY <1>2, <2>7, RestartStep DEF Contract!ContractNext
  <2>8. CASE \E d \in Ticks : Tick(d)
    BY <2>3, <2>8 DEF Tick
  <2>9. CASE UNCHANGED vars
    BY <2>3, <2>9 DEF vars
  <2> QED
    BY <1>2, <2>1, <2>2, <2>4, <2>5, <2>6, <2>7, <2>8, <2>9 DEF Next
<1> QED
  BY CacheInvariance, <1>1, <1>2, PTL DEF Spec, ImplementsContract, Contract!ContractSpec

==============================================================================
