----------------------------- MODULE IpsetProofs -----------------------------
(***************************************************************************)
(* Proofs about Ipset: the buffers suffice, a test is answered about its   *)
(* own address, what was to be added reaches the set, and nothing else     *)
(* does; for any number of addresses in a request, any length of addresses *)
(* and any configuration, contents of the sets and failing sends.          *)
(***************************************************************************)
EXTENDS Ipset, SequenceLemmas

-----------------------------------------------------------------------------
(* Addresses as numbers *)

Digits(n) == [1..n -> 0..(Base - 1)]

(* The recursion that defines Num, as an equation. *)
LEMMA NumRecursion ==
  ASSUME NEW ip
  PROVE  \E num : /\ num = [k \in Nat |-> num[k]]
                  /\ num[0] = 0 /\ Num(ip) = num[Len(ip)]
                  /\ \A k \in Nat \ {0} : num[k] = num[k - 1] * Base + ip[k]
<1> DEFINE num[k \in Nat] == IF k = 0 THEN 0 ELSE num[k - 1] * Base + ip[k]
           d(v, k) == v * Base + ip[k]
<1>1. NatInductiveDefHypothesis(num, 0, d)
  BY DEF NatInductiveDefHypothesis
<1>2. NatInductiveDefConclusion(num, 0, d)
  BY <1>1, NatInductiveDef
<1>3. num = [k \in Nat |-> IF k = 0 THEN 0 ELSE d(num[k - 1], k)]
  BY <1>2 DEF NatInductiveDefConclusion
<1>4. Num(ip) = num[Len(ip)]
  BY DEF Num
<1> HIDE DEF num
<1>5. /\ num = [k \in Nat |-> num[k]] /\ num[0] = 0
      /\ \A k \in Nat \ {0} : num[k] = num[k - 1] * Base + ip[k]
  BY <1>3
<1> QED
  BY <1>4, <1>5

(* A number has one representation. *)
LEMMA DigitsUnique ==
  ASSUME NEW B \in Nat \ {0}, NEW a \in Nat, NEW b \in Nat,
         NEW x \in 0..(B - 1), NEW y \in 0..(B - 1), a * B + x = b * B + y
  PROVE  a = b /\ x = y
<1>1. ASSUME NEW p \in Nat, NEW q \in Nat, p < q PROVE p * B + B <= q * B
  <2>1. PICK r \in Nat : q = p + 1 + r
    <3>1. q - p - 1 \in Nat /\ q = p + 1 + (q - p - 1)
      BY <1>1
    <3> QED
      BY <3>1
  <2>2. (p + 1 + r) * B = p * B + B + r * B
    OBVIOUS
  <2>3. r * B \in Nat /\ p * B \in Nat
    OBVIOUS
  <2> QED
    BY <2>1, <2>2, <2>3
<1>2. a * B \in Nat /\ b * B \in Nat
  OBVIOUS
<1>3. ~(a < b)
  <2> SUFFICES ASSUME a < b PROVE FALSE
    OBVIOUS
  <2>1. a * B + B <= b * B
    BY <1>1
  <2> QED
    BY <1>2, <2>1
<1>4. ~(b < a)
  <2> SUFFICES ASSUME b < a PROVE FALSE
    OBVIOUS
  <2>1. b * B + B <= a * B
    BY <1>1
  <2> QED
    BY <1>2, <2>1
<1>5. a = b
  BY <1>3, <1>4
<1> QED
  BY <1>2, <1>5

(* An address is a natural number. *)
LEMMA NumIsNat ==
  ASSUME NEW n \in Nat, NEW s \in Digits(n), NEW num,
         num[0] = 0, \A k \in Nat \ {0} : num[k] = num[k - 1] * Base + s[k]
  PROVE  \A k \in 0..n : num[k] \in Nat
<1> DEFINE H == {k \in Nat : num[k] \in Nat}
<1>1. 0 \in H
  OBVIOUS
<1>2. ASSUME NEW k \in 1..n, k - 1 \in H PROVE k \in H
  <2>1. num[k] = num[k - 1] * Base + s[k] /\ s[k] \in Nat
    BY DEF Digits
  <2>2. \A a, b, c \in Nat : a * b + c \in Nat
    OBVIOUS
  <2> QED
    BY <1>2, <2>1, <2>2, IpsetAssumption
<1> HIDE DEF H
<1>3. \A k \in 0..n : k \in H
  BY <1>1, <1>2, UpTo
<1> QED
  BY <1>3 DEF H

(* The length of an address. *)
LEMMA DigitsLen ==
  ASSUME NEW n \in Nat, NEW s \in Digits(n)
  PROVE  s \in Seq(0..(Base - 1)) /\ Len(s) = n /\ DOMAIN s = 1..n
<1>1. s \in [1..n -> 0..(Base - 1)] /\ DOMAIN s = 1..n
  BY DEF Digits
<1>2. s \in Seq(0..(Base - 1))
  BY <1>1, SeqDef
<1>3. Len(s) \in Nat /\ DOMAIN s = 1..Len(s)
  BY <1>2, LenProperties
<1>4. Len(s) = n
  BY <1>1, <1>3
<1> QED
  BY <1>1, <1>2, <1>4

(* Two addresses of the same length with the same number are the same. *)
LEMMA NumInjective ==
  ASSUME NEW n \in Nat, NEW s \in Digits(n), NEW t \in Digits(n)
  PROVE  /\ Num(s) \in Nat
         /\ Num(s) = Num(t) => s = t
<1>1. PICK a : /\ a[0] = 0 /\ Num(s) = a[Len(s)]
               /\ \A k \in Nat \ {0} : a[k] = a[k - 1] * Base + s[k]
  BY NumRecursion
<1>2. PICK b : /\ b[0] = 0 /\ Num(t) = b[Len(t)]
               /\ \A k \in Nat \ {0} : b[k] = b[k - 1] * Base + t[k]
  BY NumRecursion
<1>3. Len(s) = n /\ Len(t) = n
  BY DigitsLen
<1>4. \A k \in 0..n : a[k] \in Nat /\ b[k] \in Nat
  BY <1>1, <1>2, NumIsNat
<1> DEFINE H == {k \in 0..n : a[k] = b[k] => \A j \in 1..k : s[j] = t[j]}
<1>5. 0 \in H
  OBVIOUS
<1>6. ASSUME NEW k \in 1..n, k - 1 \in H PROVE k \in H
  <2>1. SUFFICES ASSUME a[k] = b[k] PROVE \A j \in 1..k : s[j] = t[j]
    OBVIOUS
  <2>2. k \in Nat \ {0} /\ k - 1 \in 0..n
    OBVIOUS
  <2>3. /\ a[k] = a[k - 1] * Base + s[k] /\ b[k] = b[k - 1] * Base + t[k]
        /\ a[k - 1] \in Nat /\ b[k - 1] \in Nat
    BY <1>1, <1>2, <1>4, <2>2
  <2>4. s[k] \in 0..(Base - 1) /\ t[k] \in 0..(Base - 1)
    BY DEF Digits
  <2>5. a[k - 1] = b[k - 1] /\ s[k] = t[k]
    <3>1. PICK p \in Nat, q \in Nat : p = a[k - 1] /\ q = b[k - 1]
      BY <2>3
    <3>2. p * Base + s[k] = q * Base + t[k] /\ Base \in Nat \ {0}
      BY <2>1, <2>3, <3>1, IpsetAssumption
    <3>3. p = q /\ s[k] = t[k]
      BY <2>4, <3>2, DigitsUnique
    <3> QED
      BY <3>1, <3>3
  <2>6. \A j \in 1..(k - 1) : s[j] = t[j]
    BY <1>6, <2>5
  <2>7. \A j \in 1..k : j = k \/ j \in 1..(k - 1)
    OBVIOUS
  <2> QED
    BY <2>5, <2>6, <2>7
<1> HIDE DEF H
<1>7. n \in H
  <2>1. \A k \in 0..n : k \in H
    BY <1>5, <1>6, UpTo
  <2> QED
    BY <2>1
<1>8. ASSUME Num(s) = Num(t) PROVE s = t
  <2>1. \A j \in 1..n : s[j] = t[j]
    BY <1>1, <1>2, <1>3, <1>7, <1>8 DEF H
  <2> QED
    BY <2>1 DEF Digits
<1> QED
  BY <1>1, <1>3, <1>4, <1>8

(* The interval of an address ends at the next one: the loop in             *)
(* add_ip_nftset counts up by one, whatever carries.                        *)
LEMMA EndIsNext ==
  ASSUME NEW n \in Nat, NEW s \in Digits(n), \E i \in 1..n : s[i] # Base - 1
  PROVE  /\ EndOfInterval(s) \in Digits(n)
         /\ Num(EndOfInterval(s)) = Num(s) + 1
<1> DEFINE e == EndOfInterval(s)
           W(i) == \A j \in i..n : s[j] = Base - 1
<1>1. Len(s) = n /\ DOMAIN s = 1..n /\ \A i \in 1..n : s[i] \in 0..(Base - 1)
  BY DigitsLen DEF Digits
<1>2. e = [i \in 1..n |-> IF W(i) THEN 0
                          ELSE IF i = n \/ W(i + 1) THEN s[i] + 1 ELSE s[i]]
  BY <1>1 DEF EndOfInterval
<1>3. Base \in Nat \ {0}
  BY IpsetAssumption
<1>4. ASSUME NEW i \in 1..n PROVE W(i) <=> s[i] = Base - 1 /\ (i = n \/ W(i + 1))
  <2>1. i..n = {i} \cup ((i + 1)..n) /\ (i = n => (i + 1)..n = {})
    OBVIOUS
  <2> QED
    BY <2>1
<1>5. e \in Digits(n)
  <2>1. ASSUME NEW i \in 1..n PROVE e[i] \in 0..(Base - 1)
    <3>1. CASE W(i)
      BY <1>2, <1>3, <3>1
    <3>2. CASE ~W(i) /\ (i = n \/ W(i + 1))
      <4>1. s[i] # Base - 1 /\ s[i] \in 0..(Base - 1)
        BY <1>1, <1>4, <3>2
      <4>2. e[i] = s[i] + 1
        BY <1>2, <3>2
      <4> QED
        BY <1>3, <4>1, <4>2
    <3>3. CASE ~W(i) /\ ~(i = n \/ W(i + 1))
      BY <1>1, <1>2, <3>3
    <3> QED
      BY <3>1, <3>2, <3>3
  <2> HIDE DEF W
  <2> QED
    BY <1>2, <2>1 DEF Digits
<1> HIDE DEF e
<1>6. PICK a : /\ a[0] = 0 /\ Num(s) = a[Len(s)]
               /\ \A k \in Nat \ {0} : a[k] = a[k - 1] * Base + s[k]
  BY NumRecursion
<1>7. PICK b : /\ b[0] = 0 /\ Num(e) = b[Len(e)]
               /\ \A k \in Nat \ {0} : b[k] = b[k - 1] * Base + e[k]
  BY NumRecursion
<1>8. Len(e) = n /\ \A k \in 0..n : a[k] \in Nat /\ b[k] \in Nat
  BY <1>5, <1>6, <1>7, DigitsLen, NumIsNat
<1> DEFINE Carried(k) == k = n \/ W(k + 1)
           H == {k \in 0..n : b[k] = IF Carried(k) THEN a[k] + 1 ELSE a[k]}
<1> HIDE DEF W
<1>9. ~W(1) /\ n # 0
  BY DEF W
<1>10. 0 \in H
  BY <1>6, <1>7, <1>9
<1>11. ASSUME NEW k \in 1..n, k - 1 \in H PROVE k \in H
  <2>1. k \in Nat \ {0} /\ k - 1 \in 0..n /\ k - 1 # n /\ (k - 1) + 1 = k
    OBVIOUS
  <2>2. /\ a[k] = a[k - 1] * Base + s[k] /\ b[k] = b[k - 1] * Base + e[k]
        /\ a[k - 1] \in Nat /\ b[k - 1] \in Nat
    BY <1>6, <1>7, <1>8, <2>1
  <2>3. b[k - 1] = IF W(k) THEN a[k - 1] + 1 ELSE a[k - 1]
    BY <1>11, <2>1
  <2>4. e[k] = IF W(k) THEN 0 ELSE IF Carried(k) THEN s[k] + 1 ELSE s[k]
    BY <1>2
  <2>5. W(k) <=> s[k] = Base - 1 /\ Carried(k)
    BY <1>4
  <2>6. s[k] \in Nat
    BY <1>1
  <2> HIDE DEF Carried
  <2>7. b[k] = IF Carried(k) THEN a[k] + 1 ELSE a[k]
    <3>1. CASE W(k)
      <4>1. b[k] = (a[k - 1] + 1) * Base + 0 /\ a[k] = a[k - 1] * Base + (Base - 1)
        BY <2>2, <2>3, <2>4, <2>5, <3>1
      <4>2. (a[k - 1] + 1) * Base = a[k - 1] * Base + Base /\ a[k - 1] * Base \in Nat
        BY <1>3, <2>2
      <4> QED
        BY <1>3, <2>5, <3>1, <4>1, <4>2
    <3>2. CASE ~W(k)
      <4>1. b[k] = a[k - 1] * Base + e[k] /\ a[k - 1] * Base \in Nat
        BY <1>3, <2>2, <2>3, <3>2
      <4> QED
        BY <2>2, <2>4, <2>6, <3>2, <4>1
    <3> QED
      BY <3>1, <3>2
  <2> QED
    BY <2>7
<1>12. n \in H
  <2> HIDE DEF H
  <2>1. \A k \in 0..n : k \in H
    BY <1>10, <1>11, UpTo
  <2> QED
    BY <2>1
<1>13. b[n] = a[n] + 1
  BY <1>12
<1> QED
  BY <1>1, <1>5, <1>6, <1>7, <1>8, <1>13 DEF e

(* The addresses of the replies. *)
Valid == {ip \in Addresses : \E i \in DOMAIN ip : ip[i] # Base - 1}

(* An address is one of its family. *)
LEMMA ValidDigits ==
  ASSUME NEW ip \in Valid
  PROVE  /\ Bytes[FamilyOf(ip)] \in Nat \ {0} /\ ip \in Digits(Bytes[FamilyOf(ip)])
         /\ FamilyOf(ip) \in Families
<1>1. PICK f \in Families : ip \in Digits(Bytes[f])
  BY DEF Valid, Addresses, Digits
<1>2. Bytes[f] \in Nat \ {0} /\ Bytes[4] # Bytes[6]
  BY IpsetAssumption
<1>3. Len(ip) = Bytes[f]
  BY <1>1, <1>2, DigitsLen
<1>4. FamilyOf(ip) = f
  BY <1>2, <1>3 DEF FamilyOf, Families
<1> QED
  BY <1>1, <1>2, <1>4

(* An IPv6 address that is neither unspecified nor loopback is above 1.     *)
LEMMA LargeNum ==
  ASSUME NEW n \in Nat \ {0}, NEW s \in Digits(n),
         ~(s[n] \in {0, 1} /\ \A i \in 1..(n - 1) : s[i] = 0)
  PROVE  Num(s) > 1
<1>1. PICK a : /\ a[0] = 0 /\ Num(s) = a[Len(s)]
               /\ \A k \in Nat \ {0} : a[k] = a[k - 1] * Base + s[k]
  BY NumRecursion
<1>2. Len(s) = n /\ \A k \in 0..n : a[k] \in Nat
  BY <1>1, DigitsLen, NumIsNat
<1>3. Base \in Nat \ {0} /\ \A k \in 1..n : s[k] \in 0..(Base - 1)
  BY IpsetAssumption DEF Digits
<1> DEFINE H == {k \in 0..n : (\E i \in 1..k : s[i] # 0) => a[k] >= 1}
<1>4. 0 \in H
  OBVIOUS
<1>5. ASSUME NEW k \in 1..n, k - 1 \in H PROVE k \in H
  <2>1. SUFFICES ASSUME NEW i \in 1..k, s[i] # 0 PROVE a[k] >= 1
    OBVIOUS
  <2>2. k \in Nat \ {0} /\ k - 1 \in 0..n
    OBVIOUS
  <2>3. PICK p \in Nat : p = a[k - 1]
    BY <1>2, <2>2
  <2>4. a[k] = p * Base + s[k] /\ p * Base \in Nat /\ s[k] \in Nat
    BY <1>1, <1>3, <2>2, <2>3
  <2>5. CASE i = k
    BY <2>1, <2>4, <2>5
  <2>6. CASE i # k
    <3>1. i \in 1..(k - 1)
      BY <2>6
    <3>2. p >= 1
      BY <1>5, <2>1, <2>3, <3>1
    <3>3. PICK r \in Nat : p = 1 + r
      <4>1. p - 1 \in Nat /\ p = 1 + (p - 1)
        BY <3>2
      <4> QED
        BY <4>1
    <3>4. (1 + r) * Base = Base + r * Base /\ r * Base \in Nat
      BY <1>3
    <3> QED
      BY <1>3, <2>4, <3>3, <3>4
  <2> QED
    BY <2>5, <2>6
<1>6. n - 1 \in H
  <2> HIDE DEF H
  <2>1. \A k \in 0..n : k \in H
    BY <1>4, <1>5, UpTo
  <2>2. n - 1 \in 0..n
    OBVIOUS
  <2> QED
    BY <2>1, <2>2
<1>7. PICK p \in Nat : p = a[n - 1]
  BY <1>2
<1>8. Num(s) = p * Base + s[n] /\ p * Base \in Nat /\ s[n] \in Nat
  <2>1. a[n] = a[n - 1] * Base + s[n]
    BY <1>1
  <2>2. s[n] \in 0..(Base - 1)
    BY <1>3
  <2>3. Num(s) = p * Base + s[n] /\ s[n] \in Nat
    BY <1>1, <1>2, <1>7, <2>1, <2>2
  <2>4. \A x, y \in Nat : x * y \in Nat
    OBVIOUS
  <2> QED
    BY <1>3, <2>3, <2>4
<1>9. CASE s[n] \notin {0, 1}
  <2>1. s[n] > 1
    BY <1>8, <1>9
  <2> QED
    BY <1>8, <2>1
<1>10. CASE \E i \in 1..(n - 1) : s[i] # 0
  <2>1. p >= 1
    BY <1>6, <1>7, <1>10
  <2>2. Base >= 2
    BY <1>3, <1>10
  <2>3. PICK r \in Nat : p = 1 + r
    <3>1. p - 1 \in Nat /\ p = 1 + (p - 1)
      BY <2>1
    <3> QED
      BY <3>1
  <2>4. (1 + r) * Base = Base + r * Base /\ r * Base \in Nat
    BY <1>3
  <2> QED
    BY <1>3, <1>8, <2>2, <2>3, <2>4
<1> QED
  BY <1>9, <1>10

(* The element of address ip for the set of family f in context c. *)
ElementOf(c, f, ip) ==
  [set |-> c.name[f], start |-> ip,
   end |-> IF backend = "ipset" THEN None ELSE EndOfInterval(ip)]

(* An element stands for its address and for no other. *)
LEMMA CoversItself ==
  ASSUME NEW ip \in Valid, NEW c, NEW f
  PROVE  Covered(ElementOf(c, f, ip)) = {ip}
<1> DEFINE e == ElementOf(c, f, ip)
           n == Bytes[FamilyOf(ip)]
<1>1. e.start = ip /\ (backend # "ipset" => e.end = EndOfInterval(ip))
  BY DEF ElementOf
<1>2. n \in Nat \ {0} /\ ip \in Digits(n) /\ Len(ip) = n /\ DOMAIN ip = 1..n
  BY ValidDigits, DigitsLen
<1>3. CASE backend = "ipset"
  BY <1>1, <1>3 DEF Covered
<1>4. CASE backend # "ipset"
  <2>1. Num(EndOfInterval(ip)) = Num(ip) + 1
    BY <1>2, EndIsNext DEF Valid
  <2>2. Covered(e) = {x \in Digits(n) : Num(ip) <= Num(x) /\ Num(x) < Num(ip) + 1}
    BY <1>1, <1>2, <1>4, <2>1 DEF Covered, Digits
  <2>3. Num(ip) \in Nat
    BY <1>2, NumInjective
  <2>4. ASSUME NEW x \in Digits(n), Num(ip) <= Num(x), Num(x) < Num(ip) + 1
        PROVE  x = ip
    <3>1. Num(x) \in Nat
      BY <1>2, NumInjective
    <3>2. Num(x) = Num(ip)
      BY <2>3, <2>4, <3>1
    <3> QED
      BY <1>2, <3>2, NumInjective
  <2>5. Num(ip) <= Num(ip) /\ Num(ip) < Num(ip) + 1
    BY <2>3
  <2> HIDE DEF n, e
  <2> QED
    BY <1>2, <2>2, <2>4, <2>5 DEF e
<1> QED
  BY <1>3, <1>4

-----------------------------------------------------------------------------
(* Contexts *)

(* The fields of a context have their types. *)
IsCtx(c) ==
  /\ c = [kind |-> c.kind, name |-> c.name, baselen |-> c.baselen,
          nlmsg_len |-> c.nlmsg_len, ipcnt |-> c.ipcnt, mem |-> c.mem]
  /\ c.baselen \in [Families -> Nat] /\ c.nlmsg_len \in [Families -> Nat]
  /\ c.ipcnt \in [Families -> 0..IP_N]
  /\ c.mem = [f \in Families |-> c.mem[f]]

(* There is room for a full batch, and a batch ends where nlmsg_len says. *)
HasRoom(c, f) ==
  /\ c.name[f] # None =>
       /\ c.baselen[f] + IP_N * elemsz(backend, f) <= BUFSZ_ADD(backend, f)
       /\ c.nlmsg_len[f] <= BUFSZ_ADD(backend, f)
       /\ TestLen(backend, c.name[f], f) <= BUFSZ_TEST(backend, f)
  /\ c.ipcnt[f] > 0 =>
       /\ c.name[f] # None
       /\ c.nlmsg_len[f] = c.baselen[f] + c.ipcnt[f] * elemsz(backend, f)

CtxFine(c) == IsCtx(c) /\ \A f \in Families : HasRoom(c, f)

Place(c, f, k) == c.baselen[f] + (k - 1) * elemsz(backend, f) + 3

(* The k-th element of the batch of family f is that of ip. *)
Written(c, f, k, ip) ==
  LET at == Place(c, f, k)
  IN /\ at \in DOMAIN c.mem[f] /\ c.mem[f][at] = ip
     /\ backend # "ipset" => /\ at + iplen(f) + 5 \in DOMAIN c.mem[f]
                             /\ c.mem[f][at + iplen(f) + 5] = EndOfInterval(ip)

(* What next_ip finds is what add_ip wrote. *)
LEMMA ElementFound ==
  ASSUME NEW c, NEW f, NEW k, NEW ip, Written(c, f, k, ip)
  PROVE  ElementAt(c, f, k) = ElementOf(c, f, ip)
BY DEF Written, ElementAt, ElementOf, Place

(* The room that a batch takes. *)
LEMMA BatchLength ==
  ASSUME NEW f \in Families, NEW k \in Nat, NEW n \in Nat, k <= n
  PROVE  /\ elemsz(backend, f) \in Nat \ {0}
         /\ k * elemsz(backend, f) \in Nat
         /\ k * elemsz(backend, f) <= n * elemsz(backend, f)
         /\ (k + 1) * elemsz(backend, f) = k * elemsz(backend, f) + elemsz(backend, f)
<1>1. elemsz(backend, f) \in {4, 7, 10, 16}
  BY DEF elemsz, iplen, Families
<1> QED
  BY <1>1

(* Two elements of a batch do not overlap. *)
LEMMA PlacesDiffer ==
  ASSUME NEW c, NEW f \in Families, c.baselen[f] \in Nat, NEW k \in Nat, NEW n \in Nat, k < n
  PROVE  /\ Place(c, f, k) # Place(c, f, n)
         /\ Place(c, f, k) # Place(c, f, n) + iplen(f) + 5
         /\ backend # "ipset" =>
              /\ Place(c, f, k) + iplen(f) + 5 # Place(c, f, n)
              /\ Place(c, f, k) + iplen(f) + 5 # Place(c, f, n) + iplen(f) + 5
<1>1. \/ f = 4 /\ iplen(f) = 1
      \/ f = 6 /\ iplen(f) = 4
  BY DEF iplen, Families
<1>2. CASE backend = "ipset"
  <2>1. elemsz(backend, f) = 3 + iplen(f)
    BY <1>2 DEF elemsz
  <2> QED
    BY <1>1, <1>2, <2>1 DEF Place
<1>3. CASE backend # "ipset"
  <2>1. elemsz(backend, f) = 7 + 1 + 2 * iplen(f)
    BY <1>3 DEF elemsz
  <2> QED
    BY <1>1, <1>3, <2>1 DEF Place
<1> QED
  BY <1>2, <1>3

(* ipset_add_ip on a batch that is not full: the address comes behind the   *)
(* others, which stay as they are.                                          *)
LEMMA AppendedKeeps ==
  ASSUME NEW c, CtxFine(c), NEW f \in Families, c.name[f] # None, c.ipcnt[f] < IP_N,
         NEW ip
  PROVE  LET d == Appended(c, f, ip)
         IN  /\ CtxFine(d) /\ d.name = c.name /\ d.kind = c.kind
             /\ d.ipcnt = [c.ipcnt EXCEPT ![f] = c.ipcnt[f] + 1]
             /\ Written(d, f, c.ipcnt[f] + 1, ip)
             /\ \A g \in Families : \A k \in 1..c.ipcnt[g] : \A x :
                  Written(c, g, k, x) => Written(d, g, k, x)
<1> DEFINE sz == elemsz(backend, f)
           n == c.ipcnt[f]
           end == c.baselen[f] + n * sz
           at == end + 3
           start == Put(c.mem[f], at, ip)
           mem == IF backend = "ipset" THEN start
                  ELSE Put(start, at + iplen(f) + 5, EndOfInterval(ip))
           d == Appended(c, f, ip)
<1>1. /\ c.baselen[f] \in Nat /\ n \in 0..IP_N /\ n < IP_N /\ IP_N \in Nat
      /\ c.nlmsg_len \in [Families -> Nat] /\ c.ipcnt \in [Families -> 0..IP_N]
  BY IpsetAssumption DEF CtxFine, IsCtx
<1>2. sz \in Nat \ {0} /\ n * sz \in Nat /\ (n + 1) * sz = n * sz + sz
      /\ (n + 1) * sz <= IP_N * sz
  <2>1. n \in Nat /\ n + 1 \in Nat /\ n <= n + 1 /\ n + 1 <= IP_N
    BY <1>1
  <2> QED
    BY <1>1, <2>1, BatchLength
<1>3. n * sz = 0 \/ n > 0
  BY <1>1, <1>2
<1>4. StartOver(c, f) = [c EXCEPT !.nlmsg_len[f] = end]
  <2>1. CASE n = 0
    BY <1>1, <1>2, <2>1 DEF StartOver
  <2>2. CASE n # 0
    <3>1. c.nlmsg_len[f] = end
      BY <1>1, <2>2 DEF CtxFine, HasRoom
    <3>2. [c EXCEPT !.nlmsg_len[f] = end] = c
      BY <1>1, <3>1 DEF CtxFine, IsCtx
    <3> QED
      BY <2>2, <3>2 DEF StartOver
  <2> QED
    BY <2>1, <2>2
<1>5. /\ d = [kind |-> c.kind, name |-> c.name, baselen |-> c.baselen,
              nlmsg_len |-> [c.nlmsg_len EXCEPT ![f] = end + sz],
              ipcnt |-> [c.ipcnt EXCEPT ![f] = n + 1],
              mem |-> [c.mem EXCEPT ![f] = mem]]
  <2> DEFINE e == StartOver(c, f)
  <2>1. e = [kind |-> c.kind, name |-> c.name, baselen |-> c.baselen,
             nlmsg_len |-> [c.nlmsg_len EXCEPT ![f] = end],
             ipcnt |-> c.ipcnt, mem |-> c.mem]
    BY <1>4 DEF CtxFine, IsCtx
  <2>2. e.nlmsg_len[f] = end /\ e.mem[f] = c.mem[f]
    BY <1>1, <2>1
  <2> HIDE DEF e
  <2>3. Element(e, f, ip) = [e EXCEPT !.nlmsg_len[f] = end + sz, !.mem[f] = mem]
    BY <2>2 DEF Element
  <2>4. Element(e, f, ip) = [kind |-> c.kind, name |-> c.name, baselen |-> c.baselen,
             nlmsg_len |-> [c.nlmsg_len EXCEPT ![f] = end + sz],
             ipcnt |-> c.ipcnt, mem |-> [c.mem EXCEPT ![f] = mem]]
    <3> HIDE DEF mem, end, sz
    <3>1. [[c.nlmsg_len EXCEPT ![f] = end] EXCEPT ![f] = end + sz]
             = [c.nlmsg_len EXCEPT ![f] = end + sz]
      BY <1>1
    <3>2. Element(e, f, ip) = [kind |-> e.kind, name |-> e.name, baselen |-> e.baselen,
             nlmsg_len |-> [e.nlmsg_len EXCEPT ![f] = end + sz],
             ipcnt |-> e.ipcnt, mem |-> [e.mem EXCEPT ![f] = mem]]
      BY <2>1, <2>3
    <3> QED
      BY <2>1, <3>1, <3>2
  <2> QED
    BY <2>4 DEF Appended, e
<1> HIDE DEF d
<1>6. /\ d.mem[f] = mem /\ d.baselen = c.baselen /\ d.name = c.name /\ d.kind = c.kind
      /\ d.ipcnt = [c.ipcnt EXCEPT ![f] = n + 1]
      /\ \A g \in Families \ {f} : d.mem[g] = c.mem[g]
  BY <1>5 DEF CtxFine, IsCtx
<1>7. IsCtx(d)
  <2>1. end + sz \in Nat /\ n + 1 \in 0..IP_N
    BY <1>1, <1>2
  <2>2. d.nlmsg_len \in [Families -> Nat] /\ d.ipcnt \in [Families -> 0..IP_N]
    BY <1>1, <1>5, <2>1
  <2>3. d.mem = [g \in Families |-> d.mem[g]]
    BY <1>5 DEF CtxFine, IsCtx
  <2> QED
    BY <1>5, <2>2, <2>3 DEF CtxFine, IsCtx
<1>8. ASSUME NEW g \in Families PROVE HasRoom(d, g)
  <2>1. CASE g = f
    <3>1. d.nlmsg_len[g] = end + sz /\ d.ipcnt[g] = n + 1
      BY <1>1, <1>5, <2>1
    <3>2. end + sz = c.baselen[f] + (n + 1) * sz
      BY <1>1, <1>2
    <3>3. end + sz <= c.baselen[f] + IP_N * sz /\ IP_N * sz \in Nat
      <4>1. IP_N * sz \in Nat
        BY <1>1, BatchLength
      <4> QED
        BY <1>1, <1>2, <3>2, <4>1
    <3>4. HasRoom(c, f)
      BY DEF CtxFine
    <3>5. BUFSZ_ADD(backend, f) \in Nat
      BY IpsetAssumption DEF BUFSZ_ADD, BUFSZ_ADD_IPSET, BUFSZ_ADD_NFTSET, nla_size, iplen, HeaderLen
    <3>6. d.name[g] # None =>
            /\ d.baselen[g] + IP_N * sz <= BUFSZ_ADD(backend, g)
            /\ TestLen(backend, d.name[g], g) <= BUFSZ_TEST(backend, g)
      BY <1>6, <2>1, <3>4 DEF HasRoom
    <3>7. end + sz <= BUFSZ_ADD(backend, f)
      <4>1. c.baselen[f] + IP_N * sz <= BUFSZ_ADD(backend, f)
        BY <3>4 DEF HasRoom
      <4>2. PICK x \in Nat : x = IP_N * sz
        BY <3>3
      <4>3. end + sz \in Nat
        BY <1>1, <1>2
      <4> HIDE DEF end, sz
      <4> QED
        BY <1>1, <3>3, <3>5, <4>1, <4>2, <4>3
    <3>8. d.name[g] # None
      BY <1>6, <2>1
    <3> HIDE DEF end
    <3> QED
      BY <1>6, <2>1, <3>1, <3>2, <3>6, <3>7, <3>8 DEF HasRoom
  <2>2. CASE g # f
    <3>1. d.nlmsg_len[g] = c.nlmsg_len[g] /\ d.ipcnt[g] = c.ipcnt[g]
      BY <1>1, <1>5, <2>2
    <3>2. HasRoom(c, g)
      BY DEF CtxFine
    <3> QED
      BY <1>6, <3>1, <3>2 DEF HasRoom
  <2> QED
    BY <2>1, <2>2
<1>9. Place(d, f, n + 1) = at /\ \A k : Place(d, f, k) = Place(c, f, k)
  <2>1. (n + 1) - 1 = n
    BY <1>1
  <2> QED
    BY <1>6, <2>1 DEF Place
<1>10. Written(d, f, n + 1, ip)
  <2>1. at # at + iplen(f) + 5
    BY <1>1, <1>2 DEF iplen
  <2>2. start = [x \in DOMAIN c.mem[f] \cup {at} |-> IF x = at THEN ip ELSE c.mem[f][x]]
    BY DEF Put
  <2>3. at \in DOMAIN start /\ start[at] = ip
    BY <2>2
  <2>4. backend # "ipset" =>
          mem = [x \in DOMAIN start \cup {at + iplen(f) + 5} |->
                   IF x = at + iplen(f) + 5 THEN EndOfInterval(ip) ELSE start[x]]
    BY DEF Put
  <2> HIDE DEF start, at, mem
  <2>5. /\ at \in DOMAIN mem /\ mem[at] = ip
        /\ backend # "ipset" => /\ at + iplen(f) + 5 \in DOMAIN mem
                                /\ mem[at + iplen(f) + 5] = EndOfInterval(ip)
    BY <2>1, <2>3, <2>4 DEF mem
  <2> QED
    BY <1>6, <1>9, <2>5 DEF Written
<1>11. ASSUME NEW g \in Families, NEW k \in 1..c.ipcnt[g], NEW x, Written(c, g, k, x)
       PROVE  Written(d, g, k, x)
  <2>1. CASE g # f
    BY <1>6, <1>11, <2>1 DEF Written, Place
  <2>2. CASE g = f
    <3>1. k \in Nat /\ n + 1 \in Nat /\ k < n + 1
      BY <1>1, <2>2
    <3> DEFINE p == Place(c, f, k)
               q == p + iplen(f) + 5
    <3>2. Place(c, f, n + 1) = at
      BY <1>9
    <3>3. /\ p # at /\ p # at + iplen(f) + 5
          /\ backend # "ipset" => q # at /\ q # at + iplen(f) + 5
      BY <1>1, <3>1, <3>2, PlacesDiffer
    <3>4. \A y \in DOMAIN c.mem[f] : y # at =>
            y \in DOMAIN start /\ start[y] = c.mem[f][y]
      BY DEF Put
    <3>5. backend # "ipset" =>
            \A y \in DOMAIN start : y # at + iplen(f) + 5 => y \in DOMAIN mem /\ mem[y] = start[y]
      BY DEF Put
    <3>6. backend = "ipset" => mem = start
      OBVIOUS
    <3> HIDE DEF mem, start, at, p
    <3>7. /\ p \in DOMAIN c.mem[f] /\ c.mem[f][p] = x
          /\ backend # "ipset" => q \in DOMAIN c.mem[f] /\ c.mem[f][q] = EndOfInterval(x)
      BY <1>11, <2>2 DEF Written, p
    <3>8. /\ p \in DOMAIN mem /\ mem[p] = x
          /\ backend # "ipset" => q \in DOMAIN mem /\ mem[q] = EndOfInterval(x)
      BY <3>3, <3>4, <3>5, <3>6, <3>7
    <3> QED
      BY <1>6, <1>9, <2>2, <3>8 DEF Written, p
  <2> QED
    BY <2>1, <2>2
<1>12. CtxFine(d)
  BY <1>7, <1>8 DEF CtxFine
<1> QED
  BY <1>6, <1>10, <1>11, <1>12 DEF d

(* A message is no longer than its buffer: the names that parse_name46 and  *)
(* the backends let through leave room for IP_N addresses.                  *)
LEMMA NamesFit ==
  ASSUME NEW be \in {"ipset", "nftset"}, NEW f \in Families, NEW name \in Seq(STRING),
         name # None, NameOk(be, name), be = "ipset" => Len(name) <= 1
  PROVE  /\ BaseLen(be, name) \in Nat
         /\ BaseLen(be, name) + IP_N * elemsz(be, f) <= BUFSZ_ADD(be, f)
         /\ Fields(name) # None => TestLen(be, Fields(name), f) <= BUFSZ_TEST(be, f)
<1>1. IP_N \in Nat /\ iplen(f) \in {1, 4}
  BY IpsetAssumption DEF iplen
<1>2. Len(name) \in Nat \ {0}
  BY EmptySeq, LenProperties DEF None
<1>3. /\ Fields(name) = name \/ Fields(name) = SubSeq(name, 1, Len(name) - 1)
  BY DEF Fields, Front
<1>4. /\ Fields(name) \in Seq(STRING) /\ Len(Fields(name)) \in {Len(name), Len(name) - 1}
      /\ \A i \in 1..Len(Fields(name)) : Fields(name)[i] = name[i]
  <2>1. LET t == SubSeq(name, 1, Len(name) - 1)
        IN  /\ t \in Seq(STRING) /\ Len(t) = Len(name) - 1
            /\ \A i \in 1..Len(t) : t[i] = name[i]
    <3>1. 1 \in 1..(Len(name) + 1) /\ Len(name) - 1 \in 0..Len(name)
      BY <1>2
    <3> DEFINE t == SubSeq(name, 1, Len(name) - 1)
    <3>2. t = [i \in 1..(Len(name) - 1) |-> name[i]]
      BY <1>2
    <3>3. t \in Seq(STRING)
      BY <1>2
    <3>4. Len(t) = Len(name) - 1
      <4>1. \A i \in 1..(Len(name) - 1) : name[i] \in STRING
        BY <1>2
      <4>2. Len(t) = IF 1 <= Len(name) - 1 THEN (Len(name) - 1) - 1 + 1 ELSE 0
        BY <1>2, <4>1, SubSeqProperties
      <4> HIDE DEF t
      <4> QED
        <5>1. PICK m \in Nat \ {0} : m = Len(name)
          BY <1>2
        <5>2. m - 1 = IF 1 <= m - 1 THEN (m - 1) - 1 + 1 ELSE 0
          OBVIOUS
        <5> QED
          BY <4>2, <5>1, <5>2
    <3> HIDE DEF t
    <3> QED
      BY <3>2, <3>3, <3>4 DEF t
  <2> QED
    BY <1>3, <2>1
<1>5. CASE be = "ipset"
  <2>1. StrLen[name[1]] \in 1..31
    BY <1>5 DEF NameOk, get_namelen_ipset_ok
  <2>2. StrWords(name[1]) \in 1..8
    <3>1. \A v \in 1..31 : (v + 4) \div 4 \in 1..8
      OBVIOUS
    <3> QED
      BY <2>1, <3>1 DEF StrWords
  <2>3. Fields(name) # None => Fields(name)[1] = name[1]
    BY <1>4, EmptySeq, LenProperties DEF None
  <2>4. PICK w \in 1..8 : w = StrWords(name[1])
    BY <2>2
  <2>5. BaseLen(be, name) = 11 + w
    BY <1>5, <2>4 DEF BaseLen, init_addmsg_ipset, nla_size, HeaderLen
  <2>6. BUFSZ_ADD(be, f) = 19 + IP_N * elemsz(be, f)
    <3>1. BUFSZ_ADD(be, f) = 19 + IP_N * (2 + (1 + iplen(f)))
      BY <1>1, <1>5 DEF BUFSZ_ADD, BUFSZ_ADD_IPSET, nla_size, HeaderLen
    <3>2. 2 + (1 + iplen(f)) = elemsz(be, f)
      BY <1>1, <1>5 DEF elemsz
    <3> QED
      BY <3>1, <3>2
  <2>7. IP_N * elemsz(be, f) \in Nat
    BY <1>1, <1>5 DEF elemsz
  <2>8. Fields(name) # None => TestLen(be, Fields(name), f) = 11 + w + iplen(f)
    BY <1>1, <1>5, <2>3, <2>4 DEF TestLen, init_testmsg_ipset, nla_size, HeaderLen
  <2>9. BUFSZ_TEST(be, f) = 19 + iplen(f)
    BY <1>1, <1>5 DEF BUFSZ_TEST, BUFSZ_TEST_IPSET, nla_size, HeaderLen
  <2> QED
    BY <1>1, <2>4, <2>5, <2>6, <2>7, <2>8, <2>9
<1>6. CASE be = "nftset"
  <2>1. /\ Len(Fields(name)) = 3 /\ StrLen[name[2]] \in 1..255 /\ StrLen[name[3]] \in 1..255
    BY <1>6 DEF NameOk, parse_name_nftset_ok
  <2>2. StrWords(name[2]) \in 1..64 /\ StrWords(name[3]) \in 1..64
    <3>1. \A v \in 1..255 : (v + 4) \div 4 \in 1..64
      OBVIOUS
    <3> QED
      BY <2>1, <3>1 DEF StrWords
  <2>3. Fields(name)[2] = name[2] /\ Fields(name)[3] = name[3]
    BY <1>4, <2>1
  <2>4. PICK v \in 1..64, w \in 1..64 : v = StrWords(name[2]) /\ w = StrWords(name[3])
    BY <2>2
  <2>5. BaseLen(be, name) = 8 + v + w
    BY <1>6, <2>4 DEF BaseLen, init_addmsg_nftset, nla_size, HeaderLen
  <2>6. BUFSZ_ADD(be, f) = 136 + IP_N * elemsz(be, f)
    <3>1. BUFSZ_ADD(be, f) = 136 + IP_N * (2 * (3 + iplen(f)) + 2)
      BY <1>1, <1>6 DEF BUFSZ_ADD, BUFSZ_ADD_NFTSET, nla_size, HeaderLen
    <3>2. 2 * (3 + iplen(f)) + 2 = elemsz(be, f)
      BY <1>1, <1>6 DEF elemsz
    <3> QED
      BY <3>1, <3>2
  <2>7. IP_N * elemsz(be, f) \in Nat
    BY <1>1, <1>6 DEF elemsz
  <2>8. TestLen(be, Fields(name), f) = 11 + v + w + iplen(f)
    BY <1>1, <1>6, <2>3, <2>4 DEF TestLen, init_testmsg_nftset, nla_size, HeaderLen
  <2>9. BUFSZ_TEST(be, f) = 139 + iplen(f)
    BY <1>1, <1>6 DEF BUFSZ_TEST, BUFSZ_TEST_NFTSET, nla_size, HeaderLen
  <2>10. PICK x \in Nat : x = IP_N * elemsz(be, f)
    BY <2>7
  <2>11. (8 + v + w) + x <= 136 + x /\ 8 + v + w \in Nat
    OBVIOUS
  <2>12. 11 + v + w + iplen(f) <= 139 + iplen(f)
    BY <1>1
  <2> QED
    BY <2>5, <2>6, <2>8, <2>9, <2>10, <2>11, <2>12
<1> QED
  BY <1>5, <1>6

-----------------------------------------------------------------------------
(* Requests and their answers *)

(* A batch holds the addresses of replies. *)
BatchFine(c) ==
  \A f \in Families : \A k \in 1..c.ipcnt[f] :
    \E ip \in Valid : FamilyOf(ip) = f /\ Written(c, f, k, ip)

InBatch(c, ip) == \E k \in 1..c.ipcnt[FamilyOf(ip)] : Written(c, FamilyOf(ip), k, ip)

(* The requests are the elements of both families, one after the other. *)
LEMMA RequestsList ==
  ASSUME NEW c, IsCtx(c)
  PROVE  /\ Len(Requests(c)) = c.ipcnt[4] + c.ipcnt[6]
         /\ Requests(c) = <<>> <=> c.ipcnt[4] + c.ipcnt[6] = 0
         /\ \A k \in 1..c.ipcnt[4] : Requests(c)[k] = ElementAt(c, 4, k)
         /\ \A k \in 1..c.ipcnt[6] : Requests(c)[c.ipcnt[4] + k] = ElementAt(c, 6, k)
<1> DEFINE S == {ElementAt(c, f, k) : f \in Families, k \in Nat}
           a == ElementsOf(c, 4)
           b == ElementsOf(c, 6)
           m == c.ipcnt[4]
           n == c.ipcnt[6]
<1>1. m \in Nat /\ n \in Nat
  BY IpsetAssumption DEF IsCtx, Families
<1>2. a = [k \in 1..m |-> ElementAt(c, 4, k)] /\ b = [k \in 1..n |-> ElementAt(c, 6, k)]
  BY DEF ElementsOf
<1>3. a \in [1..m -> S] /\ b \in [1..n -> S]
  BY <1>1, <1>2 DEF Families
<1>4. /\ a \in Seq(S) /\ Len(a) = m /\ b \in Seq(S) /\ Len(b) = n
  <2> HIDE DEF a, b, m, n, S
  <2>1. a \in Seq(S) /\ b \in Seq(S)
    BY <1>1, <1>3, SeqDef
  <2>2. Len(a) \in Nat /\ DOMAIN a = 1..Len(a) /\ Len(b) \in Nat /\ DOMAIN b = 1..Len(b)
    BY <2>1, LenProperties
  <2> QED
    BY <1>1, <1>3, <2>1, <2>2
<1> HIDE DEF a, b, m, n, S
<1>5. Requests(c) = a \o b
  BY DEF Requests, a, b
<1>6. /\ a \o b \in Seq(S) /\ Len(a \o b) = m + n
      /\ \A i \in 1..(m + n) : (a \o b)[i] = IF i <= m THEN a[i] ELSE b[i - m]
  BY <1>4, ConcatProperties
<1>7. ASSUME NEW k \in 1..m PROVE (a \o b)[k] = ElementAt(c, 4, k)
  <2>1. k \in 1..(m + n) /\ k <= m
    BY <1>1
  <2> QED
    BY <1>2, <1>6, <2>1
<1>8. ASSUME NEW k \in 1..n PROVE (a \o b)[m + k] = ElementAt(c, 6, k)
  <2>1. m + k \in 1..(m + n) /\ ~(m + k <= m) /\ (m + k) - m = k
    BY <1>1
  <2> QED
    BY <1>2, <1>6, <2>1
<1>9. a \o b = <<>> <=> m + n = 0
  BY <1>1, <1>6, EmptySeq
<1> QED
  BY <1>5, <1>6, <1>7, <1>8, <1>9 DEF m, n

Replies == {"NEWSETELEM", "OK", "IPSET_ERR_EXIST", "ENOENT"}

(* A request of an adding context has one answer: yes or no. *)
LEMMA AnsweredOnce ==
  ASSUME backend \in {"ipset", "nftset"}, NEW s, NEW p
  PROVE  \E x \in Replies : /\ KernelTest(s, p, AckOf("add")) = <<x>>
                            /\ test_res(x) <=> InSet(s, p)
<1> USE DEF Replies
<1> DEFINE K == KernelTest(s, p, AckOf("add"))
<1>1. CASE InSet(s, p) /\ backend = "nftset"
  <2>1. K = <<"NEWSETELEM">>
    BY <1>1 DEF KernelTest
  <2>2. test_res("NEWSETELEM")
    BY <1>1 DEF test_res
  <2> HIDE DEF K
  <2> WITNESS "NEWSETELEM" \in Replies
  <2> QED
    BY <1>1, <2>1, <2>2, Zenon DEF K
<1>2. CASE InSet(s, p) /\ backend = "ipset"
  <2>1. K = <<"OK">>
    <3>1. K = IF AckOf("add") THEN <<"OK">> ELSE <<>>
      BY <1>2 DEF KernelTest
    <3>2. AckOf("add")
      BY DEF AckOf
    <3> HIDE DEF K
    <3> QED
      BY <3>1, <3>2, Zenon
  <2>2. test_res("OK")
    BY <1>2 DEF test_res
  <2> HIDE DEF K
  <2> WITNESS "OK" \in Replies
  <2> QED
    BY <1>2, <2>1, <2>2, Zenon DEF K
<1>3. CASE ~InSet(s, p)
  <2>1. K = <<"IPSET_ERR_EXIST">> \/ K = <<"ENOENT">>
    BY <1>3 DEF KernelTest
  <2>2. ~test_res("IPSET_ERR_EXIST") /\ ~test_res("ENOENT")
    BY DEF test_res
  <2> HIDE DEF K
  <2>3. CASE K = <<"IPSET_ERR_EXIST">>
    <3> WITNESS "IPSET_ERR_EXIST" \in Replies
    <3> QED
      BY <1>3, <2>3, <2>2, Zenon DEF K
  <2>4. CASE K = <<"ENOENT">>
    <3> WITNESS "ENOENT" \in Replies
    <3> QED
      BY <1>3, <2>4, <2>2, Zenon DEF K
  <2> QED
    BY <2>1, <2>3, <2>4
<1> QED
  BY <1>1, <1>2, <1>3

(* Every request of test_ips is answered, and nothing is left in the queue; *)
(* the k-th bit says if the k-th address is in its set.                     *)
LEMMA TestsAnswered ==
  ASSUME queue = <<>>, backend \in {"ipset", "nftset"}, NEW reqs,
         NEW n \in Nat \ {0}, NEW k \in Sent(n)
  PROVE  LET t == test_ips(reqs, k)
         IN  /\ t.queue = <<>>
             /\ t.exists = {i \in 1..n : i <= k /\ InSet(reqs[i].set, reqs[i].start)}
<1>1. CASE k < 0
  <2>1. test_ips(reqs, k).queue = queue /\ test_ips(reqs, k).exists = {}
    BY <1>1 DEF test_ips
  <2>2. k = -1
    BY <1>1 DEF Sent
  <2>3. \A i \in 1..n : ~(i <= k)
    BY <2>2
  <2> QED
    BY <2>1, <2>3
<1>2. CASE ~(k < 0)
  <2>1. k \in 1..n /\ k \in Nat
    BY <1>2 DEF Sent
  <2> DEFINE K(i) == KernelTest(reqs[i].set, reqs[i].start, AckOf("add"))
             f[i \in Nat] == IF i = 0 THEN <<>> ELSE f[i - 1] \o K(i)
             d(v, i) == v \o K(i)
             r(i) == K(i)[1]
  <2>2. \A i : /\ K(i) = <<r(i)>> /\ r(i) \in Replies
               /\ test_res(r(i)) <=> InSet(reqs[i].set, reqs[i].start)
    <3> HIDE DEF f, K, r, d
    <3>1. ASSUME NEW i
          PROVE  /\ K(i) = <<r(i)>> /\ r(i) \in Replies
                 /\ test_res(r(i)) <=> InSet(reqs[i].set, reqs[i].start)
      <4>1. \E x \in Replies : /\ K(i) = <<x>>
                               /\ test_res(x) <=> InSet(reqs[i].set, reqs[i].start)
        BY AnsweredOnce, Zenon DEF K
      <4>2. ASSUME NEW x \in Replies, K(i) = <<x>>,
                   test_res(x) <=> InSet(reqs[i].set, reqs[i].start)
            PROVE  /\ K(i) = <<r(i)>> /\ r(i) \in Replies
                   /\ test_res(r(i)) <=> InSet(reqs[i].set, reqs[i].start)
        <5>1. r(i) = x
          BY <4>2 DEF r
        <5> QED
          BY <4>2, <5>1, Zenon
      <4> QED
        BY <4>1, <4>2, Zenon
    <3> QED
      BY <3>1, Zenon
  <2>3. f[0] = <<>> /\ \A i \in Nat \ {0} : f[i] = f[i - 1] \o K(i)
    <3>1. NatInductiveDefHypothesis(f, <<>>, d)
      BY DEF NatInductiveDefHypothesis
    <3>2. NatInductiveDefConclusion(f, <<>>, d)
      BY <3>1, NatInductiveDef
    <3>3. f = [i \in Nat |-> IF i = 0 THEN <<>> ELSE d(f[i - 1], i)]
      BY <3>2 DEF NatInductiveDefConclusion
    <3> QED
      BY <3>3
  <2>4. test_ips(reqs, k) =
          [queue |-> Unread(queue \o f[k], k),
           exists |-> {i \in DOMAIN Received(queue \o f[k], k) :
                         test_res(Received(queue \o f[k], k)[i])}]
    BY <1>2 DEF test_ips
  <2> HIDE DEF f, K
  <2> DEFINE H == {j \in Nat : /\ f[j] \in Seq(Replies) /\ Len(f[j]) = j
                               /\ \A i \in 1..j : f[j][i] = r(i)}
  <2>5. 0 \in H
    <3> HIDE DEF r
    <3>1. <<>> \in Seq(Replies) /\ Len(<<>>) = 0 /\ 1..0 = {}
      OBVIOUS
    <3> QED
      BY <2>3, <3>1
  <2>6. ASSUME NEW j \in 1..k, j - 1 \in H PROVE j \in H
    <3>1. f[j] = f[j - 1] \o <<r(j)>> /\ j \in Nat /\ r(j) \in Replies
      <4>1. K(j) = <<r(j)>> /\ r(j) \in Replies
        BY <2>2
      <4> HIDE DEF r
      <4>2. j \in Nat \ {0}
        OBVIOUS
      <4> QED
        BY <2>3, <4>1, <4>2
    <3>2. f[j - 1] \in Seq(Replies) /\ Len(f[j - 1]) = j - 1 /\ \A i \in 1..(j - 1) : f[j - 1][i] = r(i)
      BY <2>6
    <3> HIDE DEF r
    <3>3. <<r(j)>> \in Seq(Replies) /\ Len(<<r(j)>>) = 1 /\ <<r(j)>>[1] = r(j)
      BY <3>1
    <3>4. /\ f[j] \in Seq(Replies) /\ Len(f[j]) = (j - 1) + 1
          /\ \A i \in 1..((j - 1) + 1) : f[j][i] = IF i <= j - 1 THEN f[j - 1][i] ELSE <<r(j)>>[i - (j - 1)]
      BY <3>1, <3>2, <3>3, ConcatProperties
    <3>5. ASSUME NEW i \in 1..j PROVE f[j][i] = r(i)
      <4>1. CASE i <= j - 1
        <5>1. i \in 1..(j - 1) /\ i \in 1..((j - 1) + 1)
          BY <4>1
        <5> QED
          BY <3>2, <3>4, <4>1, <5>1
      <4>2. CASE ~(i <= j - 1)
        <5>1. i = j /\ i - (j - 1) = 1 /\ i \in 1..((j - 1) + 1)
          BY <4>2
        <5> QED
          BY <3>3, <3>4, <4>2, <5>1
      <4> QED
        BY <4>1, <4>2
    <3>6. (j - 1) + 1 = j
      OBVIOUS
    <3> QED
      BY <3>1, <3>4, <3>5, <3>6
  <2>7. k \in H
    <3> HIDE DEF H
    <3>1. \A j \in 0..k : j \in H
      BY <2>1, <2>5, <2>6, UpTo
    <3> QED
      BY <2>1, <3>1
  <2> HIDE DEF r
  <2>8. f[k] \in Seq(Replies) /\ Len(f[k]) = k /\ \A i \in 1..k : f[k][i] = r(i)
    BY <2>7
  <2>9. queue \o f[k] = f[k]
    BY <2>8, ConcatEmptySeq
  <2>10. Received(f[k], k) = f[k] /\ Unread(f[k], k) = <<>>
    <3>1. Received(f[k], k) = SubSeq(f[k], 1, k)
      BY <2>8 DEF Received
    <3>2. SubSeq(f[k], 1, k) = f[k]
      BY <2>1, <2>8
    <3>3. Unread(f[k], k) = SubSeq(f[k], k + 1, k)
      BY <2>8 DEF Unread
    <3> QED
      BY <2>1, <2>8, <3>1, <3>2, <3>3
  <2>11. DOMAIN f[k] = 1..k
    BY <2>8, LenProperties
  <2>12. \A i \in 1..k : test_res(f[k][i]) <=> InSet(reqs[i].set, reqs[i].start)
    BY <2>2, <2>8
  <2>13. 1..k = {i \in 1..n : i <= k}
    BY <2>1
  <2>14. test_ips(reqs, k).exists = {i \in 1..k : test_res(f[k][i])}
    <3>1. test_ips(reqs, k).exists = {i \in DOMAIN Received(queue \o f[k], k) :
                         test_res(Received(queue \o f[k], k)[i])}
      BY <2>4
    <3> QED
      BY <2>9, <2>10, <2>11, <3>1
  <2> QED
    BY <2>4, <2>9, <2>10, <2>12, <2>13, <2>14
<1> QED
  BY <1>1, <1>2

-----------------------------------------------------------------------------
(* The messages and what the kernel makes of them *)

(* The position of the first request of a family. *)
Bit(c, f) == IF f = 4 THEN 0 ELSE c.ipcnt[4]

(* Kept leaves out the places whose bit is set. *)
LEMMA KeptPlaces ==
  ASSUME NEW c, IsCtx(c), NEW f \in Families, NEW exists
  PROVE  LET ks == Kept(c, f, exists)
         IN  /\ ks \in Seq(1..c.ipcnt[f]) /\ Len(ks) <= c.ipcnt[f]
             /\ ToSet(ks) = {k \in 1..c.ipcnt[f] : Bit(c, f) + k \notin exists}
<1> DEFINE n == c.ipcnt[f]
           id == [k \in 1..n |-> k]
           T == {k \in 1..n : Bit(c, f) + k \notin exists}
           ks == Kept(c, f, exists)
<1>1. n \in Nat
  BY IpsetAssumption DEF IsCtx
<1>2. ks = Within(id, T)
  BY DEF Kept, Bit
<1> HIDE DEF T, ks, n
<1>3. id \in [1..n -> 1..n]
  OBVIOUS
<1>4. id \in Seq(1..n) /\ Len(id) = n
  <2>1. id \in Seq(1..n)
    BY <1>1, <1>3, SeqDef
  <2>2. Len(id) \in Nat /\ DOMAIN id = 1..Len(id)
    BY <2>1, LenProperties
  <2> QED
    BY <1>1, <1>3, <2>1, <2>2
<1>5. ToSet(id) = 1..n /\ IsInjective(id)
  BY DEF ToSet, IsInjective
<1> HIDE DEF id
<1>6. /\ ks \in Seq(1..n) /\ ToSet(ks) = ToSet(id) \cap T
      /\ IsInjective(ks)
  BY <1>2, <1>4, <1>5, WithinElements
<1>7. ToSet(ks) = T
  BY <1>5, <1>6 DEF T
<1>8. Len(ks) <= n
  <2>1. IsFiniteSet(ToSet(ks)) /\ Cardinality(ToSet(ks)) = Len(ks)
    BY <1>6, InjectiveLen
  <2>2. IsFiniteSet(1..n) /\ Cardinality(1..n) = n
    <3>1. 1 \in Int /\ n \in Int /\ n - 1 + 1 = n /\ (1 > n => n = 0)
      BY <1>1
    <3> QED
      BY <3>1, FS_Interval
  <2>3. ToSet(ks) \subseteq 1..n
    BY <1>7 DEF T
  <2> QED
    BY <2>1, <2>2, <2>3, FS_Subset
<1> QED
  BY <1>6, <1>7, <1>8 DEF ks, n, T

(* The message of family f. *)
MessageOf(c, f, exists) ==
  [j \in DOMAIN Kept(c, f, exists) |-> ElementAt(c, f, Kept(c, f, exists)[j])]

(* msgs is what end_add_ip makes: at most one message for each family, and  *)
(* none without elements.                                                   *)
AreMessages(msgs, c, exists) ==
  /\ Len(msgs) \in 0..2 /\ DOMAIN msgs = 1..Len(msgs) /\ \E S : msgs \in Seq(S)
  /\ \A i \in 1..Len(msgs) : \E f \in Families :
       Kept(c, f, exists) # <<>> /\ msgs[i] = MessageOf(c, f, exists)
  /\ \A f \in Families : Kept(c, f, exists) # <<>> =>
       \E i \in 1..Len(msgs) : msgs[i] = MessageOf(c, f, exists)

(* These are the messages that end_add_ip_ipset and end_add_ip_nftset make. *)
LEMMA MessagesMade ==
  ASSUME NEW c, NEW exists
  PROVE  AreMessages(AddMessages(c, exists), c, exists)
<1> DEFINE M(f) == MessageOf(c, f, exists)
           S == {M(4), M(6)}
           k4 == Kept(c, 4, exists) = <<>>
           k6 == Kept(c, 6, exists) = <<>>
           a == IF k4 THEN <<>> ELSE <<M(4)>>
           b == IF k6 THEN <<>> ELSE <<M(6)>>
           msgs == AddMessages(c, exists)
<1>1. msgs = a \o b
  BY DEF AddMessages, MessageOf
<1> HIDE DEF msgs, M
<1>2. CASE k4 /\ k6
  <2>1. msgs = <<>>
    BY <1>1, <1>2
  <2>2. msgs \in Seq({}) /\ Len(msgs) = 0 /\ DOMAIN msgs = 1..0 /\ 1..0 = {}
    BY <2>1
  <2> QED
    BY <1>2, <2>2 DEF AreMessages, Families, msgs
<1>3. CASE k4 /\ ~k6
  <2>1. msgs = <<M(6)>>
    BY <1>1, <1>3
  <2>2. msgs \in Seq(S) /\ Len(msgs) = 1 /\ DOMAIN msgs = 1..1 /\ msgs[1] = M(6) /\ 1..1 = {1}
    BY <2>1
  <2> HIDE DEF S
  <2> QED
    BY <1>3, <2>2 DEF AreMessages, Families, msgs, M
<1>4. CASE ~k4 /\ k6
  <2>1. msgs = <<M(4)>>
    BY <1>1, <1>4
  <2>2. msgs \in Seq(S) /\ Len(msgs) = 1 /\ DOMAIN msgs = 1..1 /\ msgs[1] = M(4) /\ 1..1 = {1}
    BY <2>1
  <2> HIDE DEF S
  <2> QED
    BY <1>4, <2>2 DEF AreMessages, Families, msgs, M
<1>5. CASE ~k4 /\ ~k6
  <2>1. msgs = <<M(4)>> \o <<M(6)>>
    BY <1>1, <1>5
  <2>2. /\ msgs \in Seq(S) /\ Len(msgs) = 2 /\ DOMAIN msgs = 1..2
        /\ msgs[1] = M(4) /\ msgs[2] = M(6) /\ 1..2 = {1, 2}
    <3>1. /\ <<M(4)>> \in Seq(S) /\ Len(<<M(4)>>) = 1 /\ <<M(4)>>[1] = M(4)
          /\ <<M(6)>> \in Seq(S) /\ Len(<<M(6)>>) = 1 /\ <<M(6)>>[1] = M(6)
      OBVIOUS
    <3>2. /\ msgs \in Seq(S) /\ Len(msgs) = 1 + 1
          /\ \A i \in 1..(1 + 1) : msgs[i] = IF i <= 1 THEN <<M(4)>>[i] ELSE <<M(6)>>[i - 1]
      BY <2>1, <3>1, ConcatProperties
    <3>3. DOMAIN msgs = 1..Len(msgs)
      BY <3>2, LenProperties
    <3>4. 1 + 1 = 2 /\ 1..2 = {1, 2}
      OBVIOUS
    <3>5. msgs[1] = M(4) /\ msgs[2] = M(6)
      <4>1. 1 \in 1..(1 + 1) /\ 2 \in 1..(1 + 1) /\ 1 <= 1 /\ ~(2 <= 1) /\ 2 - 1 = 1
        OBVIOUS
      <4> QED
        BY <3>1, <3>2, <4>1
    <3> QED
      BY <3>2, <3>3, <3>4, <3>5
  <2> HIDE DEF S
  <2> QED
    BY <1>5, <2>2 DEF AreMessages, Families, msgs, M
<1> QED
  BY <1>2, <1>3, <1>4, <1>5

(* The addresses of a batch, in front of the messages made of it. *)
LEMMA MessageContents ==
  ASSUME NEW c, CtxFine(c), BatchFine(c), NEW f \in Families, NEW exists,
         Kept(c, f, exists) # <<>>
  PROVE  LET m == MessageOf(c, f, exists)
         IN  /\ SetOf(m) = c.name[f] /\ c.ipcnt[f] > 0
             /\ \A j \in DOMAIN m : \E ip \in Valid :
                  /\ FamilyOf(ip) = f /\ Covered(m[j]) = {ip}
                  /\ \E k \in 1..c.ipcnt[f] : Written(c, f, k, ip) /\ Bit(c, f) + k \notin exists
             /\ \A k \in 1..c.ipcnt[f] : \A ip \in Valid :
                  Written(c, f, k, ip) /\ Bit(c, f) + k \notin exists
                    => \E j \in DOMAIN m : Covered(m[j]) = {ip}
<1> DEFINE ks == Kept(c, f, exists)
           m == MessageOf(c, f, exists)
           n == c.ipcnt[f]
<1>1. /\ ks \in Seq(1..n)
      /\ ToSet(ks) = {k \in 1..n : Bit(c, f) + k \notin exists}
  BY KeptPlaces DEF CtxFine
<1>2. m = [j \in DOMAIN ks |-> ElementAt(c, f, ks[j])]
  BY DEF MessageOf
<1> HIDE DEF ks, m, n
<1>3. /\ Len(ks) \in Nat \ {0} /\ DOMAIN ks = 1..Len(ks) /\ 1 \in DOMAIN ks
      /\ \A j \in DOMAIN ks : ks[j] \in ToSet(ks)
      /\ \A k \in ToSet(ks) : \E j \in DOMAIN ks : ks[j] = k
  <2>1. ks # <<>>
    BY DEF ks
  <2>2. Len(ks) \in Nat \ {0} /\ DOMAIN ks = 1..Len(ks)
    BY <1>1, <2>1, EmptySeq, LenProperties
  <2>3. 1 \in 1..Len(ks)
    BY <2>2
  <2> QED
    BY <1>1, <2>2, <2>3, ToSetMembers
<1>4. ASSUME NEW j \in DOMAIN ks, NEW ip \in Valid, Written(c, f, ks[j], ip)
      PROVE  m[j] = ElementOf(c, f, ip) /\ Covered(m[j]) = {ip}
  <2>1. m[j] = ElementOf(c, f, ip)
    BY <1>2, <1>4, ElementFound
  <2> QED
    BY <2>1, CoversItself
<1>5. ASSUME NEW j \in DOMAIN m
      PROVE  \E ip \in Valid :
               /\ FamilyOf(ip) = f /\ Covered(m[j]) = {ip} /\ m[j].set = c.name[f]
               /\ \E k \in 1..n : Written(c, f, k, ip) /\ Bit(c, f) + k \notin exists
  <2>1. j \in DOMAIN ks /\ ks[j] \in 1..n /\ Bit(c, f) + ks[j] \notin exists
    BY <1>1, <1>2, <1>3
  <2>2. PICK ip \in Valid : FamilyOf(ip) = f /\ Written(c, f, ks[j], ip)
    BY <2>1 DEF BatchFine, n
  <2>3. m[j] = ElementOf(c, f, ip) /\ Covered(m[j]) = {ip}
    BY <1>4, <2>1, <2>2
  <2>4. m[j].set = c.name[f]
    BY <2>3 DEF ElementOf
  <2> QED
    BY <2>1, <2>2, <2>3, <2>4
<1>6. SetOf(m) = c.name[f]
  <2>1. 1 \in DOMAIN m
    BY <1>2, <1>3
  <2> QED
    BY <1>5, <2>1 DEF SetOf
<1>7. n > 0
  <2>1. ks[1] \in 1..n
    BY <1>1, <1>3
  <2>2. n \in Nat
    BY IpsetAssumption DEF CtxFine, IsCtx, n
  <2> QED
    BY <2>1, <2>2
<1>8. ASSUME NEW k \in 1..n, NEW ip \in Valid, Written(c, f, k, ip), Bit(c, f) + k \notin exists
      PROVE  \E j \in DOMAIN m : Covered(m[j]) = {ip}
  <2>1. PICK j \in DOMAIN ks : ks[j] = k
    BY <1>1, <1>3, <1>8
  <2> QED
    BY <1>2, <1>4, <1>8, <2>1
<1> QED
  BY <1>5, <1>6, <1>7, <1>8 DEF m, n

SetContents == [single : SUBSET Addresses, wide : SUBSET Addresses]

KernelFine(k) == k \in [DOMAIN k -> SetContents]

(* Some of the messages of a batch. *)
SomeMessages(msgs, c, exists) ==
  /\ Len(msgs) \in 0..2 /\ DOMAIN msgs = 1..Len(msgs)
  /\ \A i \in 1..Len(msgs) : \E f \in Families :
       Kept(c, f, exists) # <<>> /\ msgs[i] = MessageOf(c, f, exists)

(* The sets after an addition: what is new in them is of the batch. *)
Grown(k, c) ==
  /\ DOMAIN k = DOMAIN kernel /\ KernelFine(k)
  /\ \A s \in DOMAIN kernel :
       /\ k[s].wide = kernel[s].wide /\ kernel[s].single \subseteq k[s].single
       /\ \A ip \in k[s].single \ kernel[s].single : ip \in Valid /\ InBatch(c, ip)

(* The kernel adds nothing but addresses of the batch, and it reports at    *)
(* most one error for each message.                                         *)
LEMMA AddedIsOfBatch ==
  ASSUME NEW c, CtxFine(c), BatchFine(c), KernelFine(kernel), NEW exists,
         NEW msgs, SomeMessages(msgs, c, exists)
  PROVE  LET res == KernelAdd(msgs)
         IN  /\ Grown(res.sets, c)
             /\ res.responses \in Seq({"ADD_ERROR"}) /\ Len(res.responses) <= Len(msgs)
<1> DEFINE errors == {i \in DOMAIN msgs : Fails(msgs[i])}
           done == IF backend = "nftset" /\ errors # {} THEN {} ELSE DOMAIN msgs \ errors
           New(s) == UNION {UNION {Covered(msgs[i][k]) : k \in DOMAIN msgs[i]} :
                              i \in {i \in done : SetOf(msgs[i]) = s}}
           res == KernelAdd(msgs)
<1>1. /\ res.sets = [s \in DOMAIN kernel |-> [kernel[s] EXCEPT !.single = @ \cup New(s)]]
      /\ res.responses = [i \in 1..Cardinality(errors) |-> "ADD_ERROR"]
  BY DEF KernelAdd
<1>2. done \subseteq DOMAIN msgs
  OBVIOUS
<1> HIDE DEF res, done, errors
<1>3. ASSUME NEW s, NEW ip \in New(s) PROVE ip \in Valid /\ InBatch(c, ip)
  <2>0. PICK i \in done : \E k \in DOMAIN msgs[i] : ip \in Covered(msgs[i][k])
    BY <1>3
  <2>1. PICK k \in DOMAIN msgs[i] : ip \in Covered(msgs[i][k])
    BY <2>0
  <2>2. i \in 1..Len(msgs)
    BY <1>2, <2>1 DEF SomeMessages
  <2>3. PICK f \in Families : Kept(c, f, exists) # <<>> /\ msgs[i] = MessageOf(c, f, exists)
    BY <2>2 DEF SomeMessages
  <2>4. PICK x \in Valid : /\ FamilyOf(x) = f /\ Covered(msgs[i][k]) = {x}
                           /\ \E l \in 1..c.ipcnt[f] : Written(c, f, l, x)
    BY <2>1, <2>3, MessageContents
  <2>5. ip = x
    BY <2>1, <2>4
  <2> QED
    BY <2>4, <2>5 DEF InBatch
<1>4. \A s : New(s) \subseteq Addresses
  BY <1>3 DEF Valid
<1> HIDE DEF New
<1>5. Grown(res.sets, c)
  <2>1. DOMAIN res.sets = DOMAIN kernel
    BY <1>1
  <2>2. ASSUME NEW s \in DOMAIN kernel
        PROVE  /\ res.sets[s] \in SetContents
               /\ res.sets[s].wide = kernel[s].wide
               /\ res.sets[s].single = kernel[s].single \cup New(s)
    <3>1. kernel[s] \in SetContents
      BY DEF KernelFine
    <3>2. res.sets[s] = [kernel[s] EXCEPT !.single = kernel[s].single \cup New(s)]
      BY <1>1
    <3> QED
      BY <1>4, <3>1, <3>2 DEF SetContents
  <2>3. KernelFine(res.sets)
    <3>1. res.sets = [s \in DOMAIN kernel |-> res.sets[s]]
      BY <1>1
    <3> QED
      BY <2>1, <2>2, <3>1 DEF KernelFine
  <2>4. ASSUME NEW s \in DOMAIN kernel, NEW ip \in res.sets[s].single \ kernel[s].single
        PROVE  ip \in Valid /\ InBatch(c, ip)
    BY <1>3, <2>2, <2>4
  <2> QED
    BY <2>1, <2>2, <2>3, <2>4 DEF Grown
<1>6. Cardinality(errors) \in Nat /\ Cardinality(errors) <= Len(msgs)
  <2>1. IsFiniteSet(1..Len(msgs)) /\ Cardinality(1..Len(msgs)) = Len(msgs)
    <3>1. 1 \in Int /\ Len(msgs) \in Int /\ Len(msgs) - 1 + 1 = Len(msgs) /\ (1 > Len(msgs) => Len(msgs) = 0)
      BY DEF SomeMessages
    <3> QED
      BY <3>1, FS_Interval
  <2>2. errors \subseteq 1..Len(msgs)
    BY DEF errors, SomeMessages
  <2> QED
    BY <2>1, <2>2, FS_Subset, FS_CardinalityType
<1>7. res.responses \in Seq({"ADD_ERROR"}) /\ Len(res.responses) <= Len(msgs)
  <2>1. PICK n \in Nat : n = Cardinality(errors)
    BY <1>6
  <2>2. res.responses \in [1..n -> {"ADD_ERROR"}]
    BY <1>1, <2>1
  <2>3. res.responses \in Seq({"ADD_ERROR"})
    BY <2>2, SeqDef
  <2>4. Len(res.responses) \in Nat /\ DOMAIN res.responses = 1..Len(res.responses)
    BY <2>3, LenProperties
  <2>5. Len(res.responses) = n
    BY <2>2, <2>4
  <2> QED
    BY <1>6, <2>1, <2>3, <2>5
<1> QED
  BY <1>5, <1>7 DEF res

(* If the messages leave out the addresses that are in the sets already,    *)
(* and the sets are there, every other address of the batch gets into its   *)
(* set: with nftset, because nothing can overlap a larger interval.         *)
LEMMA AddedAll ==
  ASSUME NEW c, CtxFine(c), BatchFine(c), KernelFine(kernel), NEW exists,
         NEW msgs, AreMessages(msgs, c, exists),
         \A f \in Families : \A k \in 1..c.ipcnt[f] : \A ip \in Valid :
           Written(c, f, k, ip) /\ Bit(c, f) + k \notin exists => ~InSet(c.name[f], ip),
         NEW f \in Families, NEW k \in 1..c.ipcnt[f], NEW ip \in Valid,
         Written(c, f, k, ip), Bit(c, f) + k \notin exists, c.name[f] \in DOMAIN kernel,
         backend = "nftset" =>
           \A g \in Families : c.ipcnt[g] > 0 => c.name[g] \in DOMAIN kernel
  PROVE  ip \in KernelAdd(msgs).sets[c.name[f]].single
<1> DEFINE errors == {i \in DOMAIN msgs : Fails(msgs[i])}
           done == IF backend = "nftset" /\ errors # {} THEN {} ELSE DOMAIN msgs \ errors
           New(s) == UNION {UNION {Covered(msgs[i][l]) : l \in DOMAIN msgs[i]} :
                              i \in {i \in done : SetOf(msgs[i]) = s}}
           res == KernelAdd(msgs)
<1>1. res.sets = [s \in DOMAIN kernel |-> [kernel[s] EXCEPT !.single = @ \cup New(s)]]
  BY DEF KernelAdd
<1>2. Kept(c, f, exists) # <<>>
  <2> SUFFICES ASSUME Kept(c, f, exists) = <<>> PROVE FALSE
    OBVIOUS
  <2>1. ToSet(Kept(c, f, exists)) = {l \in 1..c.ipcnt[f] : Bit(c, f) + l \notin exists}
    BY KeptPlaces DEF CtxFine
  <2>2. k \in ToSet(Kept(c, f, exists))
    BY <2>1
  <2>3. ToSet(<<>>) = {}
    BY DEF ToSet
  <2> QED
    BY <2>2, <2>3
<1>3. PICK i \in 1..Len(msgs) : msgs[i] = MessageOf(c, f, exists)
  BY <1>2 DEF AreMessages
<1>4. /\ SetOf(msgs[i]) = c.name[f]
      /\ \E j \in DOMAIN msgs[i] : Covered(msgs[i][j]) = {ip}
  <2> HIDE DEF New, done, errors, res
  <2> DEFINE m == MessageOf(c, f, exists)
  <2>1. /\ SetOf(m) = c.name[f]
        /\ \A l \in 1..c.ipcnt[f] : \A x \in Valid :
             Written(c, f, l, x) /\ Bit(c, f) + l \notin exists
               => \E j \in DOMAIN m : Covered(m[j]) = {x}
    BY ONLY <1>2, MessageContents, CtxFine(c), BatchFine(c), f \in Families
  <2> HIDE DEF m
  <2>2. msgs[i] = m
    BY <1>3 DEF m
  <2> QED
    BY <2>1, <2>2
<1>5. ASSUME backend = "nftset", NEW h \in DOMAIN msgs PROVE ~Fails(msgs[h])
  <2>1. h \in 1..Len(msgs)
    BY DEF AreMessages
  <2>2. PICK g \in Families : Kept(c, g, exists) # <<>> /\ msgs[h] = MessageOf(c, g, exists)
    BY <2>1 DEF AreMessages
  <2>3. /\ SetOf(msgs[h]) = c.name[g] /\ c.ipcnt[g] > 0
        /\ \A j \in DOMAIN msgs[h] : \E x \in Valid :
             /\ Covered(msgs[h][j]) = {x}
             /\ \E l \in 1..c.ipcnt[g] : Written(c, g, l, x) /\ Bit(c, g) + l \notin exists
    BY <2>2, MessageContents
  <2>4. c.name[g] \in DOMAIN kernel
    BY <1>5, <2>3
  <2>5. ASSUME NEW j \in DOMAIN msgs[h]
        PROVE  Covered(msgs[h][j]) \cap kernel[c.name[g]].wide = {}
    <3>1. PICK x \in Valid : /\ Covered(msgs[h][j]) = {x}
                             /\ \E l \in 1..c.ipcnt[g] : Written(c, g, l, x) /\ Bit(c, g) + l \notin exists
      BY <2>3
    <3>2. ~InSet(c.name[g], x)
      BY <3>1
    <3>3. x \notin kernel[c.name[g]].wide
      BY <2>4, <3>2 DEF InSet
    <3> QED
      BY <3>1, <3>3
  <2> QED
    BY <2>3, <2>4, <2>5 DEF Fails
<1>6. CASE backend = "nftset"
  <2>1. errors = {}
    BY <1>5, <1>6
  <2>2. i \in done
    BY <1>3, <2>1 DEF AreMessages
  <2>3. ip \in New(c.name[f])
    BY <1>4, <2>2
  <2> HIDE DEF New, res
  <2>4. kernel[c.name[f]] \in SetContents
    BY DEF KernelFine
  <2> QED
    BY <1>1, <2>3, <2>4 DEF SetContents, res
<1>7. CASE backend # "nftset"
  <2>1. ~Fails(msgs[i])
    BY <1>4, <1>7 DEF Fails
  <2>2. i \in done
    BY <1>3, <1>7, <2>1 DEF AreMessages
  <2>3. ip \in New(c.name[f])
    BY <1>4, <2>2
  <2> HIDE DEF New, res
  <2>4. kernel[c.name[f]] \in SetContents
    BY DEF KernelFine
  <2> QED
    BY <1>1, <2>3, <2>4 DEF SetContents, res
<1> QED
  BY <1>6, <1>7

-----------------------------------------------------------------------------
(* ipset_end_add_ip *)

(* What ipset_end_add_ip leaves of the state: the batch is empty, every     *)
(* answer was read, the sets have grown by addresses of the batch and, if   *)
(* no send failed and the sets are there, by all of them.                   *)
Flushed(c, o) ==
  /\ o.queue = <<>> /\ o.faulty \in BOOLEAN
  /\ CtxFine(o.c) /\ o.c.name = c.name /\ o.c.kind = c.kind
  /\ \A f \in Families : o.c.ipcnt[f] = 0
  /\ Grown(o.kernel, c)
  /\ ~o.faulty =>
       \A ip \in Valid :
         /\ InBatch(c, ip) /\ c.name[FamilyOf(ip)] \in DOMAIN kernel
         /\ backend = "nftset" =>
              \A g \in Families : c.ipcnt[g] > 0 => c.name[g] \in DOMAIN kernel
         => ip \in o.kernel[c.name[FamilyOf(ip)]].single \cup o.kernel[c.name[FamilyOf(ip)]].wide

(* The context after the messages were made. *)
LEMMA EmptyBatchFine ==
  ASSUME NEW c, CtxFine(c), NEW exists
  PROVE  LET d == EmptyBatch(c, exists)
         IN  /\ CtxFine(d) /\ d.name = c.name /\ d.kind = c.kind
             /\ \A f \in Families : d.ipcnt[f] = 0
<1> DEFINE lens == [f \in Families |-> IF c.ipcnt[f] = 0 THEN c.nlmsg_len[f]
                      ELSE c.baselen[f] + Len(Kept(c, f, exists)) * elemsz(backend, f)]
           d == EmptyBatch(c, exists)
<1>1. d = [kind |-> c.kind, name |-> c.name, baselen |-> c.baselen,
           nlmsg_len |-> lens, ipcnt |-> [f \in Families |-> 0], mem |-> c.mem]
  <2>1. d = [c EXCEPT !.nlmsg_len = lens, !.ipcnt = [f \in Families |-> 0]]
    BY DEF EmptyBatch
  <2>2. c = [kind |-> c.kind, name |-> c.name, baselen |-> c.baselen,
             nlmsg_len |-> c.nlmsg_len, ipcnt |-> c.ipcnt, mem |-> c.mem]
    BY DEF CtxFine, IsCtx
  <2> HIDE DEF lens, d
  <2> QED
    BY <2>1, <2>2
<1>2. ASSUME NEW f \in Families
      PROVE  /\ lens[f] \in Nat
             /\ c.name[f] # None => lens[f] <= BUFSZ_ADD(backend, f)
  <2> DEFINE l == Len(Kept(c, f, exists))
             x == l * elemsz(backend, f)
             y == IP_N * elemsz(backend, f)
  <2>1. l \in Nat /\ l <= c.ipcnt[f] /\ c.ipcnt[f] \in 0..IP_N /\ IP_N \in Nat
    <3>1. Kept(c, f, exists) \in Seq(1..c.ipcnt[f]) /\ l <= c.ipcnt[f]
      BY KeptPlaces DEF CtxFine
    <3>2. l \in Nat
      BY <3>1, LenProperties
    <3> QED
      BY <3>1, <3>2, IpsetAssumption DEF CtxFine, IsCtx
  <2>2. l <= IP_N
    BY <2>1
  <2>3. x \in Nat /\ x <= y /\ y \in Nat
    BY <2>1, <2>2, BatchLength
  <2>4. c.baselen[f] \in Nat /\ c.nlmsg_len[f] \in Nat
    BY DEF CtxFine, IsCtx
  <2>5. BUFSZ_ADD(backend, f) \in Nat
    BY IpsetAssumption DEF BUFSZ_ADD, BUFSZ_ADD_IPSET, BUFSZ_ADD_NFTSET, nla_size, iplen, HeaderLen
  <2>6. c.name[f] # None => /\ c.baselen[f] + y <= BUFSZ_ADD(backend, f)
                            /\ c.nlmsg_len[f] <= BUFSZ_ADD(backend, f)
    BY DEF CtxFine, HasRoom
  <2>7. lens[f] = IF c.ipcnt[f] = 0 THEN c.nlmsg_len[f] ELSE c.baselen[f] + x
    OBVIOUS
  <2> HIDE DEF x, y, l, lens
  <2> QED
    BY <2>3, <2>4, <2>5, <2>6, <2>7
<1>3. lens \in [Families -> Nat]
  BY <1>2
<1> HIDE DEF d, lens
<1>4. IsCtx(d)
  <2>1. 0 \in 0..IP_N
    BY IpsetAssumption
  <2> QED
    BY <1>1, <1>3, <2>1 DEF CtxFine, IsCtx
<1>5. ASSUME NEW f \in Families PROVE HasRoom(d, f)
  <2>1. /\ d.name = c.name /\ d.baselen = c.baselen /\ d.ipcnt[f] = 0
        /\ d.nlmsg_len[f] = lens[f]
    BY <1>1
  <2>2. HasRoom(c, f)
    BY DEF CtxFine
  <2> QED
    BY <1>2, <2>1, <2>2 DEF HasRoom
<1>6. CtxFine(d)
  BY <1>4, <1>5 DEF CtxFine
<1>7. d.name = c.name /\ d.kind = c.kind /\ \A f \in Families : d.ipcnt[f] = 0
  BY <1>1
<1> QED
  BY <1>6, <1>7 DEF d

(* One outcome of ipset_end_add_ip. *)
LEMMA OutcomeFlushes ==
  ASSUME NEW c, CtxFine(c), BatchFine(c), KernelFine(kernel), queue = <<>>,
         backend \in {"ipset", "nftset"}, Requests(c) # <<>>,
         NEW k \in Sent(Len(Requests(c))),
         NEW m \in Sent(NMsg(AddMessages(c, test_ips(Requests(c), k).exists)))
  PROVE  Flushed(c, Outcome(c, k, m))
<1> DEFINE n == Len(Requests(c))
           t == test_ips(Requests(c), k)
           exists == t.exists
           msgs == AddMessages(c, exists)
           total == NMsg(msgs)
           sent == IF m < 0 THEN <<>>
                   ELSE IF backend = "nftset" THEN msgs ELSE SubSeq(msgs, 1, m)
           res == KernelAdd(sent)
           q == t.queue \o res.responses
           o == Outcome(c, k, m)
<1>1. n = c.ipcnt[4] + c.ipcnt[6] /\ n \in Nat \ {0}
  <2>1. c.ipcnt[4] \in Nat /\ c.ipcnt[6] \in Nat
    BY IpsetAssumption DEF CtxFine, IsCtx, Families
  <2> QED
    BY <2>1, RequestsList DEF CtxFine
<1>2. /\ t.queue = <<>>
      /\ exists = {i \in 1..n : i <= k /\ InSet(Requests(c)[i].set, Requests(c)[i].start)}
  BY <1>1, TestsAnswered
<1>3. o = IF msgs = <<>>
          THEN [c |-> EmptyBatch(c, exists), kernel |-> kernel, queue |-> t.queue,
                faulty |-> k # n]
          ELSE [c |-> EmptyBatch(c, exists), kernel |-> res.sets,
                queue |-> IF m < 0 THEN q ELSE Unread(q, AddReads(total)),
                faulty |-> k # n \/ m # total]
  BY DEF Outcome
<1>4. m \in Sent(total)
  OBVIOUS
<1>5. AreMessages(msgs, c, exists)
  BY MessagesMade
<1>6. k \in Int /\ (k # n => k < n)
  BY <1>1 DEF Sent
<1> HIDE DEF t, msgs, exists, total, n, o
<1>7. CtxFine(o.c) /\ o.c.name = c.name /\ o.c.kind = c.kind /\ \A f \in Families : o.c.ipcnt[f] = 0
  <2>1. o.c = EmptyBatch(c, exists)
    BY <1>3
  <2> QED
    BY <2>1, EmptyBatchFine
<1>8. total \in Nat /\ total <= 2 /\ (msgs # <<>> => total > 0)
  <2>1. Len(msgs) \in 0..2
    BY <1>5 DEF AreMessages
  <2>2. msgs # <<>> => Len(msgs) # 0
    BY <1>5, EmptySeq DEF AreMessages
  <2>3. CASE backend = "nftset"
    <3>1. total = 1
      BY <2>3 DEF total, NMsg
    <3> QED
      BY <3>1
  <2>4. CASE backend # "nftset"
    <3>1. total = Len(msgs)
      BY <2>4 DEF total, NMsg
    <3> QED
      BY <2>1, <2>2, <3>1
  <2> QED
    BY <2>3, <2>4
<1>9. SomeMessages(sent, c, exists) /\ (m = total => sent = msgs \/ msgs = <<>>)
  <2>1. CASE m < 0
    <3>1. sent = <<>> /\ m # total
      BY <1>8, <2>1
    <3>2. Len(<<>>) = 0 /\ DOMAIN <<>> = 1..0 /\ 1..0 = {} /\ 0 \in 0..2
      OBVIOUS
    <3>3. SomeMessages(<<>>, c, exists)
      BY <3>2 DEF SomeMessages
    <3> HIDE DEF sent
    <3> QED
      BY <3>1, <3>3
  <2>2. CASE ~(m < 0) /\ backend = "nftset"
    <3>1. sent = msgs
      BY <2>2
    <3> QED
      BY <1>5, <3>1 DEF SomeMessages, AreMessages
  <2>3. CASE ~(m < 0) /\ backend # "nftset"
    <3>1. sent = SubSeq(msgs, 1, m) /\ total = Len(msgs)
      BY <2>3 DEF total, NMsg
    <3>2. m \in 0..Len(msgs) /\ Len(msgs) \in 0..2 /\ m \in 0..2
      <4>1. PICK l \in 0..2 : l = Len(msgs)
        BY <1>5 DEF AreMessages
      <4>2. m \in {l, -1} \cup 1..(l - 1)
        BY <1>4, <3>1, <4>1 DEF Sent
      <4>3. m \in 0..l
        BY <2>3, <4>2
      <4> QED
        BY <4>1, <4>3
    <3>3. PICK S : msgs \in Seq(S)
      BY <1>5 DEF AreMessages
    <3>4. /\ Len(sent) = m /\ DOMAIN sent = 1..m /\ \A i \in 1..m : sent[i] = msgs[i]
      BY <3>1, <3>2, <3>3
    <3>5. SomeMessages(sent, c, exists)
      <4>1. \A i \in 1..m : i \in 1..Len(msgs)
        BY <3>2
      <4> HIDE DEF sent
      <4> QED
        BY <1>5, <3>2, <3>4, <4>1 DEF SomeMessages, AreMessages
    <3>6. m = total => sent = msgs
      BY <3>1, <3>2, <3>3
    <3> QED
      BY <3>5, <3>6
  <2> QED
    BY <2>1, <2>2, <2>3
<1> HIDE DEF sent
<1>10. /\ Grown(res.sets, c)
       /\ res.responses \in Seq({"ADD_ERROR"}) /\ Len(res.responses) <= Len(sent)
  BY <1>9, AddedIsOfBatch
<1> HIDE DEF res
<1>11. o.queue = <<>>
  <2>1. CASE msgs = <<>>
    BY <1>2, <1>3, <2>1
  <2>2. CASE msgs # <<>>
    <3>1. q = res.responses
      BY <1>2, <1>10, ConcatEmptySeq
    <3>2. Len(sent) \in 0..2 /\ (m < 0 => Len(sent) = 0)
      BY <1>9 DEF SomeMessages, sent
    <3>3. CASE m < 0
      <4>1. Len(res.responses) = 0
        BY <1>10, <3>2, <3>3, LenProperties
      <4>2. res.responses = <<>>
        BY <1>10, <4>1, EmptySeq
      <4> QED
        BY <1>3, <2>2, <3>1, <3>3, <4>2
    <3>4. CASE ~(m < 0)
      <4>1. AddReads(total) \in Nat /\ AddReads(total) >= 2
        BY <1>8 DEF AddReads, Larger
      <4>2. Len(res.responses) \in Nat /\ Len(res.responses) < AddReads(total) + 1
        <5>1. PICK a \in Nat : a = AddReads(total) /\ a >= 2
          BY <4>1
        <5>2. PICK r \in Nat : r = Len(res.responses)
          BY <1>10, LenProperties
        <5>3. PICK l \in 0..2 : l = Len(sent)
          BY <3>2
        <5>4. r <= l
          BY <1>10, <5>2, <5>3
        <5>5. r < a + 1
          BY <5>1, <5>4
        <5> QED
          BY <5>1, <5>2, <5>5
      <4>3. Unread(res.responses, AddReads(total)) = <<>>
        BY <4>1, <4>2, SubSeqEmpty DEF Unread
      <4> QED
        BY <1>3, <2>2, <3>1, <3>4, <4>3
    <3> QED
      BY <3>3, <3>4
  <2> QED
    BY <2>1, <2>2
<1>12. Grown(o.kernel, c)
  <2>1. CASE msgs = <<>>
    <3>1. o.kernel = kernel
      BY <1>3, <2>1
    <3> QED
      BY <3>1 DEF Grown
  <2>2. CASE msgs # <<>>
    BY <1>3, <1>10, <2>2
  <2> QED
    BY <2>1, <2>2
<1>13. o.faulty \in BOOLEAN
  BY <1>3
<1>14. ASSUME ~o.faulty, NEW ip \in Valid, InBatch(c, ip),
              c.name[FamilyOf(ip)] \in DOMAIN kernel,
              backend = "nftset" =>
                \A g \in Families : c.ipcnt[g] > 0 => c.name[g] \in DOMAIN kernel
       PROVE  ip \in o.kernel[c.name[FamilyOf(ip)]].single \cup o.kernel[c.name[FamilyOf(ip)]].wide
  <2> DEFINE f == FamilyOf(ip)
             s == c.name[f]
  <2>1. k = n /\ (msgs # <<>> => m = total)
    BY <1>3, <1>14
  <2>2. PICK p \in 1..c.ipcnt[f] : Written(c, f, p, ip)
    BY <1>14 DEF InBatch
  <2>3. f \in Families
    BY ValidDigits
  <2>4. ASSUME NEW g \in Families, NEW l \in 1..c.ipcnt[g], NEW x \in Valid, Written(c, g, l, x)
        PROVE  Bit(c, g) + l \in exists <=> InSet(c.name[g], x)
    <3>1. Bit(c, g) + l \in 1..n /\ Requests(c)[Bit(c, g) + l] = ElementAt(c, g, l)
      <4>1. c.ipcnt[4] \in Nat /\ c.ipcnt[6] \in Nat
        BY IpsetAssumption DEF CtxFine, IsCtx, Families
      <4>2. CASE g = 4
        <5>1. Bit(c, g) + l = l /\ l \in 1..n
          BY <1>1, <4>1, <4>2 DEF Bit
        <5> QED
          BY <4>2, <5>1, RequestsList DEF CtxFine
      <4>3. CASE g = 6
        <5>1. Bit(c, g) + l = c.ipcnt[4] + l /\ c.ipcnt[4] + l \in 1..n
          <6>1. PICK a \in Nat, b \in Nat : a = c.ipcnt[4] /\ b = c.ipcnt[6]
            BY <4>1
          <6>2. l \in 1..b /\ n = a + b
            BY <1>1, <4>3, <6>1
          <6>3. a + l \in 1..n
            BY <6>2
          <6>4. Bit(c, g) = a
            BY <4>3, <6>1 DEF Bit
          <6> QED
            BY <6>1, <6>3, <6>4
        <5> QED
          BY <4>3, <5>1, RequestsList DEF CtxFine
      <4> QED
        BY <4>2, <4>3 DEF Families
    <3>2. ElementAt(c, g, l) = ElementOf(c, g, x)
      BY <2>4, ElementFound
    <3>3. ElementOf(c, g, x).set = c.name[g] /\ ElementOf(c, g, x).start = x
      BY DEF ElementOf
    <3>4. Bit(c, g) + l <= k
      BY <1>1, <2>1, <3>1
    <3>5. Bit(c, g) + l \in exists
            <=> InSet(Requests(c)[Bit(c, g) + l].set, Requests(c)[Bit(c, g) + l].start)
      BY <1>2, <3>1, <3>4
    <3> QED
      BY <3>1, <3>2, <3>3, <3>5
  <2>5. /\ o.kernel[s].wide = kernel[s].wide /\ kernel[s].single \subseteq o.kernel[s].single
    BY <1>12, <1>14 DEF Grown
  <2>6. CASE InSet(s, ip)
    BY <2>5, <2>6 DEF InSet
  <2>7. CASE ~InSet(s, ip)
    <3>1. Bit(c, f) + p \notin exists
      BY <2>2, <2>3, <2>4, <2>7
    <3>2. msgs # <<>>
      <4>1. Kept(c, f, exists) # <<>>
        <5> SUFFICES ASSUME Kept(c, f, exists) = <<>> PROVE FALSE
          OBVIOUS
        <5>1. p \in ToSet(Kept(c, f, exists))
          BY <2>2, <2>3, <3>1, KeptPlaces DEF CtxFine
        <5>2. ToSet(<<>>) = {}
          BY DEF ToSet
        <5> QED
          BY <5>1, <5>2
      <4>2. \E i \in 1..Len(msgs) : TRUE
        BY <1>5, <2>3, <4>1 DEF AreMessages
      <4>3. Len(<<>>) = 0 /\ 1..0 = {}
        OBVIOUS
      <4> QED
        BY <4>2, <4>3
    <3>3. sent = msgs
      BY <1>9, <2>1, <3>2
    <3>4. o.kernel = KernelAdd(msgs).sets
      BY <1>3, <3>2, <3>3 DEF res
    <3>5. \A g \in Families : \A l \in 1..c.ipcnt[g] : \A x \in Valid :
            Written(c, g, l, x) /\ Bit(c, g) + l \notin exists => ~InSet(c.name[g], x)
      BY <2>4
    <3> HIDE DEF f
    <3>6. ip \in KernelAdd(msgs).sets[c.name[f]].single
      BY <1>5, <1>14, <2>2, <2>3, <3>1, <3>5, AddedAll DEF f
    <3> QED
      BY <3>4, <3>6 DEF f
  <2> QED
    BY <2>6, <2>7
<1> QED
  BY <1>7, <1>11, <1>12, <1>13, <1>14 DEF Flushed, o

(* All outcomes of ipset_end_add_ip. *)
LEMMA EndAddIpFlushes ==
  ASSUME NEW c, CtxFine(c), BatchFine(c), KernelFine(kernel), queue = <<>>,
         backend \in {"ipset", "nftset"}, NEW o \in ipset_end_add_ip(c)
  PROVE  Flushed(c, o)
<1>1. CASE Requests(c) = <<>>
  <2>1. c.ipcnt[4] \in Nat /\ c.ipcnt[6] \in Nat
    BY IpsetAssumption DEF CtxFine, IsCtx, Families
  <2>2. c.ipcnt[4] = 0 /\ c.ipcnt[6] = 0
    BY <1>1, <2>1, RequestsList DEF CtxFine
  <2>3. o = [c |-> c, kernel |-> kernel, queue |-> queue, faulty |-> FALSE]
    BY <1>1 DEF ipset_end_add_ip
  <2>4. Grown(kernel, c)
    BY DEF Grown
  <2>5. \A ip \in Valid : ~InBatch(c, ip)
    <3>1. \A ip \in Valid : c.ipcnt[FamilyOf(ip)] = 0
      BY <2>2 DEF FamilyOf
    <3> QED
      BY <3>1 DEF InBatch
  <2>6. \A f \in Families : c.ipcnt[f] = 0
    BY <2>2 DEF Families
  <2> QED
    BY <2>3, <2>4, <2>5, <2>6 DEF Flushed
<1>2. CASE Requests(c) # <<>>
  <2>1. PICK k \in Sent(Len(Requests(c))) :
          \E m \in Sent(NMsg(AddMessages(c, test_ips(Requests(c), k).exists))) :
            o = Outcome(c, k, m)
    BY <1>2 DEF ipset_end_add_ip
  <2> QED
    BY <1>2, <2>1, OutcomeFlushes
<1> QED
  BY <1>1, <1>2

-----------------------------------------------------------------------------
(* The invariant *)

(* The address is owed to its set once the addition is over: no send        *)
(* failed, and the sets that matter to it are there.                        *)
Owes(c, failed, ip) ==
  /\ ~failed /\ ip \in Wanted(c) /\ c.name[FamilyOf(ip)] \in DOMAIN kernel
  /\ backend = "nftset" => \A x \in Wanted(c) : c.name[FamilyOf(x)] \in DOMAIN kernel

(* Every element of the batch is that of an address that is to be added. *)
BatchWanted(c) ==
  \A f \in Families : \A k \in 1..c.ipcnt[f] :
    \E ip \in Wanted(c) : FamilyOf(ip) = f /\ Written(c, f, k, ip)

(* During an addition what is owed is in the set or in the batch. *)
Adding ==
  /\ cur \in DOMAIN ctxs /\ left \in Seq(Valid) /\ answer = None
  /\ offered \subseteq Valid /\ faulty \in BOOLEAN
  /\ BatchWanted(ctxs[cur])
  /\ \A ip \in offered :
       Owes(ctxs[cur], faulty, ip) =>
         InSet(ctxs[cur].name[FamilyOf(ip)], ip) \/ InBatch(ctxs[cur], ip)

ConfigEntry == [kind : {"test", "add"}, name46 : Seq(Seq(STRING))]

Shape ==
  /\ queue = <<>> /\ KernelFine(kernel) /\ config \in Seq(ConfigEntry)
  /\ backend \in {"none", "ipset", "nftset"} /\ (backend = "none" => ctxs = <<>>)
  /\ \E S : ctxs \in Seq(S)

(* Between two operations no answer is unread and no batch is begun. *)
IpsetInv ==
  /\ Shape
  /\ \A i \in DOMAIN ctxs :
       /\ CtxFine(ctxs[i])
       /\ ~(pc = "adding" /\ i = cur) => \A f \in Families : ctxs[i].ipcnt[f] = 0
  /\ pc = "adding" => Adding
  /\ TestAnswersItsOwnIp /\ OfferedIpsReachTheSet

(* At the start no context is made. *)
LEMMA IpsetInitInv == Init => IpsetInv
<1> SUFFICES ASSUME Init PROVE IpsetInv
  OBVIOUS
<1>1. config \in Seq(ConfigEntry) /\ KernelFine(kernel)
  BY EnvironmentAssumption DEF Init, ConfigEntry, KernelFine, SetContents
<1>2. ctxs = <<>> /\ DOMAIN <<>> = {} /\ <<>> \in Seq({})
  BY DEF Init
<1>3. Shape
  BY <1>1, <1>2 DEF Init, Shape
<1>4. TestAnswersItsOwnIp /\ OfferedIpsReachTheSet
  BY DEF Init, TestAnswersItsOwnIp, OfferedIpsReachTheSet
<1>5. pc # "adding"
  BY DEF Init
<1> QED
  BY <1>2, <1>3, <1>4, <1>5 DEF IpsetInv

(* A context that ipset_new_testctx or ipset_new_addctx makes has room for  *)
(* a full batch and an empty one.                                           *)
LEMMA NewCtxFine ==
  ASSUME NEW c \in ConfigEntry, NEW be, be = BackendOf(c.name46),
         \A f \in Families : NameOf(c.name46, f) # None => NameOk(be, NameOf(c.name46, f))
  PROVE  LET d == NewCtx(be, c)
         IN  /\ be \in {"ipset", "nftset"} /\ IsCtx(d)
             /\ \A f \in Families :
                  /\ d.ipcnt[f] = 0
                  /\ d.name[f] # None =>
                       /\ d.baselen[f] + IP_N * elemsz(be, f) <= BUFSZ_ADD(be, f)
                       /\ d.nlmsg_len[f] <= BUFSZ_ADD(be, f)
                       /\ TestLen(be, d.name[f], f) <= BUFSZ_TEST(be, f)
<1> DEFINE d == NewCtx(be, c)
           N(f) == NameOf(c.name46, f)
           name == [f \in Families |-> IF N(f) = None THEN None ELSE Fields(N(f))]
           baselen == [f \in Families |-> IF N(f) = None THEN 0 ELSE BaseLen(be, N(f))]
           zero == [f \in Families |-> 0]
           mem == [f \in Families |-> <<>>]
<1>1. be \in {"ipset", "nftset"}
  BY DEF BackendOf
<1>2. d = [kind |-> c.kind, name |-> name, baselen |-> baselen, nlmsg_len |-> zero,
           ipcnt |-> zero, mem |-> mem]
  BY DEF NewCtx
<1>3. ASSUME NEW f \in Families, N(f) # None
      PROVE  /\ BaseLen(be, N(f)) \in Nat
             /\ BaseLen(be, N(f)) + IP_N * elemsz(be, f) <= BUFSZ_ADD(be, f)
             /\ Fields(N(f)) # None => TestLen(be, Fields(N(f)), f) <= BUFSZ_TEST(be, f)
  <2>1. c.name46 \in Seq(Seq(STRING))
    BY DEF ConfigEntry
  <2>2. PICK i \in DOMAIN c.name46 : N(f) = c.name46[i]
    <3>1. Len(c.name46) \in Nat /\ DOMAIN c.name46 = 1..Len(c.name46)
      BY <2>1, LenProperties
    <3>2. CASE f = 4
      BY <1>3, <3>1, <3>2 DEF NameOf
    <3>3. CASE f = 6
      BY <1>3, <3>1, <3>3 DEF NameOf
    <3> QED
      BY <3>2, <3>3 DEF Families
  <2>3. N(f) \in Seq(STRING)
    BY <2>1, <2>2, ElementOfSeq
  <2>4. be = "ipset" => Len(N(f)) <= 1
    <3>1. Len(N(f)) \in Nat
      BY <2>3, LenProperties
    <3> QED
      BY <2>2, <3>1 DEF BackendOf
  <2>5. NameOk(be, N(f))
    BY <1>3
  <2> HIDE DEF N
  <2> QED
    BY <1>1, <1>3, <2>3, <2>4, <2>5, NamesFit
<1>4. baselen \in [Families -> Nat]
  BY <1>3
<1>5. zero \in [Families -> Nat] /\ zero \in [Families -> 0..IP_N] /\ mem = [f \in Families |-> mem[f]]
  BY IpsetAssumption
<1>6. ASSUME NEW f \in Families PROVE BUFSZ_ADD(be, f) \in Nat
  BY IpsetAssumption DEF BUFSZ_ADD, BUFSZ_ADD_IPSET, BUFSZ_ADD_NFTSET, nla_size, iplen, HeaderLen
<1>7. ASSUME NEW f \in Families, name[f] # None
      PROVE  N(f) # None /\ name[f] = Fields(N(f)) /\ baselen[f] = BaseLen(be, N(f)) /\ zero[f] = 0
  BY <1>7
<1>8. ASSUME NEW f \in Families PROVE zero[f] = 0
  OBVIOUS
<1> HIDE DEF N, name, baselen, zero, mem, d
<1>9. IsCtx(d)
  BY <1>2, <1>4, <1>5 DEF IsCtx
<1>10. ASSUME NEW f \in Families
       PROVE  /\ d.ipcnt[f] = 0
              /\ d.name[f] # None =>
                   /\ d.baselen[f] + IP_N * elemsz(be, f) <= BUFSZ_ADD(be, f)
                   /\ d.nlmsg_len[f] <= BUFSZ_ADD(be, f)
                   /\ TestLen(be, d.name[f], f) <= BUFSZ_TEST(be, f)
  <2>1. d.ipcnt[f] = 0 /\ d.nlmsg_len[f] = 0 /\ d.name[f] = name[f] /\ d.baselen[f] = baselen[f]
    BY <1>2, <1>8
  <2>2. 0 <= BUFSZ_ADD(be, f)
    BY <1>6
  <2>3. name[f] # None =>
          /\ baselen[f] + IP_N * elemsz(be, f) <= BUFSZ_ADD(be, f)
          /\ TestLen(be, name[f], f) <= BUFSZ_TEST(be, f)
    BY <1>3, <1>7
  <2> QED
    BY <2>1, <2>2, <2>3
<1> QED
  BY <1>1, <1>9, <1>10 DEF d

(* NewContext adds a context that is in order, or the program exits. *)
LEMMA NewContextKeeps ==
  ASSUME IpsetInv, NewContext
  PROVE  IpsetInv'
<1> DEFINE c == Head(config)
           be == BackendOf(c.name46)
           d == NewCtx(be, c)
<1>1. /\ pc = "start" /\ config # <<>> /\ pc' \in {"start", "idle", "exit"}
      /\ UNCHANGED <<kernel, queue, cur, left, answer, offered, due, faulty>>
  BY DEF NewContext
<1>2. TestAnswersItsOwnIp' /\ OfferedIpsReachTheSet'
  BY <1>1 DEF IpsetInv, TestAnswersItsOwnIp, OfferedIpsReachTheSet, InSet
<1>3. \A i \in DOMAIN ctxs : CtxFine(ctxs[i]) /\ \A f \in Families : ctxs[i].ipcnt[f] = 0
  BY <1>1 DEF IpsetInv
<1>4. CASE UNCHANGED <<backend, ctxs, config>>
  <2>1. Shape'
    BY <1>1, <1>4 DEF IpsetInv, Shape, KernelFine
  <2>2. \A i \in DOMAIN ctxs' : CtxFine(ctxs[i])' /\ \A f \in Families : ctxs'[i].ipcnt[f] = 0
    BY <1>3, <1>4 DEF CtxFine, IsCtx, HasRoom
  <2> QED
    BY <1>1, <1>2, <2>1, <2>2 DEF IpsetInv
<1>5. CASE /\ backend \in {"none", be} /\ backend' = be
           /\ \A f \in Families : NameOf(c.name46, f) # None => NameOk(be, NameOf(c.name46, f))
           /\ ctxs' = Append(ctxs, d) /\ config' = Tail(config)
  <2>1. config \in Seq(ConfigEntry) /\ c \in ConfigEntry /\ config' \in Seq(ConfigEntry)
    BY <1>1, <1>5, HeadTailProperties DEF IpsetInv, Shape
  <2>2. /\ be \in {"ipset", "nftset"} /\ IsCtx(d)
        /\ \A f \in Families :
             /\ d.ipcnt[f] = 0
             /\ d.name[f] # None =>
                  /\ d.baselen[f] + IP_N * elemsz(be, f) <= BUFSZ_ADD(be, f)
                  /\ d.nlmsg_len[f] <= BUFSZ_ADD(be, f)
                  /\ TestLen(be, d.name[f], f) <= BUFSZ_TEST(be, f)
    BY <1>5, <2>1, NewCtxFine
  <2>3. PICK S : ctxs \in Seq(S)
    BY DEF IpsetInv, Shape
  <2> HIDE DEF d, be, c
  <2>4. /\ ctxs' \in Seq(S \cup {d}) /\ DOMAIN ctxs' = 1..(Len(ctxs) + 1) /\ Len(ctxs) \in Nat
        /\ \A i \in 1..Len(ctxs) : i \in DOMAIN ctxs /\ ctxs'[i] = ctxs[i]
        /\ ctxs'[Len(ctxs) + 1] = d
    BY <1>5, <2>3
  <2>5. Shape'
    BY <1>1, <1>5, <2>1, <2>2, <2>4 DEF IpsetInv, Shape, KernelFine
  <2>6. ASSUME NEW i \in DOMAIN ctxs'
        PROVE  CtxFine(ctxs[i])' /\ \A f \in Families : ctxs'[i].ipcnt[f] = 0
    <3>1. CASE i = Len(ctxs) + 1
      <4>1. ctxs'[i] = d
        BY <2>4, <3>1
      <4>2. \A f \in Families : ~(d.ipcnt[f] > 0)
        BY <2>2
      <4> QED
        BY <1>5, <2>2, <4>1, <4>2 DEF CtxFine, HasRoom, IsCtx
    <3>2. CASE i # Len(ctxs) + 1
      <4>1. i \in DOMAIN ctxs /\ ctxs'[i] = ctxs[i]
        BY <2>4, <3>2
      <4>2. backend' = backend
        <5>1. ctxs # <<>>
          BY <4>1
        <5> QED
          BY <1>5, <5>1 DEF IpsetInv, Shape
      <4> QED
        BY <1>3, <4>1, <4>2 DEF CtxFine, HasRoom, IsCtx
    <3> QED
      BY <3>1, <3>2
  <2> QED
    BY <1>1, <1>2, <2>5, <2>6 DEF IpsetInv
<1> QED
  BY <1>4, <1>5 DEF NewContext

(* When dns_add_ip begins nothing was offered and no batch is begun. *)
LEMMA BeginAddKeeps ==
  ASSUME IpsetInv, NEW i \in DOMAIN ctxs, NEW ips \in Answers, BeginAdd(i, ips)
  PROVE  IpsetInv'
<1>1. /\ pc = "idle" /\ pc' = "adding" /\ cur' = i /\ left' = ips
      /\ answer' = None /\ offered' = {} /\ faulty' = FALSE
      /\ UNCHANGED <<config, backend, ctxs, kernel, queue, due>>
  BY DEF BeginAdd
<1>2. \A j \in DOMAIN ctxs : CtxFine(ctxs[j]) /\ \A f \in Families : ctxs[j].ipcnt[f] = 0
  BY <1>1 DEF IpsetInv
<1>3. Shape'
  BY <1>1 DEF IpsetInv, Shape, KernelFine
<1>4. \A j \in DOMAIN ctxs' : CtxFine(ctxs[j])' /\ \A f \in Families : ctxs'[j].ipcnt[f] = 0
  BY <1>1, <1>2 DEF CtxFine, IsCtx, HasRoom
<1>5. ips \in Seq(Valid)
  <2>1. ips \in Seq(Addresses) /\ \A ip \in ToSet(ips) : \E k \in DOMAIN ip : ip[k] # Base - 1
    BY EnvironmentAssumption
  <2>2. \A k \in 1..Len(ips) : ips[k] \in Valid
    BY <2>1, ToSetMembers, ElementOfSeq DEF Valid
  <2>3. Len(ips) \in Nat /\ ips = [k \in 1..Len(ips) |-> ips[k]]
    BY <2>1
  <2> QED
    BY <2>2, <2>3
<1>6. Adding'
  <2>1. BatchWanted(ctxs[cur])'
    <3>1. \A f \in Families : 1..ctxs'[cur'].ipcnt[f] = {}
      BY <1>1, <1>4
    <3> QED
      BY <3>1 DEF BatchWanted
  <2> QED
    BY <1>1, <1>5, <2>1 DEF Adding
<1>7. TestAnswersItsOwnIp' /\ OfferedIpsReachTheSet'
  BY <1>1 DEF IpsetInv, TestAnswersItsOwnIp, OfferedIpsReachTheSet, InSet
<1> QED
  BY <1>3, <1>4, <1>6, <1>7 DEF IpsetInv

(* The response that ipset_test_ip takes for its own is its own: with       *)
(* ipset, no response at all means yes.                                     *)
LEMMA TestedOnce ==
  ASSUME queue = <<>>, backend \in {"ipset", "nftset"}, NEW s, NEW p
  PROVE  LET all == queue \o KernelTest(s, p, AckOf("test"))
         IN  /\ Unread(all, 1) = <<>>
             /\ (all = <<>> \/ test_res(Head(all))) <=> InSet(s, p)
<1> DEFINE k == KernelTest(s, p, AckOf("test"))
           all == queue \o k
<1>1. AckOf("test") = FALSE
  BY DEF AckOf
<1>2. \/ k = <<>> /\ InSet(s, p)
      \/ \E x \in Replies : k = <<x>> /\ (test_res(x) <=> InSet(s, p))
  <2>1. CASE InSet(s, p) /\ backend = "nftset"
    <3>1. k = <<"NEWSETELEM">>
      BY <2>1 DEF KernelTest
    <3>2. test_res("NEWSETELEM")
      BY <2>1 DEF test_res
    <3> QED
      BY <2>1, <3>1, <3>2 DEF Replies
  <2>2. CASE InSet(s, p) /\ backend # "nftset"
    <3>1. k = <<>>
      BY <1>1, <2>2 DEF KernelTest
    <3> QED
      BY <2>2, <3>1
  <2>3. CASE ~InSet(s, p)
    <3>1. k = <<"IPSET_ERR_EXIST">> \/ k = <<"ENOENT">>
      BY <2>3 DEF KernelTest
    <3>2. ~test_res("IPSET_ERR_EXIST") /\ ~test_res("ENOENT")
      BY DEF test_res
    <3> QED
      BY <2>3, <3>1, <3>2 DEF Replies
  <2> QED
    BY <2>1, <2>2, <2>3
<1> HIDE DEF k
<1>3. CASE k = <<>> /\ InSet(s, p)
  <2>1. all = <<>>
    BY <1>3
  <2>2. Unread(all, 1) = <<>>
    BY <2>1 DEF Unread
  <2> QED
    BY <1>3, <2>1, <2>2 DEF k
<1>4. ASSUME NEW x \in Replies, k = <<x>>, test_res(x) <=> InSet(s, p)
      PROVE  Unread(all, 1) = <<>> /\ ((all = <<>> \/ test_res(Head(all))) <=> InSet(s, p))
  <2>1. all = <<x>>
    BY <1>4
  <2>2. Unread(all, 1) = <<>> /\ all # <<>> /\ Head(all) = x
    <3> HIDE DEF all
    <3>1. all \in Seq({x}) /\ Len(all) = 1 /\ all[1] = x
      <4>1. <<x>> \in Seq({x}) /\ Len(<<x>>) = 1 /\ <<x>>[1] = x
        OBVIOUS
      <4> QED
        BY <2>1, <4>1, Zenon
    <3>2. Unread(all, 1) = SubSeq(all, 2, 1)
      BY <3>1 DEF Unread
    <3>3. SubSeq(all, 2, 1) = <<>>
      BY <3>1, SubSeqEmpty
    <3>4. all # <<>> /\ Head(all) = x
      BY <3>1
    <3> QED
      BY <3>2, <3>3, <3>4
  <2> HIDE DEF all
  <2> QED
    BY <1>4, <2>2, Zenon
<1> QED
  BY <1>2, <1>3, <1>4 DEF k

(* A test changes nothing but its answer. *)
LEMMA TestIpKeeps ==
  ASSUME IpsetInv, NEW i \in DOMAIN ctxs, NEW ip, TestIp(i, ip)
  PROVE  IpsetInv'
<1> DEFINE set == ctxs[i].name[FamilyOf(ip)]
           all == queue \o KernelTest(set, ip, AckOf("test"))
<1>1. pc = "idle" /\ UNCHANGED <<pc, config, backend, ctxs, kernel, cur, left, offered, due>>
  BY DEF TestIp
<1>2. queue = <<>> /\ backend \in {"ipset", "nftset"}
  <2>1. ctxs # <<>>
    OBVIOUS
  <2> QED
    BY <2>1 DEF IpsetInv, Shape
<1>3. /\ Unread(all, 1) = <<>>
      /\ (all = <<>> \/ test_res(Head(all))) <=> InSet(set, ip)
  BY <1>2, TestedOnce
<1>4. queue' = <<>> /\ TestAnswersItsOwnIp'
  <2>1. CASE set = None /\ answer' = [set |-> set, ip |-> ip, res |-> FALSE] /\ queue' = queue
    BY <1>2, <2>1 DEF TestAnswersItsOwnIp
  <2>2. ASSUME set # None, NEW n \in Sent(1), faulty' = (n # 1),
               queue' = IF n > 0 THEN Unread(all, 1) ELSE queue,
               answer' = [set |-> set, ip |-> ip,
                          res |-> n > 0 /\ (all = <<>> \/ test_res(Head(all)))]
        PROVE  queue' = <<>> /\ TestAnswersItsOwnIp'
    <3>1. n \in {1, -1}
      BY DEF Sent
    <3>2. queue' = <<>>
      BY <1>2, <1>3, <2>2, <3>1
    <3>3. answer'.set = set /\ answer'.ip = ip
      BY <2>2
    <3>4. InSet(set, ip)' <=> InSet(set, ip)
      BY <1>1 DEF InSet
    <3> DEFINE R == all = <<>> \/ test_res(Head(all))
    <3>5. answer'.res = (n > 0 /\ R)
      BY <2>2
    <3>6. (n > 0) = (~faulty')
      <4>1. CASE n = 1
        <5>1. n > 0 /\ ~(n # 1)
          BY <4>1
        <5>2. faulty' = (n # 1)
          BY <2>2
        <5> QED
          BY <5>1, <5>2
      <4>2. CASE n = -1
        <5>1. ~(n > 0) /\ n # 1
          BY <4>2
        <5>2. faulty' = (n # 1)
          BY <2>2
        <5>3. faulty'
          BY <5>1, <5>2
        <5>4. (n > 0) = FALSE /\ (~faulty') = FALSE
          BY <5>1, <5>3
        <5> QED
          BY <5>4
      <4> QED
        BY <3>1, <4>1, <4>2
    <3>7. answer'.res = (~faulty' /\ answer'.set # None /\ InSet(answer.set, answer.ip)')
      <4> HIDE DEF R, set
      <4>1. R <=> InSet(set, ip)
        BY <1>3 DEF R, set
      <4>2. InSet(answer.set, answer.ip)' <=> InSet(set, ip)
        BY <1>1, <3>3 DEF InSet
      <4> QED
        BY <2>2, <3>3, <3>5, <3>6, <4>1, <4>2
    <3> QED
      BY <3>2, <3>7 DEF TestAnswersItsOwnIp
  <2> QED
    BY <2>1, <2>2 DEF TestIp
<1>5. Shape'
  BY <1>1, <1>4 DEF IpsetInv, Shape, KernelFine
<1>6. \A j \in DOMAIN ctxs' : CtxFine(ctxs[j])' /\ \A f \in Families : ctxs'[j].ipcnt[f] = 0
  BY <1>1 DEF IpsetInv, CtxFine, IsCtx, HasRoom
<1>7. OfferedIpsReachTheSet'
  BY <1>1 DEF IpsetInv, OfferedIpsReachTheSet, InSet
<1> QED
  BY <1>1, <1>4, <1>5, <1>6, <1>7 DEF IpsetInv

(* What an addition knows of its context. *)
LEMMA AddingFacts ==
  ASSUME IpsetInv, pc = "adding"
  PROVE  /\ Adding /\ CtxFine(ctxs[cur]) /\ BatchFine(ctxs[cur])
         /\ queue = <<>> /\ KernelFine(kernel) /\ backend \in {"ipset", "nftset"}
<1>1. Adding /\ cur \in DOMAIN ctxs
  BY DEF IpsetInv, Adding
<1>2. CtxFine(ctxs[cur])
  BY <1>1 DEF IpsetInv
<1>3. BatchFine(ctxs[cur])
  BY <1>1 DEF Adding, BatchWanted, BatchFine, Wanted
<1>4. ctxs # <<>>
  BY <1>1
<1> QED
  BY <1>1, <1>2, <1>3, <1>4 DEF IpsetInv, Shape

(* After ipset_end_add_ip the sets hold what they held and, if no send      *)
(* failed, what was owed to them.                                           *)
LEMMA FlushKeeps ==
  ASSUME IpsetInv, pc = "adding", NEW o \in ipset_end_add_ip(ctxs[cur])
  PROVE  LET c == ctxs[cur]
             Holds(s, ip) == s \in DOMAIN o.kernel /\ ip \in o.kernel[s].single \cup o.kernel[s].wide
         IN  /\ Flushed(c, o)
             /\ \A s, ip : InSet(s, ip) => Holds(s, ip)
             /\ \A ip \in offered :
                  Owes(c, faulty \/ o.faulty, ip) => Holds(c.name[FamilyOf(ip)], ip)
<1> DEFINE c == ctxs[cur]
           Holds(s, ip) == s \in DOMAIN o.kernel /\ ip \in o.kernel[s].single \cup o.kernel[s].wide
<1>1. Flushed(c, o)
  BY AddingFacts, EndAddIpFlushes
<1>2. ASSUME NEW s, NEW ip, InSet(s, ip) PROVE Holds(s, ip)
  BY <1>1, <1>2 DEF Flushed, Grown, InSet
<1>3. ASSUME NEW ip \in offered, Owes(c, faulty \/ o.faulty, ip)
      PROVE  Holds(c.name[FamilyOf(ip)], ip)
  <2>1. ~faulty /\ ~o.faulty
    BY <1>3 DEF Owes
  <2>2. Owes(c, faulty, ip)
    BY <1>3, <2>1 DEF Owes
  <2>3. Adding
    BY AddingFacts
  <2>4. CASE InSet(c.name[FamilyOf(ip)], ip)
    BY <1>2, <2>4
  <2>5. CASE InBatch(c, ip)
    <3>1. ip \in Valid /\ c.name[FamilyOf(ip)] \in DOMAIN kernel
      BY <1>3, <2>3 DEF Owes, Adding
    <3>2. ASSUME backend = "nftset", NEW g \in Families, c.ipcnt[g] > 0
          PROVE  c.name[g] \in DOMAIN kernel
      <4>1. c.ipcnt[g] \in Nat
        BY AddingFacts, IpsetAssumption DEF CtxFine, IsCtx
      <4>2. 1 \in 1..c.ipcnt[g]
        BY <3>2, <4>1
      <4>3. PICK x \in Wanted(c) : FamilyOf(x) = g
        BY <2>3, <4>2 DEF Adding, BatchWanted
      <4> QED
        BY <1>3, <3>2, <4>3 DEF Owes
    <3>3. DOMAIN o.kernel = DOMAIN kernel
      BY <1>1 DEF Flushed, Grown
    <3> QED
      BY <1>1, <2>1, <2>5, <3>1, <3>2, <3>3 DEF Flushed
  <2> QED
    BY <2>2, <2>3, <2>4, <2>5 DEF Adding
<1> QED
  BY <1>1, <1>2, <1>3

(* An address is appended to a context that has room for it: the batch, or  *)
(* the empty one after it was sent.                                         *)
LEMMA AppendKeeps ==
  ASSUME IpsetInv, pc = "adding", left # <<>>, NEW b,
         left' = Tail(left), offered' = offered \cup {Head(left)},
         UNCHANGED <<pc, config, backend, cur, answer, due>>,
         CtxFine(b), b.name = ctxs[cur].name, BatchWanted(b),
         b.ipcnt[FamilyOf(Head(left))] < IP_N,
         Head(left) \in Valid, b.name[FamilyOf(Head(left))] # None,
         ~(Blacklist /\ in_blacklist(Head(left))),
         ctxs' = [ctxs EXCEPT ![cur] = Appended(b, FamilyOf(Head(left)), Head(left))],
         DOMAIN kernel' = DOMAIN kernel, KernelFine(kernel'), queue' = <<>>,
         faulty' \in BOOLEAN, \A s, x : InSet(s, x) => InSet(s, x)',
         \A x \in offered : Owes(ctxs[cur], faulty', x) =>
                              InSet(b.name[FamilyOf(x)], x)' \/ InBatch(b, x)
  PROVE  IpsetInv'
<1> DEFINE ip == Head(left)
           f == FamilyOf(ip)
           c == ctxs[cur]
           d == Appended(b, f, ip)
<1>1. f \in Families
  BY ValidDigits
<1>2. /\ CtxFine(d) /\ d.name = b.name /\ d.ipcnt = [b.ipcnt EXCEPT ![f] = b.ipcnt[f] + 1]
      /\ Written(d, f, b.ipcnt[f] + 1, ip)
      /\ \A g \in Families : \A k \in 1..b.ipcnt[g] : \A x :
           Written(b, g, k, x) => Written(d, g, k, x)
  <2>1. CtxFine(b) /\ b.name[f] # None /\ b.ipcnt[f] < IP_N
    OBVIOUS
  <2> HIDE DEF f, ip
  <2> QED
    BY <1>1, <2>1, AppendedKeeps
<1>3. Adding /\ cur \in DOMAIN ctxs /\ cur' = cur /\ backend' = backend
  BY AddingFacts DEF Adding
<1>4. PICK S : ctxs \in Seq(S)
  BY DEF IpsetInv, Shape
<1>5. b.ipcnt \in [Families -> Nat]
  BY IpsetAssumption DEF CtxFine, IsCtx
<1> HIDE DEF d
<1>6. /\ ctxs' \in Seq(S \cup {d}) /\ DOMAIN ctxs' = DOMAIN ctxs /\ ctxs'[cur] = d
      /\ \A i \in DOMAIN ctxs : i # cur => ctxs'[i] = ctxs[i]
  <2>1. ctxs' = [ctxs EXCEPT ![cur] = d]
    BY DEF d
  <2> QED
    BY <1>3, <1>4, <2>1
<1>7. Shape'
  BY <1>3, <1>6 DEF IpsetInv, Shape, KernelFine
<1>8. ASSUME NEW i \in DOMAIN ctxs'
      PROVE  /\ CtxFine(ctxs[i])'
             /\ ~(pc = "adding" /\ i = cur)' => \A g \in Families : ctxs'[i].ipcnt[g] = 0
  <2>1. CASE i = cur
    <3>1. ctxs'[i] = d /\ pc' = "adding" /\ cur' = cur
      BY <1>6, <2>1
    <3>2. CtxFine(ctxs[i])'
      <4>1. CtxFine(d)
        BY <1>2
      <4>2. IsCtx(ctxs[i])'
        BY <3>1, <4>1 DEF CtxFine, IsCtx
      <4>3. \A g \in Families : HasRoom(ctxs[i], g)'
        BY <1>3, <3>1, <4>1 DEF CtxFine, HasRoom
      <4> QED
        BY <4>2, <4>3 DEF CtxFine
    <3> QED
      BY <2>1, <3>1, <3>2
  <2>2. CASE i # cur
    <3>1. ctxs'[i] = ctxs[i] /\ i \in DOMAIN ctxs
      BY <1>6, <2>2
    <3>2. CtxFine(ctxs[i]) /\ \A g \in Families : ctxs[i].ipcnt[g] = 0
      BY <2>2, <3>1 DEF IpsetInv
    <3> QED
      BY <1>3, <3>1, <3>2 DEF CtxFine, IsCtx, HasRoom
  <2> QED
    BY <2>1, <2>2
<1>9. ASSUME NEW x \in Wanted(b) PROVE x \in Wanted(ctxs[cur])' /\ x \in Wanted(c)
  BY <1>2, <1>3, <1>6 DEF Wanted
<1>10. ip \in Wanted(ctxs[cur])'
  BY <1>2, <1>3, <1>6 DEF Wanted
<1>11. ASSUME NEW g, NEW k, NEW x, Written(d, g, k, x) PROVE Written(ctxs[cur], g, k, x)'
  BY <1>3, <1>6, <1>11 DEF Written, Place
<1>12. BatchWanted(ctxs[cur])'
  <2>1. SUFFICES ASSUME NEW g \in Families, NEW k \in 1..d.ipcnt[g]
                 PROVE  \E x \in Wanted(ctxs[cur])' :
                          FamilyOf(x) = g /\ Written(ctxs[cur], g, k, x)'
    BY <1>3, <1>6 DEF BatchWanted
  <2>2. CASE k \in 1..b.ipcnt[g]
    <3>1. PICK x \in Wanted(b) : FamilyOf(x) = g /\ Written(b, g, k, x)
      BY <2>2 DEF BatchWanted
    <3> QED
      BY <1>2, <1>9, <1>11, <2>2, <3>1
  <2>3. CASE k \notin 1..b.ipcnt[g]
    <3>1. g = f /\ k = b.ipcnt[f] + 1
      BY <1>1, <1>2, <1>5, <2>3
    <3> QED
      BY <1>2, <1>10, <1>11, <3>1
  <2> QED
    BY <2>2, <2>3
<1>13. ASSUME NEW x \in offered', Owes(ctxs[cur], faulty, x)'
       PROVE  (InSet(ctxs[cur].name[FamilyOf(x)], x) \/ InBatch(ctxs[cur], x))'
  <2>1. ctxs'[cur'].name = b.name /\ ctxs'[cur'].ipcnt = d.ipcnt
    BY <1>2, <1>3, <1>6
  <2>2. ASSUME NEW k \in 1..d.ipcnt[FamilyOf(x)], Written(d, FamilyOf(x), k, x)
        PROVE  InBatch(ctxs[cur], x)'
    BY <1>11, <2>1, <2>2 DEF InBatch
  <2>3. CASE x = ip
    <3>1. b.ipcnt[f] + 1 \in 1..d.ipcnt[f]
      BY <1>1, <1>2, <1>5
    <3> QED
      BY <1>2, <2>2, <2>3, <3>1
  <2>4. CASE x # ip
    <3>1. x \in offered
      BY <2>4
    <3>2. Owes(c, faulty', x)
      <4>1. \A y \in Wanted(c) : y \in Wanted(ctxs[cur])'
        BY <1>9 DEF Wanted
      <4>2. ~faulty' /\ x \in Wanted(c) /\ c.name[FamilyOf(x)] \in DOMAIN kernel
        BY <1>13, <2>1, <3>1 DEF Owes, Wanted
      <4>3. backend = "nftset" => \A y \in Wanted(c) : c.name[FamilyOf(y)] \in DOMAIN kernel
        BY <1>13, <1>3, <2>1, <4>1 DEF Owes
      <4> QED
        BY <4>2, <4>3 DEF Owes
    <3>3. InSet(b.name[FamilyOf(x)], x)' \/ InBatch(b, x)
      BY <3>1, <3>2
    <3>4. CASE InSet(b.name[FamilyOf(x)], x)'
      BY <2>1, <3>4 DEF InSet
    <3>5. CASE InBatch(b, x)
      <4>1. PICK k \in 1..b.ipcnt[FamilyOf(x)] : Written(b, FamilyOf(x), k, x)
        BY <3>5 DEF InBatch
      <4>2. x \in Valid
        BY <1>3, <3>1 DEF Adding
      <4>3. FamilyOf(x) \in Families
        BY <4>2, ValidDigits
      <4>4. k \in 1..d.ipcnt[FamilyOf(x)]
        <5>1. PICK n \in Nat : n = b.ipcnt[FamilyOf(x)]
          BY <1>5, <4>3
        <5>2. d.ipcnt[FamilyOf(x)] \in {n, n + 1}
          BY <1>1, <1>2, <1>5, <4>3, <5>1
        <5>3. k \in 1..n
          BY <5>1
        <5> QED
          BY <5>2, <5>3
      <4> QED
        BY <1>2, <2>2, <4>1, <4>3, <4>4
    <3> QED
      BY <3>3, <3>4, <3>5
  <2> QED
    BY <2>3, <2>4
<1>14. Adding'
  <2>1. left' \in Seq(Valid)
    BY <1>3, HeadTailProperties DEF Adding
  <2>2. offered' \subseteq Valid /\ answer' = None /\ cur' \in DOMAIN ctxs'
    BY <1>3, <1>6 DEF Adding
  <2> QED
    BY <1>12, <1>13, <2>1, <2>2 DEF Adding
<1>15. TestAnswersItsOwnIp' /\ OfferedIpsReachTheSet'
  <2>1. answer' = None
    BY <1>3 DEF Adding
  <2>2. OfferedIpsReachTheSet
    BY DEF IpsetInv
  <2>3. OfferedIpsReachTheSet'
    BY <2>2 DEF OfferedIpsReachTheSet
  <2> QED
    BY <2>1, <2>3 DEF TestAnswersItsOwnIp
<1> QED
  BY <1>7, <1>8, <1>14, <1>15 DEF IpsetInv

(* ipset_add_ip: the address is not to be added, or it is appended to the   *)
(* batch, which is sent first if it is full.                                *)
LEMMA AddIpKeeps ==
  ASSUME IpsetInv, AddIp
  PROVE  IpsetInv'
<1> DEFINE ip == Head(left)
           f == FamilyOf(ip)
           c == ctxs[cur]
<1>1. /\ pc = "adding" /\ left # <<>> /\ left' = Tail(left) /\ offered' = offered \cup {ip}
      /\ UNCHANGED <<pc, config, backend, cur, answer, due>>
  BY DEF AddIp
<1>2. /\ Adding /\ CtxFine(c) /\ queue = <<>> /\ KernelFine(kernel)
  BY <1>1, AddingFacts
<1>3. ip \in Valid /\ f \in Families
  <2>1. ip \in Valid
    BY <1>1, <1>2, HeadTailProperties DEF Adding
  <2> QED
    BY <2>1, ValidDigits
<1>4. CASE /\ c.name[f] = None \/ (Blacklist /\ in_blacklist(ip))
           /\ UNCHANGED <<ctxs, kernel, queue, faulty>>
  <2>1. Shape' /\ TestAnswersItsOwnIp' /\ OfferedIpsReachTheSet'
    BY <1>1, <1>4 DEF IpsetInv, Shape, KernelFine, TestAnswersItsOwnIp, OfferedIpsReachTheSet, InSet
  <2>2. ASSUME NEW i \in DOMAIN ctxs'
        PROVE  /\ CtxFine(ctxs[i])'
               /\ ~(pc = "adding" /\ i = cur)' => \A g \in Families : ctxs'[i].ipcnt[g] = 0
    <3>1. CtxFine(ctxs[i])
      BY <1>4 DEF IpsetInv
    <3>2. CtxFine(ctxs[i])'
      BY <1>1, <1>4, <3>1 DEF CtxFine, IsCtx, HasRoom
    <3>3. ~(pc = "adding" /\ i = cur)' => \A g \in Families : ctxs'[i].ipcnt[g] = 0
      BY <1>1, <1>4 DEF IpsetInv
    <3> QED
      BY <3>2, <3>3
  <2>3. Wanted(c)' = Wanted(c)
    BY <1>1, <1>4 DEF Wanted
  <2>4. Adding'
    <3>1. left' \in Seq(Valid) /\ offered' \subseteq Valid
      BY <1>1, <1>2, <1>3, HeadTailProperties DEF Adding
    <3>2. BatchWanted(c)'
      BY <1>1, <1>2, <1>4, <2>3 DEF Adding, BatchWanted, Written, Place
    <3>3. ASSUME NEW x \in offered', Owes(ctxs[cur], faulty, x)'
          PROVE  (InSet(ctxs[cur].name[FamilyOf(x)], x) \/ InBatch(ctxs[cur], x))'
      <4>1. Owes(c, faulty, x) /\ x \in offered
        BY <1>1, <1>4, <2>3, <3>3 DEF Owes, Wanted
      <4>2. InSet(c.name[FamilyOf(x)], x) \/ InBatch(c, x)
        BY <1>2, <4>1 DEF Adding
      <4> QED
        BY <1>1, <1>4, <4>2 DEF InSet, InBatch, Written, Place
    <3> QED
      BY <1>1, <1>2, <1>4, <3>1, <3>2, <3>3 DEF Adding
  <2> QED
    BY <2>1, <2>2, <2>4 DEF IpsetInv
<1>5. CASE /\ c.name[f] # None /\ ~(Blacklist /\ in_blacklist(ip)) /\ ~Full(c, f)
           /\ ctxs' = [ctxs EXCEPT ![cur] = Appended(c, f, ip)]
           /\ UNCHANGED <<kernel, queue, faulty>>
  <2> PICK b : b = c
    OBVIOUS
  <2>1. b.ipcnt[f] < IP_N
    BY <1>2, <1>3, <1>5, IpsetAssumption DEF CtxFine, IsCtx, Full
  <2>2. BatchWanted(b) /\ faulty' \in BOOLEAN
    BY <1>2, <1>5 DEF Adding
  <2>3. \A s, x : InSet(s, x) => InSet(s, x)'
    BY <1>5 DEF InSet
  <2>4. ASSUME NEW x \in offered, Owes(c, faulty', x)
        PROVE  InSet(b.name[FamilyOf(x)], x)' \/ InBatch(b, x)
    <3>1. Owes(c, faulty, x)
      BY <1>5, <2>4
    <3>2. InSet(b.name[FamilyOf(x)], x) \/ InBatch(b, x)
      BY <1>2, <3>1 DEF Adding
    <3> QED
      BY <2>3, <3>2
  <2>5. DOMAIN kernel' = DOMAIN kernel /\ KernelFine(kernel') /\ queue' = <<>>
    BY <1>2, <1>5
  <2>6. /\ CtxFine(b) /\ b.name = ctxs[cur].name /\ b.name[f] # None
        /\ ctxs' = [ctxs EXCEPT ![cur] = Appended(b, f, ip)]
    BY <1>2, <1>5
  <2> QED
    BY <1>1, <1>3, <1>5, <2>1, <2>2, <2>3, <2>4, <2>5, <2>6, AppendKeeps
<1>6. ASSUME c.name[f] # None, ~(Blacklist /\ in_blacklist(ip)), NEW o \in ipset_end_add_ip(c),
             ctxs' = [ctxs EXCEPT ![cur] = Appended(o.c, f, ip)],
             kernel' = o.kernel, queue' = o.queue, faulty' = (faulty \/ o.faulty)
      PROVE  IpsetInv'
  <2>1. /\ Flushed(c, o)
        /\ \A s, x : InSet(s, x) =>
             s \in DOMAIN o.kernel /\ x \in o.kernel[s].single \cup o.kernel[s].wide
        /\ \A x \in offered : Owes(c, faulty \/ o.faulty, x) =>
             /\ c.name[FamilyOf(x)] \in DOMAIN o.kernel
             /\ x \in o.kernel[c.name[FamilyOf(x)]].single \cup o.kernel[c.name[FamilyOf(x)]].wide
    BY <1>1, FlushKeeps
  <2>2. /\ CtxFine(o.c) /\ o.c.name = c.name /\ \A g \in Families : o.c.ipcnt[g] = 0
        /\ queue' = <<>> /\ o.faulty \in BOOLEAN
        /\ DOMAIN kernel' = DOMAIN kernel /\ KernelFine(kernel')
    BY <1>6, <2>1 DEF Flushed, Grown
  <2>3. BatchWanted(o.c)
    <3>1. \A g \in Families : 1..o.c.ipcnt[g] = {}
      BY <2>2
    <3> QED
      BY <3>1 DEF BatchWanted
  <2>4. o.c.ipcnt[f] < IP_N
    BY <1>3, <2>2, IpsetAssumption
  <2>5. \A s, x : InSet(s, x) => InSet(s, x)'
    BY <1>6, <2>1 DEF InSet
  <2>6. \A x \in offered : Owes(c, faulty', x) => InSet(o.c.name[FamilyOf(x)], x)'
    BY <1>6, <2>1, <2>2 DEF InSet
  <2>7. faulty' \in BOOLEAN
    BY <1>2, <1>6, <2>2 DEF Adding
  <2> QED
    BY <1>1, <1>3, <1>6, <2>2, <2>3, <2>4, <2>5, <2>6, <2>7, AppendKeeps
<1> QED
  BY <1>4, <1>5, <1>6 DEF AddIp

(* When dns_add_ip ends the last batch is sent, and what is owed is in the  *)
(* sets.                                                                    *)
LEMMA EndAddKeeps ==
  ASSUME IpsetInv, EndAdd
  PROVE  IpsetInv'
<1> DEFINE c == ctxs[cur]
<1>1. /\ pc = "adding" /\ pc' = "idle"
      /\ UNCHANGED <<config, backend, left, answer>>
  BY DEF EndAdd
<1>2. PICK o \in ipset_end_add_ip(c) :
        /\ ctxs' = [ctxs EXCEPT ![cur] = o.c]
        /\ kernel' = o.kernel /\ queue' = o.queue
        /\ due' = due \cup Owed(c, faulty \/ o.faulty)
  BY DEF EndAdd
<1>3. Adding /\ cur \in DOMAIN ctxs
  BY <1>1, AddingFacts DEF Adding
<1>4. /\ Flushed(c, o)
      /\ \A s, x : InSet(s, x) =>
           s \in DOMAIN o.kernel /\ x \in o.kernel[s].single \cup o.kernel[s].wide
      /\ \A x \in offered : Owes(c, faulty \/ o.faulty, x) =>
           /\ c.name[FamilyOf(x)] \in DOMAIN o.kernel
           /\ x \in o.kernel[c.name[FamilyOf(x)]].single \cup o.kernel[c.name[FamilyOf(x)]].wide
  BY <1>1, FlushKeeps
<1>5. /\ CtxFine(o.c) /\ \A g \in Families : o.c.ipcnt[g] = 0
      /\ queue' = <<>> /\ KernelFine(kernel')
  BY <1>2, <1>4 DEF Flushed, Grown
<1>6. PICK S : ctxs \in Seq(S)
  BY DEF IpsetInv, Shape
<1>7. /\ ctxs' \in Seq(S \cup {o.c}) /\ DOMAIN ctxs' = DOMAIN ctxs /\ ctxs'[cur] = o.c
      /\ \A i \in DOMAIN ctxs : i # cur => ctxs'[i] = ctxs[i]
  BY <1>2, <1>3, <1>6
<1>8. Shape'
  <2>1. backend = "none" => ctxs' = <<>>
    BY <1>1, AddingFacts
  <2> QED
    BY <1>1, <1>5, <1>7, <2>1 DEF IpsetInv, Shape, KernelFine
<1>9. ASSUME NEW i \in DOMAIN ctxs'
      PROVE  CtxFine(ctxs[i])' /\ \A g \in Families : ctxs'[i].ipcnt[g] = 0
  <2>1. CtxFine(ctxs'[i]) /\ \A g \in Families : ctxs'[i].ipcnt[g] = 0
    <3>1. CASE i = cur
      BY <1>5, <1>7, <3>1
    <3>2. CASE i # cur
      <4>1. ctxs'[i] = ctxs[i] /\ i \in DOMAIN ctxs
        BY <1>7, <3>2
      <4> QED
        BY <3>2, <4>1 DEF IpsetInv
    <3> QED
      BY <3>1, <3>2
  <2>2. CtxFine(ctxs[i])'
    BY <1>1, <2>1 DEF CtxFine, IsCtx, HasRoom
  <2> QED
    BY <2>1, <2>2
<1>10. TestAnswersItsOwnIp'
  BY <1>1, <1>3 DEF Adding, TestAnswersItsOwnIp
<1>11. OfferedIpsReachTheSet'
  <2>1. SUFFICES ASSUME NEW d \in due'
                 PROVE  d[1] \in DOMAIN o.kernel /\ d[2] \in o.kernel[d[1]].single \cup o.kernel[d[1]].wide
    BY <1>2 DEF OfferedIpsReachTheSet, InSet
  <2>2. CASE d \in due
    BY <1>4, <2>2 DEF IpsetInv, OfferedIpsReachTheSet
  <2>3. CASE d \in Owed(c, faulty \/ o.faulty)
    <3>1. PICK x \in Wanted(c) : /\ d = <<c.name[FamilyOf(x)], x>>
                                 /\ Owes(c, faulty \/ o.faulty, x)
      <4> DEFINE missing == {x \in Wanted(c) : c.name[FamilyOf(x)] \notin DOMAIN kernel}
      <4>1. /\ ~(faulty \/ o.faulty) /\ ~(backend = "nftset" /\ missing # {})
            /\ d \in {<<c.name[FamilyOf(x)], x>> : x \in Wanted(c) \ missing}
        BY <2>3 DEF Owed
      <4>2. PICK x \in Wanted(c) \ missing : d = <<c.name[FamilyOf(x)], x>>
        BY <4>1
      <4> QED
        BY <4>1, <4>2 DEF Owes
    <3>2. x \in offered /\ d[1] = c.name[FamilyOf(x)] /\ d[2] = x
      BY <3>1 DEF Wanted
    <3> QED
      BY <1>4, <3>1, <3>2
  <2> QED
    BY <1>2, <2>2, <2>3
<1> QED
  BY <1>1, <1>8, <1>9, <1>10, <1>11 DEF IpsetInv

(* Every step keeps the invariant. *)
LEMMA IpsetStepInv == IpsetInv /\ [Next]_vars => IpsetInv'
<1> SUFFICES ASSUME IpsetInv, [Next]_vars PROVE IpsetInv'
  OBVIOUS
<1>1. CASE UNCHANGED vars
  <2>1. Shape' /\ TestAnswersItsOwnIp' /\ OfferedIpsReachTheSet'
    BY <1>1 DEF vars, IpsetInv, Shape, KernelFine, TestAnswersItsOwnIp, OfferedIpsReachTheSet, InSet
  <2>2. ASSUME NEW i \in DOMAIN ctxs'
        PROVE  /\ CtxFine(ctxs[i])'
               /\ ~(pc = "adding" /\ i = cur)' => \A g \in Families : ctxs'[i].ipcnt[g] = 0
    <3>1. CtxFine(ctxs[i])
      BY <1>1 DEF vars, IpsetInv
    <3>2. CtxFine(ctxs[i])'
      BY <1>1, <3>1 DEF vars, CtxFine, IsCtx, HasRoom
    <3>3. ~(pc = "adding" /\ i = cur)' => \A g \in Families : ctxs'[i].ipcnt[g] = 0
      BY <1>1 DEF vars, IpsetInv
    <3> QED
      BY <3>2, <3>3
  <2>3. (pc = "adding" => Adding)'
    BY <1>1 DEF vars, IpsetInv, Adding, BatchWanted, Wanted, Owes, InSet, InBatch, Written, Place
  <2> QED
    BY <2>1, <2>2, <2>3 DEF IpsetInv
<1>2. CASE Next
  BY <1>2, NewContextKeeps, BeginAddKeeps, TestIpKeeps, AddIpKeeps, EndAddKeeps DEF Next
<1> QED
  BY <1>1, <1>2

-----------------------------------------------------------------------------
(* The theorems *)

(* The invariant holds in every state. *)
THEOREM IpsetInvariant == Spec => []IpsetInv
<1>1. Init => IpsetInv
  BY IpsetInitInv
<1>2. IpsetInv /\ [Next]_vars => IpsetInv'
  BY IpsetStepInv
<1> QED
  BY <1>1, <1>2, PTL DEF Spec

(* What the invariant says of the sizes is enough for all the buffers. *)
LEMMA RoomSuffices == IpsetInv => BuffersSuffice
<1> SUFFICES ASSUME IpsetInv, NEW i \in DOMAIN ctxs
             PROVE  LET c == ctxs[i]
                        n == c.ipcnt[4] + c.ipcnt[6]
                    IN /\ n <= MSG_N /\ AddReads(1) <= MSG_N
                       /\ 2 * n <= IOV_N /\ 2 + Cardinality(Families) + n <= IOV_N
                       /\ \A f \in Families :
                            c.name[f] # None =>
                              /\ c.nlmsg_len[f] <= BUFSZ_ADD(backend, f)
                              /\ TestLen(backend, c.name[f], f) <= BUFSZ_TEST(backend, f)
  BY DEF BuffersSuffice
<1> DEFINE c == ctxs[i]
           n == c.ipcnt[4] + c.ipcnt[6]
<1>1. CtxFine(c)
  BY DEF IpsetInv
<1>2. PICK a \in Nat, b \in Nat : /\ a = c.ipcnt[4] /\ b = c.ipcnt[6]
                                  /\ a <= IP_N /\ b <= IP_N
  BY <1>1, IpsetAssumption DEF CtxFine, IsCtx, Families
<1>3. Cardinality(Families) = 2
  <2>1. IsFiniteSet({4}) /\ Cardinality({4}) = 1
    BY FS_Singleton
  <2>2. Cardinality({4} \cup {6}) = Cardinality({4}) + 1
    BY <2>1, FS_AddElement
  <2>3. Families = {4} \cup {6}
    BY DEF Families
  <2> QED
    BY <2>1, <2>2, <2>3
<1>4. IP_N \in Nat \ {0}
  BY IpsetAssumption
<1>5. n <= MSG_N /\ AddReads(1) <= MSG_N /\ MSG_N = 2 * IP_N
  BY <1>2, <1>4 DEF MSG_N, AddReads, Larger
<1>6. IOV_N >= 4 * IP_N /\ IOV_N >= 2 * IP_N + 6 /\ IOV_N \in Nat
  BY <1>4 DEF IOV_N, Larger
<1>7. 2 * n <= IOV_N /\ 2 + 2 + n <= IOV_N
  BY <1>2, <1>4, <1>6
<1>8. \A f \in Families :
        c.name[f] # None => /\ c.nlmsg_len[f] <= BUFSZ_ADD(backend, f)
                            /\ TestLen(backend, c.name[f], f) <= BUFSZ_TEST(backend, f)
  BY <1>1 DEF CtxFine, HasRoom
<1> QED
  BY <1>3, <1>5, <1>7, <1>8

(* The buffers of ipset.c hold every message, request and answer that an    *)
(* accepted configuration and any reply can lead to.                        *)
THEOREM IpsetBuffersSuffice == Spec => []BuffersSuffice
BY IpsetInvariant, RoomSuffices, PTL

(* ipset_test_ip answers for the address and the set that it was asked for. *)
THEOREM IpsetTestAnswersItsOwnIp == Spec => []TestAnswersItsOwnIp
<1>1. IpsetInv => TestAnswersItsOwnIp
  BY DEF IpsetInv
<1> QED
  BY <1>1, IpsetInvariant, PTL

(* Every address of a reply that dns_add_ip was to add is in its set when   *)
(* no send failed and the sets exist.                                       *)
THEOREM IpsetOfferedIpsReachTheSet == Spec => []OfferedIpsReachTheSet
<1>1. IpsetInv => OfferedIpsReachTheSet
  BY DEF IpsetInv
<1> QED
  BY <1>1, IpsetInvariant, PTL

(* What is new in a set was offered, and it is not on the blacklist. *)
LEMMA NewIsWanted ==
  ASSUME IpsetInv, pc = "adding", NEW k, Grown(k, ctxs[cur]),
         NEW s \in DOMAIN kernel, NEW ip \in k[s].single \ kernel[s].single
  PROVE  /\ ip \in offered
         /\ Blacklist => /\ FamilyOf(ip) = 4 => ip[1] \notin {0, Loopback}
                         /\ FamilyOf(ip) = 6 => Num(ip) > 1
<1> DEFINE c == ctxs[cur]
           f == FamilyOf(ip)
<1>1. ip \in Valid /\ InBatch(c, ip)
  BY DEF Grown
<1>2. PICK l \in 1..c.ipcnt[f] : Written(c, f, l, ip)
  BY <1>1 DEF InBatch
<1>3. /\ f \in Families /\ Bytes[f] \in Nat \ {0} /\ ip \in Digits(Bytes[f])
  BY <1>1, ValidDigits
<1>4. BatchWanted(c)
  BY AddingFacts DEF Adding
<1>5. PICK x \in Wanted(c) : Written(c, f, l, x)
  BY <1>2, <1>3, <1>4 DEF BatchWanted
<1>6. x = ip
  BY <1>2, <1>5 DEF Written
<1>7. ip \in offered /\ ~(Blacklist /\ in_blacklist(ip))
  BY <1>5, <1>6 DEF Wanted
<1>8. ASSUME Blacklist, f = 4 PROVE ip[1] \notin {0, Loopback}
  BY <1>7, <1>8 DEF in_blacklist
<1>9. ASSUME Blacklist, f = 6 PROVE Num(ip) > 1
  <2>1. Len(ip) = Bytes[f]
    BY <1>3, DigitsLen
  <2>2. ~(Last(ip) \in {0, 1} /\ \A j \in 1..(Len(ip) - 1) : ip[j] = 0)
    BY <1>7, <1>9 DEF in_blacklist
  <2>3. ~(ip[Bytes[f]] \in {0, 1} /\ \A j \in 1..(Bytes[f] - 1) : ip[j] = 0)
    BY <2>1, <2>2 DEF Last
  <2> QED
    BY <1>3, <2>3, LargeNum
<1> QED
  BY <1>7, <1>8, <1>9

(* The kernel's sets get no address that the reply did not hold, and none   *)
(* that the built-in blacklist keeps out.                                   *)
THEOREM IpsetOnlyOfferedIpsAreAdded == Spec => OnlyOfferedIpsAreAdded
<1> DEFINE A == \A s \in DOMAIN kernel :
                  \A ip \in kernel'[s].single \ kernel[s].single :
                    /\ ip \in offered \cup offered'
                    /\ Blacklist => /\ FamilyOf(ip) = 4 => ip[1] \notin {0, Loopback}
                                    /\ FamilyOf(ip) = 6 => Num(ip) > 1
<1>1. ASSUME IpsetInv, [Next]_vars PROVE A
  <2>1. CASE kernel' = kernel
    BY <2>1
  <2>2. ASSUME pc = "adding", NEW o \in ipset_end_add_ip(ctxs[cur]), kernel' = o.kernel
        PROVE  A
    <3>1. Flushed(ctxs[cur], o)
      BY <1>1, <2>2, FlushKeeps
    <3>2. Grown(o.kernel, ctxs[cur])
      BY <3>1 DEF Flushed
    <3> QED
      BY <1>1, <2>2, <3>2, NewIsWanted
  <2>3. \/ kernel' = kernel
        \/ pc = "adding" /\ \E o \in ipset_end_add_ip(ctxs[cur]) : kernel' = o.kernel
    BY <1>1 DEF Next, vars, NewContext, BeginAdd, TestIp, AddIp, EndAdd
  <2> QED
    BY <2>1, <2>2, <2>3
<1>2. IpsetInv /\ [Next]_vars => [A]_vars
  BY <1>1
<1> QED
  BY <1>2, IpsetInvariant, PTL DEF Spec, OnlyOfferedIpsAreAdded

==============================================================================
