---------------------------- MODULE DnsWireProofs ----------------------------
(***************************************************************************)
(* Proofs about the messages as bytes: every operation stays inside the    *)
(* message, and what is sent or kept is well formed, whatever arrives.     *)
(***************************************************************************)
EXTENDS DnsWire, SequenceLemmas

(* The limits of a cell. *)
LEMMA Limits ==
  /\ 2 ^ Bits \in Nat /\ 2 ^ (Bits - 1) \in Nat
  /\ 2 ^ Bits = 2 * 2 ^ (Bits - 1) /\ 2 ^ (Bits - 1) >= 4
  /\ LabelMax \in Nat /\ PtrMin \in Nat /\ LabelMax >= 1 /\ LabelMax < PtrMin
  /\ Cells \subseteq Nat
<1>1. Bits \in Nat /\ Bits > 2
  BY WireAssumption
<1>2. /\ Bits - 1 \in Nat /\ Bits - 2 \in Nat /\ Bits - 3 \in Nat
      /\ (Bits - 1) + 1 = Bits /\ (Bits - 2) + 1 = Bits - 1 /\ (Bits - 3) + 1 = Bits - 2
  BY <1>1
<1>3. PICK d \in Nat : d = 2 ^ (Bits - 3)
  BY <1>2, PowerOfTwo
<1>4. d > 0
  BY <1>2, <1>3, PowerOfTwo
<1>5. 2 ^ (Bits - 2) = 2 * d
  BY <1>2, <1>3, PowerDoubles
<1>6. 2 ^ (Bits - 1) = 2 * 2 ^ (Bits - 2)
  BY <1>2, PowerDoubles
<1>7. 2 ^ Bits = 2 * 2 ^ (Bits - 1)
  BY <1>2, PowerDoubles
<1>8. 2 ^ (Bits - 1) = 4 * d
  BY <1>5, <1>6
<1>9. LabelMax = 2 * d - 1 /\ PtrMin = 6 * d /\ Cells = 0..(2 ^ Bits - 1)
  BY <1>5 DEF LabelMax, PtrMin, Cells
<1>10. 2 ^ Bits = 8 * d
  BY <1>7, <1>8
<1> QED
  BY <1>3, <1>4, <1>8, <1>9, <1>10

-----------------------------------------------------------------------------
(* Labels *)

\* where the label at l leads
Hop(b, l) == IF l <= Len(b) /\ b[l] \in 1..LabelMax THEN l + 1 + b[l] ELSE l

(* The recursion of LabelAt. *)
LEMMA LabelSteps ==
  ASSUME NEW b, NEW p
  PROVE  /\ LabelAt(b, p, 0) = p
         /\ \A k \in Nat : LabelAt(b, p, k + 1) = Hop(b, LabelAt(b, p, k))
<1> DEFINE at[i \in Nat] ==
             IF i = 0 THEN p
             ELSE LET l == at[i - 1]
                  IN IF l <= Len(b) /\ b[l] \in 1..LabelMax THEN l + 1 + b[l] ELSE l
<1>1. \A k : LabelAt(b, p, k) = at[k]
  BY DEF LabelAt
<1>2. at = [i \in Nat |-> IF i = 0 THEN p ELSE Hop(b, at[i - 1])]
  <2> DEFINE d(v, n) == IF v <= Len(b) /\ b[v] \in 1..LabelMax THEN v + 1 + b[v] ELSE v
  <2>1. NatInductiveDefHypothesis(at, p, d)
    BY DEF NatInductiveDefHypothesis
  <2>2. NatInductiveDefConclusion(at, p, d)
    BY <2>1, NatInductiveDef
  <2> QED
    BY <2>2 DEF NatInductiveDefConclusion, Hop
<1> HIDE DEF at
<1>3. at[0] = p
  BY <1>2
<1>4. ASSUME NEW k \in Nat PROVE at[k + 1] = Hop(b, at[k])
  <2>1. k + 1 \in Nat /\ k + 1 # 0 /\ (k + 1) - 1 = k
    OBVIOUS
  <2> QED
    BY <1>2, <2>1
<1> QED
  BY <1>1, <1>3, <1>4

(* A label leads forward. *)
LEMMA HopForward ==
  ASSUME NEW b \in Seq(Cells), NEW l \in Nat
  PROVE  Hop(b, l) \in Nat /\ (Hop(b, l) = l \/ Hop(b, l) >= l + 2)
<1>1. LabelMax \in Nat
  BY Limits
<1>2. CASE l <= Len(b) /\ b[l] \in 1..LabelMax
  <2>1. b[l] \in Nat /\ b[l] >= 1
    BY <1>1, <1>2
  <2> QED
    BY <1>2, <2>1 DEF Hop
<1>3. CASE ~(l <= Len(b) /\ b[l] \in 1..LabelMax)
  BY <1>3 DEF Hop
<1> QED
  BY <1>2, <1>3

(* So the places of the labels do not go back. *)
LEMMA LabelsForward ==
  ASSUME NEW b \in Seq(Cells), NEW p \in Nat
  PROVE  /\ \A k \in Nat : LabelAt(b, p, k) \in Nat /\ p <= LabelAt(b, p, k)
         /\ \A k \in Nat : LabelAt(b, p, k) <= LabelAt(b, p, k + 1)
         /\ \A j, k \in Nat : j <= k => LabelAt(b, p, j) <= LabelAt(b, p, k)
<1> DEFINE at(k) == LabelAt(b, p, k)
<1>1. \A k \in Nat : at(k + 1) = Hop(b, at(k))
  BY LabelSteps
<1>0. at(0) = p
  BY LabelSteps
<1> HIDE DEF at
<1>2. ASSUME NEW n \in Nat PROVE \A k \in 0..n : at(k) \in Nat /\ p <= at(k)
  <2> DEFINE H == {k \in Nat : at(k) \in Nat /\ p <= at(k)}
  <2>1. 0 \in H
    BY <1>0
  <2>2. ASSUME NEW k \in 1..n, k - 1 \in H PROVE k \in H
    <3>1. k - 1 \in Nat /\ (k - 1) + 1 = k /\ k \in Nat
      OBVIOUS
    <3>2. at(k) = Hop(b, at(k - 1)) /\ at(k - 1) \in Nat /\ p <= at(k - 1)
      BY <1>1, <2>2, <3>1
    <3>3. at(k) \in Nat /\ (at(k) = at(k - 1) \/ at(k) >= at(k - 1) + 2)
      BY <3>2, HopForward
    <3>4. p <= at(k)
      BY <3>2, <3>3
    <3> QED
      BY <3>1, <3>3, <3>4
  <2> HIDE DEF H
  <2>3. \A k \in 0..n : k \in H
    BY <2>1, <2>2, UpTo
  <2> QED
    BY <2>3 DEF H
<1>3. \A k \in Nat : at(k) \in Nat /\ p <= at(k)
  BY <1>2
<1>4. ASSUME NEW k \in Nat PROVE at(k) <= at(k + 1)
  <2>1. at(k) \in Nat /\ at(k + 1) = Hop(b, at(k))
    BY <1>1, <1>3
  <2>2. at(k + 1) \in Nat /\ (at(k + 1) = at(k) \/ at(k + 1) >= at(k) + 2)
    BY <2>1, HopForward
  <2> QED
    BY <2>1, <2>2
<1>5. ASSUME NEW j \in Nat, NEW n \in Nat PROVE \A k \in 0..n : at(j) <= at(j + k)
  <2> DEFINE H == {k \in Nat : at(j) <= at(j + k)}
  <2>1. 0 \in H
    BY <1>3
  <2>2. ASSUME NEW k \in 1..n, k - 1 \in H PROVE k \in H
    <3>1. j + (k - 1) \in Nat /\ (j + (k - 1)) + 1 = j + k /\ k \in Nat /\ j + k \in Nat
      OBVIOUS
    <3>2. at(j + (k - 1)) <= at(j + k)
      BY <1>4, <3>1
    <3>3. at(j) <= at(j + (k - 1))
      BY <2>2
    <3> QED
      BY <1>3, <3>1, <3>2, <3>3
  <2> HIDE DEF H
  <2>3. \A k \in 0..n : k \in H
    BY <2>1, <2>2, UpTo
  <2> QED
    BY <2>3 DEF H
<1>6. ASSUME NEW j \in Nat, NEW k \in Nat, j <= k PROVE at(j) <= at(k)
  <2>1. k - j \in 0..(k - j) /\ k - j \in Nat /\ j + (k - j) = k
    BY <1>6
  <2> QED
    BY <1>5, <2>1
<1> QED
  BY <1>3, <1>4, <1>6 DEF at

(* A place that is not left is not left later. *)
LEMMA LabelsSettled ==
  ASSUME NEW b \in Seq(Cells), NEW p \in Nat, NEW j \in Nat,
         Hop(b, LabelAt(b, p, j)) = LabelAt(b, p, j)
  PROVE  \A k \in Nat : j <= k => LabelAt(b, p, k) = LabelAt(b, p, j)
<1> DEFINE at(k) == LabelAt(b, p, k)
<1>1. \A k \in Nat : at(k + 1) = Hop(b, at(k))
  <2>1. ASSUME NEW k \in Nat PROVE LabelAt(b, p, k + 1) = Hop(b, LabelAt(b, p, k))
    BY LabelSteps, ZenonT(30)
  <2> QED
    BY <2>1
<1>0. Hop(b, at(j)) = at(j)
  OBVIOUS
<1> HIDE DEF at
<1>2. ASSUME NEW n \in Nat PROVE \A k \in 0..n : at(j + k) = at(j)
  <2> DEFINE H == {k \in Nat : at(j + k) = at(j)}
  <2>1. 0 \in H
    OBVIOUS
  <2>2. ASSUME NEW k \in 1..n, k - 1 \in H PROVE k \in H
    <3>1. j + (k - 1) \in Nat /\ (j + (k - 1)) + 1 = j + k /\ k \in Nat
      OBVIOUS
    <3> QED
      BY <1>0, <1>1, <2>2, <3>1
  <2> HIDE DEF H
  <2>3. \A k \in 0..n : k \in H
    BY <2>1, <2>2, UpTo
  <2> QED
    BY <2>3 DEF H
<1>3. ASSUME NEW k \in Nat, j <= k PROVE at(k) = at(j)
  <2>1. k - j \in 0..(k - j) /\ k - j \in Nat /\ j + (k - j) = k
    BY <1>3
  <2>2. at(j + (k - j)) = at(j)
    BY <1>2, <2>1
  <2> QED
    BY <2>1, <2>2
<1> QED
  BY <1>3 DEF at

(* After as many labels as there are cells no label is left: the loop ends. *)
LEMMA LabelsEnd ==
  ASSUME NEW b \in Seq(Cells), NEW p \in Nat \ {0}
  PROVE  LET l == LabelAt(b, p, Len(b)) IN Hop(b, l) = l
<1> DEFINE at(k) == LabelAt(b, p, k)
           H == {k \in Nat : Hop(b, at(k)) = at(k) \/ at(k) >= k + 1}
<1>1. at(0) = p /\ \A k \in Nat : at(k + 1) = Hop(b, at(k))
  BY LabelSteps
<1>2. \A k \in Nat : at(k) \in Nat
  BY LabelsForward
<1>3. Len(b) \in Nat
  OBVIOUS
<1> HIDE DEF at
<1>4. 0 \in H
  BY <1>1
<1>5. ASSUME NEW k \in 1..Len(b), k - 1 \in H PROVE k \in H
  <2>1. k - 1 \in Nat /\ (k - 1) + 1 = k /\ k \in Nat
    BY <1>3
  <2>2. at(k) = Hop(b, at(k - 1)) /\ at(k - 1) \in Nat /\ at(k) \in Nat
    BY <1>1, <1>2, <2>1
  <2>3. CASE Hop(b, at(k - 1)) = at(k - 1)
    BY <2>1, <2>2, <2>3
  <2>4. CASE Hop(b, at(k - 1)) # at(k - 1)
    <3>1. at(k - 1) >= k /\ at(k) >= at(k - 1) + 2
      BY <1>5, <2>1, <2>2, <2>4, HopForward
    <3> QED
      BY <2>1, <2>2, <3>1
  <2> QED
    BY <2>3, <2>4
<1> HIDE DEF H
<1>6. Len(b) \in H
  <2>1. \A k \in 0..Len(b) : k \in H
    BY <1>3, <1>4, <1>5, UpTo
  <2> QED
    BY <1>3, <2>1
<1>7. ASSUME at(Len(b)) >= Len(b) + 1 PROVE Hop(b, at(Len(b))) = at(Len(b))
  BY <1>2, <1>3, <1>7 DEF Hop
<1> QED
  BY <1>6, <1>7 DEF H, at

(* The end of a name: behind its last label, which is behind its begin. *)
LEMMA NameEndSpan ==
  ASSUME NEW b \in Seq(Cells), NEW p \in Nat \ {0}
  PROVE  LET l == LabelAt(b, p, Len(b))
             e == NameEnd(b, p)
         IN /\ l \in Nat /\ e \in Nat /\ p <= l /\ Hop(b, l) = l
            /\ l > Len(b) => e = l
            /\ l <= Len(b) => /\ b[l] \in Nat /\ b[l] \notin 1..LabelMax
                              /\ \/ e = l + 1 /\ b[l] = 0
                                 \/ e = l + 2 /\ b[l] # 0 /\ b[l] >= PtrMin
                                 \/ e = 0 /\ b[l] # 0 /\ ~(b[l] >= PtrMin)
<1> DEFINE l == LabelAt(b, p, Len(b))
<1>1. l \in Nat /\ p <= l
  <2>1. Len(b) \in Nat
    OBVIOUS
  <2> QED
    BY <2>1, LabelsForward
<1>2. Hop(b, l) = l
  BY LabelsEnd
<1>3. /\ NameEnd(b, p) = IF l > Len(b) THEN l ELSE IF b[l] = 0 THEN l + 1
                         ELSE IF b[l] >= PtrMin THEN l + 2 ELSE 0
  BY DEF NameEnd, LabelsEndAt
<1> HIDE DEF l
<1>4. ASSUME l <= Len(b) PROVE b[l] \in Nat /\ b[l] \notin 1..LabelMax
  <2>1. l \in 1..Len(b) /\ b[l] \in Cells
    BY <1>1, <1>4
  <2>2. b[l] \in Nat
    BY <2>1, Limits
  <2>3. ASSUME b[l] \in 1..LabelMax PROVE FALSE
    <3>1. b[l] >= 1 /\ Hop(b, l) = l + 1 + b[l]
      BY <1>4, <2>2, <2>3, Limits DEF Hop
    <3> QED
      BY <1>1, <1>2, <2>2, <3>1
  <2> QED
    BY <2>2, <2>3
<1>5. l > Len(b) \/ l <= Len(b)
  BY <1>1
<1> QED
  BY <1>1, <1>2, <1>3, <1>4, <1>5 DEF l

(* skip_name ends behind its begin, with a whole record ahead. *)
LEMMA SkipNameSpan ==
  ASSUME NEW b \in Seq(Cells), NEW p \in Nat \ {0}
  PROVE  LET r == skip_name(b, p)
         IN /\ r \in Nat
            /\ r # 0 => p < r /\ r + RecordLen - 1 <= Len(b) /\ r = NameEnd(b, p)
<1> DEFINE l == LabelAt(b, p, Len(b))
           e == NameEnd(b, p)
<1>1. /\ l \in Nat /\ e \in Nat /\ p <= l
      /\ l > Len(b) => e = l
      /\ l <= Len(b) => e = l + 1 \/ e = l + 2 \/ e = 0
  BY NameEndSpan
<1>2. skip_name(b, p) = IF e + RecordLen - 1 > Len(b) THEN 0 ELSE e
  BY DEF skip_name
<1>3. Len(b) \in Nat /\ RecordLen = 4
  BY DEF RecordLen
<1> HIDE DEF l, e
<1>4. CASE e + RecordLen - 1 > Len(b)
  BY <1>1, <1>2, <1>4
<1>5. CASE ~(e + RecordLen - 1 > Len(b))
  <2>1. skip_name(b, p) = e /\ e + 3 <= Len(b)
    BY <1>1, <1>2, <1>3, <1>5
  <2>2. e # 0 => p < e
    BY <1>1, <1>3, <2>1
  <2> QED
    BY <1>1, <1>3, <2>1, <2>2 DEF e
<1> QED
  BY <1>4, <1>5

(* The end of a name depends on the cells before it only. *)
LEMMA NameEndSame ==
  ASSUME NEW b \in Seq(Cells), NEW c \in Seq(Cells), NEW p \in Nat \ {0},
         NameEnd(b, p) # 0, NameEnd(b, p) <= Len(b) + 1, NameEnd(b, p) <= Len(c) + 1,
         LabelAt(b, p, Len(b)) <= Len(b),
         \A i \in p..(NameEnd(b, p) - 1) : c[i] = b[i]
  PROVE  NameEnd(c, p) = NameEnd(b, p)
<1> DEFINE e == NameEnd(b, p)
           l == LabelAt(b, p, Len(b))
           at(k) == LabelAt(b, p, k)
           ct(k) == LabelAt(c, p, k)
           lc == LabelAt(c, p, Len(c))
<1>1. /\ l \in Nat /\ e \in Nat /\ p <= l /\ Hop(b, l) = l /\ l <= Len(b)
      /\ b[l] \in Nat /\ b[l] \notin 1..LabelMax
      /\ \/ e = l + 1 /\ b[l] = 0
         \/ e = l + 2 /\ b[l] # 0 /\ b[l] >= PtrMin
  BY NameEndSpan
<1>2. /\ lc \in Nat /\ p <= lc /\ Hop(c, lc) = lc
  BY NameEndSpan
<1>3. /\ \A k \in Nat : at(k) \in Nat /\ p <= at(k)
      /\ \A j, k \in Nat : j <= k => at(j) <= at(k)
  BY LabelsForward
<1>4. at(0) = p /\ ct(0) = p
  BY LabelSteps
<1>5. \A k \in Nat : at(k + 1) = Hop(b, at(k)) /\ ct(k + 1) = Hop(c, ct(k))
  <2>1. ASSUME NEW k \in Nat PROVE LabelAt(b, p, k + 1) = Hop(b, LabelAt(b, p, k))
    BY LabelSteps
  <2>2. ASSUME NEW k \in Nat PROVE LabelAt(c, p, k + 1) = Hop(c, LabelAt(c, p, k))
    BY LabelSteps
  <2> QED
    BY <2>1, <2>2
<1>6. \A k \in Nat : Len(b) <= k => at(k) = l
  BY <1>1, LabelsSettled
<1>7. Len(b) \in Nat /\ Len(c) \in Nat /\ e <= Len(c) + 1 /\ at(Len(b)) = l /\ ct(Len(c)) = lc
  OBVIOUS
<1>8. \A i \in p..(e - 1) : c[i] = b[i]
  OBVIOUS
<1>9. NameEnd(c, p) = IF lc > Len(c) THEN lc ELSE IF c[lc] = 0 THEN lc + 1
                      ELSE IF c[lc] >= PtrMin THEN lc + 2 ELSE 0
  BY DEF NameEnd, LabelsEndAt
<1> HIDE DEF at, ct, l, lc, e
<1>10. ASSUME NEW k \in Nat PROVE at(k) <= l
  <2>1. CASE k <= Len(b)
    BY <1>3, <1>7, <2>1
  <2>2. CASE Len(b) <= k
    BY <1>1, <1>6, <2>2
  <2> QED
    BY <1>7, <2>1, <2>2
<1>11. ASSUME NEW i \in p..l PROVE i \in Nat /\ i <= Len(b) /\ i <= Len(c) /\ c[i] = b[i]
  <2>1. i \in Nat /\ i <= e - 1 /\ i <= Len(b) /\ i <= Len(c) /\ i \in p..(e - 1)
    BY <1>1, <1>7
  <2> QED
    BY <1>8, <2>1
<1>12. ASSUME NEW i \in p..l PROVE Hop(c, i) = Hop(b, i)
  BY <1>11 DEF Hop
<1>13. ASSUME NEW n \in Nat PROVE \A k \in 0..n : ct(k) = at(k)
  <2> DEFINE H == {k \in Nat : ct(k) = at(k)}
  <2>1. 0 \in H
    BY <1>4
  <2>2. ASSUME NEW k \in 1..n, k - 1 \in H PROVE k \in H
    <3>1. k - 1 \in Nat /\ (k - 1) + 1 = k /\ k \in Nat /\ ct(k - 1) = at(k - 1)
      BY <2>2
    <3>2. at(k) = Hop(b, at(k - 1)) /\ ct(k) = Hop(c, at(k - 1))
      BY <1>5, <3>1
    <3>3. at(k - 1) \in p..l
      BY <1>1, <1>3, <1>10, <3>1
    <3>4. ct(k) = at(k)
      BY <1>12, <3>2, <3>3
    <3> QED
      BY <3>1, <3>4
  <2> HIDE DEF H
  <2>3. \A k \in 0..n : k \in H
    BY <2>1, <2>2, UpTo
  <2> QED
    BY <2>3 DEF H
<1>14. lc = at(Len(c))
  BY <1>7, <1>13
<1>15. lc \in p..l
  BY <1>1, <1>2, <1>3, <1>7, <1>10, <1>14
<1>16. Hop(b, at(Len(c))) = at(Len(c))
  BY <1>2, <1>12, <1>14, <1>15
<1>17. l = lc
  <2>1. \A k \in Nat : Len(c) <= k => at(k) = at(Len(c))
    BY <1>7, <1>16, LabelsSettled DEF at
  <2>2. CASE Len(c) <= Len(b)
    BY <1>7, <1>14, <2>1, <2>2
  <2>3. CASE Len(b) <= Len(c)
    BY <1>6, <1>7, <1>14, <2>3
  <2> QED
    BY <1>7, <2>2, <2>3
<1>18. l <= Len(c) /\ c[l] = b[l]
  BY <1>1, <1>11
<1>19. NameEnd(c, p) = IF b[l] = 0 THEN l + 1 ELSE IF b[l] >= PtrMin THEN l + 2 ELSE 0
  BY <1>1, <1>7, <1>9, <1>17, <1>18
<1>20. NameEnd(c, p) = e
  BY <1>1, <1>19
<1> QED
  BY <1>20 DEF e

-----------------------------------------------------------------------------
(* The walk over the records *)

\* the fields of a walk
IsWalk(w) ==
  /\ DOMAIN w = {"b", "at", "far", "ok", "stop", "ud"}
  /\ w.b \in Seq(Cells) /\ w.at \in Nat \ {0} /\ w.far \in Nat
  /\ w.ok \in BOOLEAN /\ w.stop \in BOOLEAN
  /\ w.at <= Len(w.b) + 1 /\ w.far <= Len(w.b)

(* Going past a record: what is touched is there. *)
LEMMA PassInside ==
  ASSUME NEW w, IsWalk(w)
  PROVE  LET v == Pass(w)
             r == skip_name(w.b, w.at)
         IN /\ IsWalk(v) /\ v.b = w.b /\ v.ud = w.ud /\ v.stop = w.stop
            /\ w.at <= v.at
            /\ v.ok => /\ r # 0 /\ w.at < r /\ r + 3 <= Len(w.b)
                       /\ w.b[r + 3] \in Nat /\ v.at = r + 4 + w.b[r + 3]
            /\ ~v.ok => v.at = w.at
            /\ v.ok <=> r # 0 /\ r + 3 + w.b[r + 3] <= Len(w.b)
<1> DEFINE r == skip_name(w.b, w.at)
           next == r + RecordLen + Cell(w.b, r + 3)
<1>0. /\ DOMAIN w = {"b", "at", "far", "ok", "stop", "ud"}
      /\ w.b \in Seq(Cells) /\ w.at \in Nat \ {0} /\ w.far \in Nat
      /\ w.ok \in BOOLEAN /\ w.stop \in BOOLEAN
      /\ w.at <= Len(w.b) + 1 /\ w.far <= Len(w.b) /\ Len(w.b) \in Nat
  BY DEF IsWalk
<1>1. r \in Nat /\ (r # 0 => w.at < r /\ r + 3 <= Len(w.b))
  BY <1>0, SkipNameSpan DEF RecordLen
<1>2. Pass(w) = IF r = 0 THEN [w EXCEPT !.ok = FALSE]
                ELSE [w EXCEPT !.far = Larger(@, r + RecordLen - 1), !.ok = next - 1 <= Len(w.b),
                               !.at = IF next - 1 <= Len(w.b) THEN next ELSE @]
  BY DEF Pass, PassRecord
<1>3. CASE r = 0
  BY <1>0, <1>2, <1>3 DEF IsWalk
<1>4. CASE r # 0
  <2>1. w.b[r + 3] \in Nat /\ Cell(w.b, r + 3) = w.b[r + 3]
    <3>1. r + 3 \in DOMAIN w.b /\ w.b[r + 3] \in Cells
      BY <1>0, <1>1, <1>4
    <3> QED
      BY <3>1, Limits DEF Cell
  <2>2. next = r + 4 + w.b[r + 3] /\ next \in Nat
    BY <1>1, <2>1 DEF RecordLen
  <2>3. Larger(w.far, r + RecordLen - 1) \in Nat /\ Larger(w.far, r + RecordLen - 1) <= Len(w.b)
    BY <1>0, <1>1, <1>4 DEF Larger, RecordLen
  <2> HIDE DEF next, r
  <2>4. CASE next - 1 <= Len(w.b)
    <3>1. Pass(w) = [w EXCEPT !.far = Larger(@, r + RecordLen - 1), !.ok = TRUE, !.at = next]
      BY <1>2, <1>4, <2>4
    <3> QED
      BY <1>0, <1>1, <1>4, <2>1, <2>2, <2>3, <2>4, <3>1 DEF IsWalk, r
  <2>5. CASE ~(next - 1 <= Len(w.b))
    <3>1. Pass(w) = [w EXCEPT !.far = Larger(@, r + RecordLen - 1), !.ok = FALSE]
      <4>1. [w EXCEPT !.far = Larger(@, r + RecordLen - 1), !.ok = FALSE, !.at = w.at]
              = [w EXCEPT !.far = Larger(@, r + RecordLen - 1), !.ok = FALSE]
        BY <1>0
      <4>2. (next - 1 <= Len(w.b)) = FALSE
        BY <2>5
      <4> QED
        BY <1>2, <1>4, <4>1, <4>2
    <3> QED
      BY <1>0, <1>1, <1>4, <2>1, <2>2, <2>3, <2>5, <3>1 DEF IsWalk, r
  <2> QED
    BY <2>4, <2>5
<1> QED
  BY <1>3, <1>4

(* A cell read as a signed number, and a number written into a cell. *)
LEMMA CellValues ==
  /\ \A x \in Int : Unsigned(x) \in Cells
  /\ \A c \in Cells : /\ Signed(c) \in Int
                      /\ Signed(c) < 2 ^ (Bits - 1) /\ -(2 ^ (Bits - 1)) <= Signed(c)
  /\ \A c \in Cells : Larger(Signed(c), 1) \in Cells
<1>1. PICK h \in Nat : h = 2 ^ (Bits - 1) /\ h >= 4
  BY Limits
<1>2. 2 ^ Bits = 2 * h
  BY <1>1, Limits
<1>3. Cells = 0..(2 * h - 1)
  BY <1>2 DEF Cells
<1>4. ASSUME NEW x \in Int PROVE Unsigned(x) \in Cells
  <2>1. PICK d \in Nat : d = 2 * h
    BY <1>1
  <2>2. d > 0
    BY <1>1, <2>1
  <2>3. x % d \in 0..(d - 1)
    BY <2>2
  <2> QED
    BY <1>2, <1>3, <2>1, <2>3 DEF Unsigned
<1>5. ASSUME NEW c \in Cells
      PROVE  /\ Signed(c) \in Int /\ Signed(c) < 2 ^ (Bits - 1) /\ -(2 ^ (Bits - 1)) <= Signed(c)
             /\ Larger(Signed(c), 1) \in Cells
  <2>1. c \in Int /\ 0 <= c /\ c < 2 * h
    BY <1>1, <1>3
  <2>2. Signed(c) = IF c >= h THEN c - 2 * h ELSE c
    BY <1>1, <1>2 DEF Signed
  <2>3. Signed(c) \in Int /\ Signed(c) < h /\ -h <= Signed(c)
    BY <2>1, <2>2
  <2>4. Larger(Signed(c), 1) \in Int /\ 0 <= Larger(Signed(c), 1) /\ Larger(Signed(c), 1) < h
    BY <1>1, <2>3 DEF Larger
  <2> QED
    BY <1>1, <1>3, <2>3, <2>4
<1> QED
  BY <1>4, <1>5

Callbacks == {"skip", "test_ip", "add_ip", "get_bufsz", "get_ttl", "update_ttl"}

GetTtlUd == [min : Int, max : Int, nodata : BOOLEAN, ttl : Int]

\* what a callback expects of ud
UdOk(f, ud) ==
  /\ f = "get_ttl" => ud \in GetTtlUd
  /\ f = "update_ttl" => ud \in Int

\* v is the walk w after its callback has seen the record at r
Seen(f, w, r, v) ==
  /\ IsWalk(v) /\ v.at = w.at /\ Len(v.b) = Len(w.b) /\ UdOk(f, v.ud)
  /\ \A i \in DOMAIN w.b : i # r + 2 => v.b[i] = w.b[i]

(* Writing a cell of the walk. *)
LEMMA WriteCell ==
  ASSUME NEW w, IsWalk(w), NEW k \in 1..Len(w.b), NEW x \in Cells
  PROVE  LET v == [w EXCEPT !.b[k] = x]
         IN /\ IsWalk(v) /\ v.at = w.at /\ v.ok = w.ok /\ v.stop = w.stop /\ v.ud = w.ud
            /\ Len(v.b) = Len(w.b) /\ v.b[k] = x /\ v.far = w.far
            /\ \A i \in DOMAIN w.b : i # k => v.b[i] = w.b[i]
<1> DEFINE c == [w.b EXCEPT ![k] = x]
           v == [w EXCEPT !.b = c]
<1>0. /\ DOMAIN w = {"b", "at", "far", "ok", "stop", "ud"}
      /\ w.b \in Seq(Cells) /\ w.at \in Nat \ {0} /\ w.far \in Nat
      /\ w.ok \in BOOLEAN /\ w.stop \in BOOLEAN
      /\ w.at <= Len(w.b) + 1 /\ w.far <= Len(w.b) /\ Len(w.b) \in Nat
  BY DEF IsWalk
<1>1. /\ c \in Seq(Cells) /\ Len(c) = Len(w.b) /\ DOMAIN c = DOMAIN w.b
      /\ c[k] = x /\ \A i \in DOMAIN w.b : i # k => c[i] = w.b[i]
  BY <1>0, ExceptSeq
<1>2. [w EXCEPT !.b[k] = x] = v
  OBVIOUS
<1> HIDE DEF c
<1>3. /\ v.b = c /\ v.at = w.at /\ v.far = w.far /\ v.ok = w.ok /\ v.stop = w.stop
      /\ v.ud = w.ud /\ DOMAIN v = DOMAIN w
  BY <1>0
<1> HIDE DEF v
<1>4. IsWalk(v)
  BY <1>0, <1>1, <1>3 DEF IsWalk
<1> QED
  BY <1>1, <1>2, <1>3, <1>4

(* No callback leaves the record. *)
LEMMA CallbackInside ==
  ASSUME NEW f \in Callbacks, NEW w, IsWalk(w), w.ok, UdOk(f, w.ud),
         NEW r \in Nat \ {0}, r + 3 < w.at
  PROVE  Seen(f, w, r, Callback(f, w, r))
<1>0. /\ DOMAIN w = {"b", "at", "far", "ok", "stop", "ud"}
      /\ w.b \in Seq(Cells) /\ w.at \in Nat \ {0} /\ w.far \in Nat
      /\ w.ok \in BOOLEAN /\ w.stop \in BOOLEAN
      /\ w.at <= Len(w.b) + 1 /\ w.far <= Len(w.b) /\ Len(w.b) \in Nat
  BY DEF IsWalk
<1>1. r + 2 \in 1..Len(w.b) /\ w.at - 1 \in Nat /\ w.at - 1 <= Len(w.b)
  BY <1>0
<1>2. Seen(f, w, r, w)
  BY DEF Seen
<1>3. CASE f = "skip"
  BY <1>2, <1>3 DEF Callback
<1>4. CASE f = "test_ip"
  <2>1. Callback(f, w, r) = test_ip(w, r)
    BY <1>4 DEF Callback
  <2>3. \A x : Seen(f, w, r, [w EXCEPT !.stop = TRUE, !.far = w.at - 1, !.ud = x])
    BY <1>0, <1>1, <1>4 DEF Seen, IsWalk, UdOk
  <2>4. Seen(f, w, r, [w EXCEPT !.ok = FALSE])
    BY <1>0, <1>1, <1>4 DEF Seen, IsWalk, UdOk
  <2> QED
    BY <1>2, <2>1, <2>3, <2>4 DEF test_ip
<1>5. CASE f = "add_ip"
  <2>1. Callback(f, w, r) = add_ip(w, r)
    BY <1>5 DEF Callback
  <2>2. \A x : Seen(f, w, r, [w EXCEPT !.far = w.at - 1, !.ud = x])
    BY <1>0, <1>1, <1>5 DEF Seen, IsWalk, UdOk
  <2>3. Seen(f, w, r, [w EXCEPT !.ok = FALSE])
    BY <1>0, <1>1, <1>5 DEF Seen, IsWalk, UdOk
  <2>4. Seen(f, w, r, [w EXCEPT !.far = w.at - 1, !.ud = Append(@, Rdata(w, r))])
    BY <2>2
  <2> QED
    BY <1>2, <2>1, <2>3, <2>4 DEF add_ip
<1>6. CASE f = "get_bufsz"
  <2>1. Callback(f, w, r) = get_bufsz(w, r)
    BY <1>6 DEF Callback
  <2>2. \A x : Seen(f, w, r, [w EXCEPT !.stop = TRUE, !.ud = x])
    BY <1>0, <1>1, <1>6 DEF Seen, IsWalk, UdOk
  <2> QED
    BY <1>2, <2>1, <2>2 DEF get_bufsz
<1>7. CASE f = "get_ttl"
  <2>1. Callback(f, w, r) = get_ttl(w, r)
    BY <1>7 DEF Callback
  <2> DEFINE ttl == Bounded(Signed(w.b[r + 2]), w.ud.min, w.ud.max)
             v == [w EXCEPT !.b[r + 2] = Unsigned(ttl)]
             least == IF w.ud.nodata \/ ttl < w.ud.ttl THEN ttl ELSE w.ud.ttl
             u == [w.ud EXCEPT !.nodata = FALSE, !.ttl = least]
  <2>2. w.ud \in GetTtlUd
    BY <1>7 DEF UdOk
  <2>3. ttl \in Int
    <3>1. w.b[r + 2] \in Cells
      BY <1>0, <1>1
    <3>2. Signed(w.b[r + 2]) \in Int
      BY <3>1, CellValues
    <3> QED
      BY <2>2, <3>2 DEF Larger, Bounded, GetTtlUd
  <2>4. Unsigned(ttl) \in Cells
    BY <2>3, CellValues
  <2> HIDE DEF ttl
  <2>5. get_ttl(w, r) = IF rtype(w, r) = OPT THEN w ELSE [v EXCEPT !.ud = u]
    <3>1. [w EXCEPT !.b[r + 2] = Unsigned(ttl), !.ud.nodata = FALSE, !.ud.ttl = least]
            = [v EXCEPT !.ud = u]
      BY <1>0, <2>2 DEF GetTtlUd
    <3> QED
      BY <3>1 DEF get_ttl, ttl
  <2>6. u \in GetTtlUd
    BY <2>2, <2>3 DEF GetTtlUd
  <2>7. /\ IsWalk(v) /\ v.at = w.at /\ Len(v.b) = Len(w.b)
        /\ \A i \in DOMAIN w.b : i # r + 2 => v.b[i] = w.b[i]
    BY <1>1, <2>4, WriteCell
  <2> HIDE DEF v, u
  <2>8. Seen(f, w, r, [v EXCEPT !.ud = u])
    BY <1>7, <2>6, <2>7 DEF Seen, IsWalk, UdOk
  <2> QED
    BY <1>2, <2>1, <2>5, <2>8
<1>8. CASE f = "update_ttl"
  <2>1. Callback(f, w, r) = update_ttl(w, r)
    BY <1>8 DEF Callback
  <2> DEFINE x == Larger(Signed(Unsigned(Signed(w.b[r + 2]) + w.ud)), 1)
             v == [w EXCEPT !.b[r + 2] = x]
  <2>2. x \in Cells
    <3>1. w.b[r + 2] \in Cells
      BY <1>0, <1>1
    <3>2. Signed(w.b[r + 2]) \in Int /\ w.ud \in Int
      BY <1>8, <3>1, CellValues DEF UdOk
    <3>3. Signed(w.b[r + 2]) + w.ud \in Int
      BY <3>2
    <3> QED
      BY <3>3, CellValues
  <2>3. update_ttl(w, r) = IF rtype(w, r) = OPT THEN w ELSE v
    BY <1>0, <1>1 DEF update_ttl
  <2> HIDE DEF x
  <2>4. /\ IsWalk(v) /\ v.at = w.at /\ Len(v.b) = Len(w.b) /\ v.ud = w.ud
        /\ \A i \in DOMAIN w.b : i # r + 2 => v.b[i] = w.b[i]
    BY <1>1, <2>2, WriteCell
  <2> HIDE DEF v
  <2>5. Seen(f, w, r, v)
    BY <2>4 DEF Seen
  <2> QED
    BY <1>2, <2>1, <2>3, <2>5
<1> QED
  BY <1>3, <1>4, <1>5, <1>6, <1>7, <1>8 DEF Callbacks

(* The recursion of foreach_record. *)
LEMMA WalkSteps ==
  ASSUME NEW b, NEW p, NEW f, NEW ud
  PROVE  /\ foreach_record(b, p, 0, f, ud) = Walk(b, p, ud)
         /\ \A i \in Nat : foreach_record(b, p, i + 1, f, ud)
                             = Visit(f, foreach_record(b, p, i, f, ud))
<1> DEFINE walk[i \in Nat] == IF i = 0 THEN Walk(b, p, ud) ELSE Visit(f, walk[i - 1])
<1>1. \A k : foreach_record(b, p, k, f, ud) = walk[k]
  BY DEF foreach_record
<1>2. walk = [i \in Nat |-> IF i = 0 THEN Walk(b, p, ud) ELSE Visit(f, walk[i - 1])]
  <2> DEFINE d(v, n) == Visit(f, v)
             v0 == Walk(b, p, ud)
  <2>1. NatInductiveDefHypothesis(walk, v0, d)
    BY DEF NatInductiveDefHypothesis
  <2>2. NatInductiveDefConclusion(walk, v0, d)
    BY <2>1, NatInductiveDef
  <2> QED
    BY <2>2 DEF NatInductiveDefConclusion
<1> HIDE DEF walk
<1>3. walk[0] = Walk(b, p, ud)
  BY <1>2
<1>4. ASSUME NEW k \in Nat PROVE walk[k + 1] = Visit(f, walk[k])
  <2>1. k + 1 \in Nat /\ k + 1 # 0 /\ (k + 1) - 1 = k
    OBVIOUS
  <2> QED
    BY <1>2, <2>1
<1> QED
  BY <1>1, <1>3, <1>4

(* ... and its next step. *)
LEMMA WalkStep ==
  ASSUME NEW b, NEW p, NEW f, NEW ud, NEW i \in Nat
  PROVE  foreach_record(b, p, i + 1, f, ud) = Visit(f, foreach_record(b, p, i, f, ud))
BY WalkSteps

\* w is a walk over what was b, from p
WalkFrom(f, b, p, w) ==
  /\ IsWalk(w) /\ Len(w.b) = Len(b) /\ UdOk(f, w.ud) /\ p <= w.at
  /\ \A i \in DOMAIN b : i < p => w.b[i] = b[i]

(* A step of the walk changes nothing before the record it comes to. *)
LEMMA VisitInside ==
  ASSUME NEW f \in Callbacks, NEW w, IsWalk(w), UdOk(f, w.ud)
  PROVE  LET v == Visit(f, w)
         IN /\ IsWalk(v) /\ Len(v.b) = Len(w.b) /\ UdOk(f, v.ud) /\ w.at <= v.at
            /\ \A i \in DOMAIN w.b : i < w.at => v.b[i] = w.b[i]
<1> DEFINE u == Pass(w)
           r == skip_name(w.b, w.at)
<1>0. w.b \in Seq(Cells) /\ w.at \in Nat \ {0} /\ Len(w.b) \in Nat
  BY DEF IsWalk
<1>1. /\ IsWalk(u) /\ u.b = w.b /\ u.ud = w.ud /\ u.stop = w.stop /\ w.at <= u.at
      /\ u.ok => /\ r # 0 /\ w.at < r /\ r + 3 <= Len(w.b)
                 /\ w.b[r + 3] \in Nat /\ u.at = r + 4 + w.b[r + 3]
  BY PassInside
<1>2. r \in Nat /\ u.at \in Nat
  BY <1>0, <1>1, SkipNameSpan DEF IsWalk
<1> HIDE DEF u, r
<1>3. CASE ~w.ok \/ w.stop
  BY <1>0, <1>3 DEF Visit
<1>4. CASE ~(~w.ok \/ w.stop) /\ ~u.ok
  <2>1. Visit(f, w) = u
    BY <1>4 DEF Visit, u
  <2> QED
    BY <1>1, <2>1
<1>5. CASE ~(~w.ok \/ w.stop) /\ u.ok
  <2>1. Visit(f, w) = Callback(f, u, r)
    BY <1>5 DEF Visit, u, r
  <2>2. r \in Nat \ {0} /\ r + 3 < u.at
    BY <1>1, <1>2, <1>5
  <2>3. Seen(f, u, r, Callback(f, u, r))
    BY <1>1, <1>5, <2>2, CallbackInside
  <2>4. \A i \in DOMAIN w.b : i < w.at => i # r + 2
    BY <1>0, <1>1, <1>2, <1>5
  <2> QED
    BY <1>1, <2>1, <2>3, <2>4 DEF Seen
<1> QED
  BY <1>3, <1>4, <1>5

(* A walk stays inside the message. *)
LEMMA WalkInside ==
  ASSUME NEW f \in Callbacks, NEW b \in Seq(Cells), NEW p \in Nat \ {0}, p <= Len(b) + 1,
         NEW ud, UdOk(f, ud)
  PROVE  \A n \in Nat : WalkFrom(f, b, p, foreach_record(b, p, n, f, ud))
<1> DEFINE W(i) == foreach_record(b, p, i, f, ud)
<1>1. W(0) = Walk(b, p, ud)
  BY WalkSteps
<1>2. \A i \in Nat : W(i + 1) = Visit(f, W(i))
  BY WalkStep DEF W
<1> HIDE DEF W
<1>3. ASSUME NEW n \in Nat PROVE \A i \in 0..n : WalkFrom(f, b, p, W(i))
  <2> DEFINE H == {i \in Nat : WalkFrom(f, b, p, W(i))}
  <2>1. 0 \in H
    <3>1. WalkFrom(f, b, p, Walk(b, p, ud))
      BY DEF Walk, WalkFrom, IsWalk
    <3> QED
      BY <1>1, <3>1
  <2>2. ASSUME NEW k \in 1..n, k - 1 \in H PROVE k \in H
    <3>1. k - 1 \in Nat /\ (k - 1) + 1 = k /\ k \in Nat /\ WalkFrom(f, b, p, W(k - 1))
      BY <2>2
    <3>2. PICK w : w = W(k - 1)
      OBVIOUS
    <3>3. W(k) = Visit(f, w)
      BY <1>2, <3>1, <3>2
    <3>4. /\ IsWalk(w) /\ Len(w.b) = Len(b) /\ UdOk(f, w.ud) /\ p <= w.at
          /\ \A i \in DOMAIN b : i < p => w.b[i] = b[i]
      BY <3>1, <3>2 DEF WalkFrom
    <3>5. PICK v : v = Visit(f, w)
      OBVIOUS
    <3>6. /\ IsWalk(v) /\ Len(v.b) = Len(w.b) /\ UdOk(f, v.ud) /\ w.at <= v.at
          /\ \A i \in DOMAIN w.b : i < w.at => v.b[i] = w.b[i]
      BY <3>4, <3>5, VisitInside
    <3>7. w.at \in Nat /\ v.at \in Nat /\ DOMAIN w.b = DOMAIN b
      BY <3>4, <3>6 DEF IsWalk
    <3>8. p <= v.at /\ \A i \in DOMAIN b : i < p => v.b[i] = b[i]
      BY <3>4, <3>6, <3>7
    <3>9. WalkFrom(f, b, p, v)
      BY <3>4, <3>6, <3>8 DEF WalkFrom
    <3> QED
      BY <3>1, <3>3, <3>5, <3>9
  <2> HIDE DEF H
  <2>3. \A i \in 0..n : i \in H
    BY <2>1, <2>2, UpTo
  <2> QED
    BY <2>3 DEF H
<1>4. \A n \in Nat : WalkFrom(f, b, p, W(n))
  BY <1>3
<1> QED
  BY <1>4 DEF W

-----------------------------------------------------------------------------
(* The queried name *)

(* memchr: the first null cell. *)
LEMMA QnameLenIs ==
  ASSUME NEW b \in Seq(Cells)
  PROVE  LET n == QnameLen(b)
         IN /\ n \in Nat /\ n <= Len(b)
            /\ n # 0 => b[n] = 0 /\ \A i \in 1..(n - 1) : b[i] # 0
            /\ \A k \in 1..Len(b) : (b[k] = 0 /\ \A i \in 1..(k - 1) : b[i] # 0) => n = k
<1> DEFINE Z == {k \in 1..Len(b) : b[k] = 0}
<1>1. Z \in SUBSET Nat
  OBVIOUS
<1>2. CASE Z = {}
  <2>1. 0 \notin ToSet(b)
    BY <1>2 DEF ToSet
  <2> QED
    BY <1>2, <2>1 DEF QnameLen
<1>3. CASE Z # {}
  <2>1. PICK k \in Z : \A y \in Z : k <= y
    BY <1>1, <1>3, Least
  <2>2. k \in DOMAIN b /\ b[k] = 0 /\ \A i \in 1..(k - 1) : b[i] # 0
    <3>1. ASSUME NEW i \in 1..(k - 1), b[i] = 0 PROVE FALSE
      <4>1. i \in 1..Len(b) /\ ~(k <= i)
        OBVIOUS
      <4> QED
        BY <2>1, <3>1, <4>1
    <3> QED
      BY <3>1
  <2>3. 0 \in ToSet(b)
    BY <2>2 DEF ToSet
  <2> DEFINE n == CHOOSE j \in DOMAIN b : b[j] = 0 /\ \A i \in 1..(j - 1) : b[i] # 0
  <2>4. QnameLen(b) = n
    BY <2>3 DEF QnameLen
  <2>5. n \in DOMAIN b /\ b[n] = 0 /\ \A i \in 1..(n - 1) : b[i] # 0
    BY <2>2
  <2> HIDE DEF n
  <2>6. ASSUME NEW j \in 1..Len(b), b[j] = 0, \A i \in 1..(j - 1) : b[i] # 0 PROVE n = j
    <3>1. ~(n < j) /\ ~(j < n)
      BY <2>5, <2>6
    <3> QED
      BY <2>5, <3>1
  <2> QED
    BY <2>4, <2>5, <2>6
<1> QED
  BY <1>2, <1>3

\* b has a question with a name of n cells
Asks(b, n) == b \in Seq(Cells) /\ n \in 1..WireMax /\ n + QuestionLen <= Len(b) /\ QnameLen(b) = n

(* The cells of the name decide. *)
LEMMA AsksSame ==
  ASSUME NEW b, NEW n, Asks(b, n), NEW c \in Seq(Cells), n + QuestionLen <= Len(c),
         \A i \in 1..n : c[i] = b[i]
  PROVE  Asks(c, n)
<1>1. n \in Nat /\ n >= 1 /\ b \in Seq(Cells) /\ QnameLen(b) = n /\ n \in 1..WireMax
  BY WireAssumption DEF Asks
<1>2. b[n] = 0 /\ \A i \in 1..(n - 1) : b[i] # 0
  BY <1>1, QnameLenIs
<1>3. n \in 1..Len(c) /\ c[n] = 0 /\ \A i \in 1..(n - 1) : c[i] # 0
  BY <1>1, <1>2 DEF QuestionLen
<1>4. QnameLen(c) = n
  BY <1>3, QnameLenIs
<1> QED
  BY <1>1, <1>4 DEF Asks

(* What check_msg accepts has a question. *)
LEMMA CheckedAsks ==
  ASSUME NEW h \in Message, NEW qr, NEW decode, check_msg(h, qr, decode)
  PROVE  Asks(h.body, QnameLen(h.body)) /\ h.qd = 1 /\ h.qr = qr
<1>1. h.body \in Seq(Cells) /\ Len(h.body) \in Nat
  BY DEF Message
<1>2. QnameLen(h.body) \in Nat /\ QnameLen(h.body) <= Len(h.body)
  BY <1>1, QnameLenIs
<1>3. /\ h.qr = qr /\ h.qd = 1 /\ QnameLen(h.body) \in 1..WireMax
      /\ Len(h.body) - QnameLen(h.body) >= QuestionLen
  BY DEF check_msg
<1> QED
  BY <1>1, <1>2, <1>3 DEF Asks, QuestionLen

-----------------------------------------------------------------------------
(* Every operation stays inside the message *)

Parsed == {"reply", "query", "cached", "uncached", "answer"}

(* The message keeps its shape and, once it is checked, its question. *)
MsgInv ==
  /\ pc \in Parsed \cup {"received", "bad", "dropped"}
  /\ m \in Message /\ bounds \in [min : Ttls, max : Ttls]
  /\ pc \in Parsed => Asks(m.body, qnamelen) /\ m.qd = 1
  /\ pc \in {"reply", "cached", "uncached", "answer"} => m.qr = 1
  /\ far \in [at : Nat, len : Nat]

(* Constants of the messages. *)
LEMMA Sizes == QuestionLen = 2 /\ RecordLen = 4 /\ Ttls \subseteq Int /\ Ttls \subseteq Nat
<1>1. 2 ^ (Bits - 1) \in Nat
  BY Limits
<1> QED
  BY <1>1 DEF QuestionLen, RecordLen, Ttls

(* The records follow the question: where a walk over them begins. *)
LEMMA FirstRecordIs ==
  ASSUME NEW b, NEW n, Asks(b, n)
  PROVE  /\ b \in Seq(Cells) /\ n \in Nat \ {0} /\ Len(b) \in Nat
         /\ FirstRecord(n) \in Nat \ {0} /\ FirstRecord(n) = n + 3 /\ FirstRecord(n) <= Len(b) + 1
<1>1. b \in Seq(Cells) /\ n \in 1..WireMax /\ n + 2 <= Len(b) /\ WireMax \in Nat
  BY Sizes, WireAssumption DEF Asks
<1> QED
  BY <1>1, Sizes DEF FirstRecord

(* Every walk of an operation stays inside. *)
LEMMA RecordsInside ==
  ASSUME NEW f \in Callbacks, NEW b, NEW n, Asks(b, n), NEW ud, UdOk(f, ud), NEW k \in Nat
  PROVE  LET w == foreach_record(b, FirstRecord(n), k, f, ud)
         IN /\ IsWalk(w) /\ Len(w.b) = Len(b) /\ w.far \in Nat /\ w.far <= Len(b)
            /\ w.at \in Nat /\ n + 3 <= w.at /\ w.at <= Len(b) + 1
            /\ UdOk(f, w.ud) /\ Asks(w.b, n)
<1> DEFINE w == foreach_record(b, FirstRecord(n), k, f, ud)
<1>1. /\ b \in Seq(Cells) /\ n \in Nat \ {0} /\ Len(b) \in Nat
      /\ FirstRecord(n) \in Nat \ {0} /\ FirstRecord(n) = n + 3 /\ FirstRecord(n) <= Len(b) + 1
  BY FirstRecordIs
<1>2. WalkFrom(f, b, FirstRecord(n), w)
  BY <1>1, WalkInside
<1> HIDE DEF w
<1>3. /\ IsWalk(w) /\ Len(w.b) = Len(b) /\ UdOk(f, w.ud) /\ n + 3 <= w.at
      /\ \A i \in DOMAIN b : i < n + 3 => w.b[i] = b[i]
  BY <1>1, <1>2 DEF WalkFrom
<1>4. w.b \in Seq(Cells) /\ w.far \in Nat /\ w.far <= Len(b) /\ w.at \in Nat /\ w.at <= Len(b) + 1
  BY <1>3 DEF IsWalk
<1>5. n + 2 <= Len(b) /\ n + QuestionLen <= Len(w.b)
  BY <1>3, Sizes DEF Asks
<1>6. \A i \in 1..n : w.b[i] = b[i]
  BY <1>1, <1>3, <1>5
<1>7. Asks(w.b, n)
  BY <1>4, <1>5, <1>6, AsksSame
<1> QED
  BY <1>3, <1>4, <1>7 DEF w

(* What is left of a message that is cut behind its question. *)
LEMMA CutAsks ==
  ASSUME NEW b, NEW n, Asks(b, n), NEW k \in Nat, n + 2 <= k, k <= Len(b)
  PROVE  LET c == SubSeq(b, 1, k)
         IN Asks(c, n) /\ Len(c) = k /\ \A i \in 1..k : c[i] = b[i]
<1> DEFINE c == SubSeq(b, 1, k)
<1>1. b \in Seq(Cells) /\ n \in Nat \ {0} /\ Len(b) \in Nat
  BY FirstRecordIs
<1>2. /\ c \in Seq(Cells) /\ Len(c) = k
      /\ \A i \in 1..k : c[i] = b[i]
  <2>1. 1..k \subseteq 1..Len(b)
    BY <1>1
  <2>2. /\ c \in Seq(Cells) /\ Len(c) = IF 1 <= k THEN k - 1 + 1 ELSE 0
        /\ \A i \in 1..(k - 1 + 1) : c[i] = b[1 + i - 1]
    BY <1>1, <2>1, SubSeqProperties
  <2> QED
    BY <1>1, <2>2
<1> HIDE DEF c
<1>3. n + QuestionLen <= Len(c) /\ \A i \in 1..n : c[i] = b[i]
  BY <1>1, <1>2, Sizes
<1>4. Asks(c, n)
  BY <1>2, <1>3, AsksSame
<1> QED
  BY <1>2, <1>4 DEF c

(* dns_empty_reply keeps the question. *)
LEMMA EmptyReplyAsks ==
  ASSUME NEW h \in Message, NEW n, Asks(h.body, n)
  PROVE  LET e == dns_empty_reply(h, n)
         IN /\ e \in Message /\ Asks(e.body, n) /\ Len(e.body) = n + 2
            /\ e.qr = 1 /\ e.qd = h.qd /\ e.an = 0 /\ e.ns = 0 /\ e.ar = 0
<1> DEFINE c == SubSeq(h.body, 1, n + 2)
<1>1. n \in Nat /\ n > 0 /\ Len(h.body) \in Nat /\ n + 2 \in Nat /\ n + 2 <= Len(h.body)
  BY FirstRecordIs, Sizes DEF Asks
<1>2. Asks(c, n) /\ Len(c) = n + 2
  BY <1>1, CutAsks
<1>3. c \in Seq(Cells)
  BY <1>2 DEF Asks
<1> HIDE DEF c
<1>4. dns_empty_reply(h, n) = [h EXCEPT !.qr = 1, !.ra = 1, !.rcode = "NOERROR", !.an = 0, !.ns = 0,
                                        !.ar = 0, !.body = c]
  BY <1>1, Sizes DEF dns_empty_reply, c
<1>5. PICK e : e = dns_empty_reply(h, n)
  OBVIOUS
<1>6. e = [h EXCEPT !.qr = 1, !.ra = 1, !.rcode = "NOERROR", !.an = 0, !.ns = 0, !.ar = 0, !.body = c]
  BY <1>4, <1>5
<1>7. e \in Message
  BY <1>3, <1>6 DEF Message
<1>8. e.body = c /\ e.qr = 1 /\ e.qd = h.qd /\ e.an = 0 /\ e.ns = 0 /\ e.ar = 0
  BY <1>3, <1>6 DEF Message
<1> QED
  BY <1>2, <1>5, <1>7, <1>8

(* Init makes the invariant true. *)
LEMMA MsgInvInit == Init => MsgInv
<1> SUFFICES ASSUME Init PROVE MsgInv
  OBVIOUS
<1>1. m \in Message /\ bounds \in [min : Ttls, max : Ttls]
  BY WireAssumption DEF Init
<1> QED
  BY <1>1 DEF Init, MsgInv, Parsed

(* A reply is checked. *)
LEMMA MsgInvCheckReply ==
  ASSUME MsgInv, NEW decode, CheckReply(decode)
  PROVE  MsgInv' /\ (ParserStaysInside => ParserStaysInside')
<1> DEFINE n == QnameLen(m.body)
           w == foreach_record(m.body, FirstRecord(n), m.an + m.ns, "skip", None)
<1>0. /\ pc = "received" /\ bounds' = bounds
      /\ m \in Message /\ bounds \in [min : Ttls, max : Ttls] /\ far \in [at : Nat, len : Nat]
  BY DEF MsgInv, CheckReply
<1>1. m.body \in Seq(Cells) /\ Len(m.body) \in Nat /\ m.an + m.ns \in Nat
  BY <1>0 DEF Message
<1>2. CASE ~check_msg(m, 1, decode) /\ pc' = "dropped" /\ UNCHANGED <<m, qnamelen, ascii, far>>
  BY <1>0, <1>2 DEF MsgInv, Parsed, ParserStaysInside
<1>3. ASSUME check_msg(m, 1, decode)
      PROVE  /\ Asks(m.body, n) /\ m.qd = 1 /\ m.qr = 1
             /\ w.far \in Nat /\ w.far <= Len(m.body)
             /\ w.at \in Nat /\ n + 3 <= w.at /\ w.at <= Len(m.body) + 1
  <2>1. Asks(m.body, n) /\ m.qd = 1 /\ m.qr = 1
    BY <1>0, <1>3, CheckedAsks
  <2>2. "skip" \in Callbacks /\ UdOk("skip", None)
    BY DEF Callbacks, UdOk
  <2> QED
    BY <1>1, <2>1, <2>2, RecordsInside
<1> HIDE DEF n, w
<1>4. CASE /\ check_msg(m, 1, decode) /\ qnamelen' = n
           /\ ~dns_is_good(m) /\ m' = [m EXCEPT !.ra = 1] /\ pc' = "reply" /\ UNCHANGED far
  <2>1. m' \in Message /\ m'.body = m.body /\ m'.qd = m.qd /\ m'.qr = m.qr
    BY <1>0, <1>4 DEF Message
  <2> QED
    BY <1>0, <1>3, <1>4, <2>1 DEF MsgInv, Parsed, ParserStaysInside
<1>5. CASE /\ check_msg(m, 1, decode) /\ qnamelen' = n
           /\ m' = [rm_additional(m, w.at) EXCEPT !.ra = 1] /\ pc' = "reply" /\ Touched(w)
  <2>1. far' = [at |-> w.far, len |-> Len(m.body)]
    BY <1>5 DEF Touched
  <2>2. w.at - 1 \in Nat /\ n + 2 <= w.at - 1 /\ w.at - 1 <= Len(m.body)
    <3>1. n \in Nat
      BY <1>3, <1>5, FirstRecordIs
    <3> QED
      BY <1>1, <1>3, <1>5, <3>1
  <2> DEFINE c == SubSeq(m.body, 1, w.at - 1)
  <2>3. Asks(c, n)
    BY <1>3, <1>5, <2>2, CutAsks
  <2>4. c \in Seq(Cells)
    BY <2>3 DEF Asks
  <2>5. m' = [m EXCEPT !.ar = 0, !.body = c, !.ra = 1]
    BY <1>0, <1>5 DEF rm_additional, Message
  <2> HIDE DEF c
  <2>6. m' \in Message /\ m'.body = c /\ m'.qd = m.qd /\ m'.qr = m.qr
    BY <1>0, <2>4, <2>5 DEF Message
  <2> QED
    BY <1>0, <1>1, <1>3, <1>5, <2>1, <2>3, <2>6 DEF MsgInv, Parsed, ParserStaysInside
<1>6. CASE check_msg(m, 1, decode) /\ qnamelen' = n /\ pc' = "dropped" /\ m' = m /\ Touched(w)
  <2>1. far' = [at |-> w.far, len |-> Len(m.body)]
    BY <1>6 DEF Touched
  <2> QED
    BY <1>0, <1>1, <1>3, <1>6, <2>1 DEF MsgInv, Parsed, ParserStaysInside
<1> QED
  BY <1>2, <1>4, <1>5, <1>6 DEF CheckReply, n, w

(* A query is checked. *)
LEMMA MsgInvCheckQuery ==
  ASSUME MsgInv, NEW decode, CheckQuery(decode)
  PROVE  MsgInv' /\ (ParserStaysInside => ParserStaysInside')
<1>0. /\ pc = "received" /\ bounds' = bounds /\ far' = far
      /\ m \in Message /\ bounds \in [min : Ttls, max : Ttls] /\ far \in [at : Nat, len : Nat]
  BY DEF MsgInv, CheckQuery
<1>c. PICK h : h = TcCleared(m)
  OBVIOUS
<1>d. h \in Message /\ h.body = m.body /\ h.qd = m.qd
  BY <1>0, <1>c DEF TcCleared, Message
<1>1. CASE pc' = "bad" /\ m' = [dns_empty_reply(h, 0) EXCEPT !.body = m.body]
  <2>1. m.body \in Seq(Cells)
    BY <1>0 DEF Message
  <2>2. m' = [h EXCEPT !.qr = 1, !.ra = 1, !.rcode = "NOERROR", !.an = 0, !.ns = 0, !.ar = 0,
                       !.body = m.body]
    BY <1>1, <1>d DEF dns_empty_reply, Message
  <2>3. m' \in Message
    BY <1>d, <2>1, <2>2 DEF Message
  <2> QED
    BY <1>0, <1>1, <2>3 DEF MsgInv, Parsed, ParserStaysInside
<1>2. CASE /\ check_msg(m, 0, decode) /\ pc' = "query" /\ m' = h
           /\ qnamelen' = QnameLen(m.body)
  <2>1. Asks(m.body, QnameLen(m.body)) /\ m.qd = 1
    BY <1>0, <1>2, CheckedAsks
  <2>2. m' \in Message /\ m'.body = m.body /\ m'.qd = m.qd
    BY <1>d, <1>2
  <2> QED
    BY <1>0, <1>2, <2>1, <2>2 DEF MsgInv, Parsed, ParserStaysInside
<1> QED
  BY <1>c, <1>1, <1>2 DEF CheckQuery

(* The size a client accepts is looked up. *)
LEMMA MsgInvGetBufsz ==
  ASSUME MsgInv, GetBufsz
  PROVE  MsgInv' /\ (ParserStaysInside => ParserStaysInside')
<1> DEFINE w1 == foreach_record(m.body, FirstRecord(qnamelen), m.an + m.ns, "skip", None)
           w2 == foreach_record(m.body, w1.at, m.ar, "get_bufsz", BufMin)
<1>0. /\ pc = "query" /\ UNCHANGED <<pc, m, qnamelen, bounds>>
      /\ m \in Message /\ bounds \in [min : Ttls, max : Ttls] /\ far \in [at : Nat, len : Nat]
      /\ Asks(m.body, qnamelen) /\ m.qd = 1
  BY DEF MsgInv, GetBufsz, Parsed
<1>1. m.body \in Seq(Cells) /\ Len(m.body) \in Nat /\ m.an + m.ns \in Nat /\ m.ar \in Nat
  BY <1>0 DEF Message
<1>2. /\ "skip" \in Callbacks /\ UdOk("skip", None)
      /\ "get_bufsz" \in Callbacks /\ UdOk("get_bufsz", BufMin)
  BY DEF Callbacks, UdOk
<1>3. /\ w1.far \in Nat /\ w1.far <= Len(m.body)
      /\ w1.at \in Nat /\ qnamelen + 3 <= w1.at /\ w1.at <= Len(m.body) + 1
  BY <1>0, <1>1, <1>2, RecordsInside
<1>4. qnamelen \in Nat \ {0}
  BY <1>0, FirstRecordIs
<1> HIDE DEF w1
<1>5. w1.at \in Nat \ {0}
  BY <1>3, <1>4
<1>6. w2.far \in Nat /\ w2.far <= Len(m.body)
  <2>1. WalkFrom("get_bufsz", m.body, w1.at, w2)
    BY <1>1, <1>2, <1>3, <1>5, WalkInside
  <2> QED
    BY <2>1 DEF WalkFrom, IsWalk
<1> HIDE DEF w2
<1>7. \/ UNCHANGED far
      \/ Touched(w1)
      \/ Touched(IF w2.far > w1.far THEN w2 ELSE w1)
  BY DEF GetBufsz, w1, w2
<1>8. UNCHANGED far \/ (far' \in [at : Nat, len : Nat] /\ far'.at <= far'.len)
  BY <1>1, <1>3, <1>6, <1>7 DEF Touched
<1> QED
  BY <1>0, <1>8 DEF MsgInv, Parsed, ParserStaysInside

(* Addresses are tested. *)
LEMMA MsgInvTestIp ==
  ASSUME MsgInv, TestIp
  PROVE  MsgInv' /\ (ParserStaysInside => ParserStaysInside')
<1> DEFINE w == foreach_record(m.body, FirstRecord(qnamelen), m.an, "test_ip", "no_ip_found")
<1>0. /\ pc = "reply" /\ UNCHANGED <<pc, m, qnamelen, bounds>>
      /\ m \in Message /\ bounds \in [min : Ttls, max : Ttls] /\ far \in [at : Nat, len : Nat]
      /\ Asks(m.body, qnamelen) /\ m.qd = 1 /\ m.qr = 1
  BY DEF MsgInv, TestIp, Parsed
<1>1. Len(m.body) \in Nat /\ m.an \in Nat
  BY <1>0 DEF Message
<1>2. "test_ip" \in Callbacks /\ UdOk("test_ip", "no_ip_found")
  BY DEF Callbacks, UdOk
<1>3. w.far \in Nat /\ w.far <= Len(m.body)
  BY <1>0, <1>1, <1>2, RecordsInside
<1> HIDE DEF w
<1>4. UNCHANGED far \/ Touched(w)
  BY DEF TestIp, w
<1>5. UNCHANGED far \/ (far' \in [at : Nat, len : Nat] /\ far'.at <= far'.len)
  BY <1>1, <1>3, <1>4 DEF Touched
<1> QED
  BY <1>0, <1>5 DEF MsgInv, Parsed, ParserStaysInside

(* Addresses are added. *)
LEMMA MsgInvAddIp ==
  ASSUME MsgInv, AddIp
  PROVE  MsgInv' /\ (ParserStaysInside => ParserStaysInside')
<1> DEFINE w == foreach_record(m.body, FirstRecord(qnamelen), m.an, "add_ip", <<>>)
<1>0. /\ pc = "reply" /\ UNCHANGED <<pc, m, qnamelen, bounds>>
      /\ m \in Message /\ bounds \in [min : Ttls, max : Ttls] /\ far \in [at : Nat, len : Nat]
      /\ Asks(m.body, qnamelen) /\ m.qd = 1 /\ m.qr = 1
  BY DEF MsgInv, AddIp, Parsed
<1>1. Len(m.body) \in Nat /\ m.an \in Nat
  BY <1>0 DEF Message
<1>2. "add_ip" \in Callbacks /\ UdOk("add_ip", <<>>)
  BY DEF Callbacks, UdOk
<1>3. w.far \in Nat /\ w.far <= Len(m.body)
  BY <1>0, <1>1, <1>2, RecordsInside
<1> HIDE DEF w
<1>4. Touched(w)
  BY DEF AddIp, w
<1>5. far' \in [at : Nat, len : Nat] /\ far'.at <= far'.len
  BY <1>1, <1>3, <1>4 DEF Touched
<1> QED
  BY <1>0, <1>5 DEF MsgInv, Parsed, ParserStaysInside

\* ud of dns_get_ttl
FirstUd == [min |-> bounds.min, max |-> bounds.max, nodata |-> TRUE, ttl |-> NodataTtl]

(* ... is as get_ttl expects it. *)
LEMMA FirstUdOk ==
  ASSUME MsgInv
  PROVE  FirstUd \in GetTtlUd /\ UdOk("get_ttl", FirstUd) /\ "get_ttl" \in Callbacks
<1>1. bounds.min \in Int /\ bounds.max \in Int /\ NodataTtl \in Int
  BY Sizes, WireAssumption DEF MsgInv
<1>2. FirstUd \in GetTtlUd
  BY <1>1 DEF FirstUd, GetTtlUd
<1> QED
  BY <1>2 DEF UdOk, Callbacks

(* A reply is offered to the cache. *)
LEMMA MsgInvCacheAdd ==
  ASSUME MsgInv, CacheAdd
  PROVE  MsgInv' /\ (ParserStaysInside => ParserStaysInside')
<1> DEFINE w == foreach_record(m.body, FirstRecord(qnamelen), m.an + m.ns + m.ar, "get_ttl", FirstUd)
<1>0. /\ pc = "reply" /\ UNCHANGED <<qnamelen, bounds>>
      /\ m \in Message /\ bounds \in [min : Ttls, max : Ttls] /\ far \in [at : Nat, len : Nat]
      /\ Asks(m.body, qnamelen) /\ m.qd = 1 /\ m.qr = 1
  BY DEF MsgInv, CacheAdd, Parsed
<1>1. Len(m.body) \in Nat /\ m.an + m.ns + m.ar \in Nat
  BY <1>0 DEF Message
<1>2. w.far \in Nat /\ w.far <= Len(m.body) /\ Asks(w.b, qnamelen)
  BY <1>0, <1>1, FirstUdOk, RecordsInside
<1>3. w.b \in Seq(Cells)
  BY <1>2 DEF Asks
<1> HIDE DEF w
<1>4. pc' \in {"cached", "uncached"}
  BY DEF CacheAdd
<1>5. \/ UNCHANGED <<m, far>>
      \/ m' = [m EXCEPT !.body = w.b] /\ Touched(w)
  BY DEF CacheAdd, w, FirstUd
<1>6. CASE UNCHANGED <<m, far>>
  BY <1>0, <1>4, <1>6 DEF MsgInv, Parsed, ParserStaysInside
<1>7. CASE m' = [m EXCEPT !.body = w.b] /\ Touched(w)
  <2>1. m' \in Message /\ m'.body = w.b /\ m'.qd = m.qd /\ m'.qr = m.qr
    BY <1>0, <1>3, <1>7 DEF Message
  <2>2. far' \in [at : Nat, len : Nat] /\ far'.at <= far'.len
    BY <1>1, <1>2, <1>7 DEF Touched
  <2> QED
    BY <1>0, <1>2, <1>4, <2>1, <2>2 DEF MsgInv, Parsed, ParserStaysInside
<1> QED
  BY <1>5, <1>6, <1>7

(* A cached message grows older. *)
LEMMA MsgInvUpdateTtl ==
  ASSUME MsgInv, NEW d \in 1..MaxElapsed, UpdateTtl(d)
  PROVE  MsgInv' /\ (ParserStaysInside => ParserStaysInside')
<1> DEFINE w == foreach_record(m.body, FirstRecord(qnamelen), m.an + m.ns + m.ar, "update_ttl", -d)
<1>0. /\ pc = "cached" /\ UNCHANGED <<pc, qnamelen, bounds>>
      /\ m \in Message /\ bounds \in [min : Ttls, max : Ttls] /\ far \in [at : Nat, len : Nat]
      /\ Asks(m.body, qnamelen) /\ m.qd = 1 /\ m.qr = 1
  BY DEF MsgInv, UpdateTtl, Parsed
<1>1. Len(m.body) \in Nat /\ m.an + m.ns + m.ar \in Nat
  BY <1>0 DEF Message
<1>2. "update_ttl" \in Callbacks /\ UdOk("update_ttl", -d)
  <2>1. -d \in Int
    OBVIOUS
  <2> QED
    BY <2>1 DEF Callbacks, UdOk
<1>3. w.far \in Nat /\ w.far <= Len(m.body) /\ Asks(w.b, qnamelen)
  BY <1>0, <1>1, <1>2, RecordsInside
<1>4. w.b \in Seq(Cells)
  BY <1>3 DEF Asks
<1> HIDE DEF w
<1>5. m' = [m EXCEPT !.body = w.b] /\ Touched(w)
  BY DEF UpdateTtl, w
<1>6. m' \in Message /\ m'.body = w.b /\ m'.qd = m.qd /\ m'.qr = m.qr
  BY <1>0, <1>4, <1>5 DEF Message
<1>7. far' \in [at : Nat, len : Nat] /\ far'.at <= far'.len
  BY <1>1, <1>3, <1>5 DEF Touched
<1> QED
  BY <1>0, <1>3, <1>6, <1>7 DEF MsgInv, Parsed, ParserStaysInside

(* What takes the place of the message is one with the same question. *)
LEMMA AnswerIs ==
  ASSUME MsgInv, Answer
  PROVE  /\ m' \in Message /\ Asks(m'.body, qnamelen) /\ m'.qd = 1 /\ m'.qr = 1
         /\ m'.ns = 0 /\ m'.ar = 0
         /\ \/ m'.an = 0 /\ Len(m'.body) = qnamelen + 2
            \/ /\ m'.an = LocalAnswer.n
               /\ \E q : /\ q \in Seq(Cells) /\ Len(q) = qnamelen + 2
                         /\ m'.body = q \o LocalAnswer.cells
<1>0. /\ pc \in Parsed /\ m \in Message /\ Asks(m.body, qnamelen) /\ m.qd = 1
  BY DEF MsgInv, Answer, Parsed
<1>1. PICK e : e = dns_empty_reply(m, qnamelen)
  OBVIOUS
<1>2. /\ e \in Message /\ Asks(e.body, qnamelen) /\ Len(e.body) = qnamelen + 2
      /\ e.qr = 1 /\ e.qd = 1 /\ e.an = 0 /\ e.ns = 0 /\ e.ar = 0
  BY <1>0, <1>1, EmptyReplyAsks
<1>3. CASE m' = dns_empty_reply(m, qnamelen)
  BY <1>1, <1>2, <1>3
<1>4. CASE m' = dns_servfail_reply(m, qnamelen)
  <2>1. m' = [e EXCEPT !.aa = 0, !.rcode = "SERVFAIL"]
    BY <1>1, <1>4 DEF dns_servfail_reply
  <2>2. /\ m' \in Message /\ m'.body = e.body /\ m'.qd = 1 /\ m'.qr = 1
        /\ m'.an = 0 /\ m'.ns = 0 /\ m'.ar = 0
    BY <1>2, <2>1 DEF Message
  <2> QED
    BY <1>2, <2>2
<1>5. CASE m' = dns_truncate(m)
  <2>1. PICK h : h = [m EXCEPT !.tc = TRUE]
    OBVIOUS
  <2>2. h \in Message /\ h.body = m.body /\ h.qd = 1
    BY <1>0, <2>1 DEF Message
  <2>3. m' = dns_empty_reply(h, qnamelen)
    BY <1>0, <1>5, <2>1 DEF dns_truncate, Asks
  <2>4. PICK t : t = dns_empty_reply(h, qnamelen)
    OBVIOUS
  <2>5. /\ t \in Message /\ Asks(t.body, qnamelen) /\ Len(t.body) = qnamelen + 2
        /\ t.qr = 1 /\ t.qd = 1 /\ t.an = 0 /\ t.ns = 0 /\ t.ar = 0
    BY <1>0, <2>2, <2>4, EmptyReplyAsks
  <2> QED
    BY <2>3, <2>4, <2>5
<1>6. CASE m' = dns_make_reply(m, qnamelen)
  <2> DEFINE c == LocalAnswer.cells
             b == e.body \o c
  <2>1. c \in Seq(Cells) /\ LocalAnswer.n \in Nat
    BY LocalAnswerAssumption
  <2>2. m' = [e EXCEPT !.an = LocalAnswer.n, !.aa = 1, !.body = b]
    BY <1>1, <1>6 DEF dns_make_reply
  <2>3. e.body \in Seq(Cells) /\ qnamelen \in Nat
    BY <1>2, FirstRecordIs
  <2> HIDE DEF c
  <2>4. b \in Seq(Cells) /\ Len(b) = qnamelen + 2 + Len(c) /\ \A i \in 1..qnamelen : b[i] = e.body[i]
    <3>1. /\ b \in Seq(Cells) /\ Len(b) = Len(e.body) + Len(c)
          /\ \A i \in 1..(Len(e.body) + Len(c)) :
               b[i] = IF i <= Len(e.body) THEN e.body[i] ELSE c[i - Len(e.body)]
      BY <2>1, <2>3, ConcatProperties
    <3>2. Len(c) \in Nat
      BY <2>1
    <3> HIDE DEF b
    <3> QED
      BY <1>2, <2>3, <3>1, <3>2
  <2> HIDE DEF b
  <2>5. Asks(b, qnamelen)
    <3>1. qnamelen + QuestionLen <= Len(b)
      BY <2>1, <2>3, <2>4, Sizes
    <3> QED
      BY <1>2, <2>4, <3>1, AsksSame
  <2>6. /\ m' \in Message /\ m'.body = b /\ m'.qd = 1 /\ m'.qr = 1
        /\ m'.an = LocalAnswer.n /\ m'.ns = 0 /\ m'.ar = 0
    BY <1>2, <2>1, <2>2, <2>4 DEF Message
  <2> QED
    BY <1>2, <2>3, <2>5, <2>6 DEF b, c
<1> QED
  BY <1>3, <1>4, <1>5, <1>6 DEF Answer

(* A message is answered. *)
LEMMA MsgInvAnswer ==
  ASSUME MsgInv, Answer
  PROVE  MsgInv' /\ (ParserStaysInside => ParserStaysInside')
<1>0. /\ pc \in Parsed /\ m \in Message /\ Asks(m.body, qnamelen) /\ bounds \in [min : Ttls, max : Ttls]
      /\ pc' = "answer" /\ UNCHANGED <<qnamelen, bounds>>
      /\ far' = [at |-> qnamelen + QuestionLen, len |-> Len(m.body)]
  BY DEF MsgInv, Answer, Parsed
<1>1. m' \in Message /\ Asks(m'.body, qnamelen) /\ m'.qd = 1 /\ m'.qr = 1
  BY AnswerIs
<1>2. far' \in [at : Nat, len : Nat] /\ far'.at <= far'.len
  BY <1>0, FirstRecordIs, Sizes DEF Asks
<1> QED
  BY <1>0, <1>1, <1>2 DEF MsgInv, Parsed, ParserStaysInside

(* The invariant holds in every step. *)
LEMMA MsgInvNext ==
  ASSUME MsgInv, [Next]_vars
  PROVE  MsgInv' /\ (ParserStaysInside => ParserStaysInside')
<1>1. CASE UNCHANGED vars
  BY <1>1 DEF vars, MsgInv, ParserStaysInside
<1>2. CASE Next
  BY <1>2, MsgInvCheckReply, MsgInvCheckQuery, MsgInvGetBufsz, MsgInvTestIp, MsgInvAddIp,
     MsgInvCacheAdd, MsgInvUpdateTtl, MsgInvAnswer DEF Next
<1> QED
  BY <1>1, <1>2

(* Whatever the bytes of a message are, no operation on it reads or writes  *)
(* behind its end.                                                          *)
THEOREM ParserStaysInsideHolds == Spec => []ParserStaysInside
<1>1. Init => ParserStaysInside
  BY DEF Init, ParserStaysInside
<1> QED
  BY <1>1, MsgInvInit, MsgInvNext, PTL DEF Spec

-----------------------------------------------------------------------------
(* Chains of records *)

\* there is a whole record from q up to next
IsRecord(b, q, next) ==
  LET r == skip_name(b, q)
  IN r # 0 /\ b[r + 3] \in Nat /\ next = r + 4 + b[r + 3] /\ next - 1 <= Len(b)

\* n records follow each other from p on, s tells where
Chain(b, p, n, s) ==
  /\ s \in [0..n -> Nat \ {0}] /\ s[0] = p
  /\ \A i \in 1..n : IsRecord(b, s[i - 1], s[i])

(* A record has a place. *)
LEMMA RecordSpan ==
  ASSUME NEW b \in Seq(Cells), NEW q \in Nat \ {0}, NEW next, IsRecord(b, q, next)
  PROVE  LET r == skip_name(b, q)
         IN /\ r \in Nat \ {0} /\ next \in Nat \ {0} /\ q < r /\ r + 3 < next
            /\ next <= Len(b) + 1 /\ r + 3 <= Len(b)
<1> DEFINE r == skip_name(b, q)
<1>1. r \in Nat /\ (r # 0 => q < r /\ r + 3 <= Len(b))
  BY SkipNameSpan, Sizes
<1>2. r # 0 /\ b[r + 3] \in Nat /\ next = r + 4 + b[r + 3] /\ next - 1 <= Len(b) /\ Len(b) \in Nat
  BY DEF IsRecord
<1> HIDE DEF r
<1>3. /\ r \in Nat \ {0} /\ next \in Nat \ {0} /\ q < r /\ r + 3 < next
      /\ next <= Len(b) + 1 /\ r + 3 <= Len(b)
  BY <1>1, <1>2
<1> QED
  BY <1>3 DEF r

(* The records of a chain do not overlap. *)
LEMMA ChainForward ==
  ASSUME NEW b \in Seq(Cells), NEW p \in Nat \ {0}, NEW n \in Nat, NEW s, Chain(b, p, n, s)
  PROVE  /\ \A i, j \in 0..n : i <= j => s[i] <= s[j]
         /\ \A i \in 1..n : s[i] <= Len(b) + 1
         /\ \A i \in 1..n : s[i - 1] \in Nat \ {0} /\ s[i] \in Nat \ {0}
<1>1. s \in [0..n -> Nat \ {0}] /\ \A i \in 1..n : IsRecord(b, s[i - 1], s[i])
  BY DEF Chain
<1>2. ASSUME NEW i \in 1..n
      PROVE  /\ s[i - 1] \in Nat \ {0} /\ s[i] \in Nat \ {0}
             /\ s[i - 1] <= s[i] /\ s[i] <= Len(b) + 1
  <2>1. i - 1 \in 0..n /\ i \in 0..n
    OBVIOUS
  <2>2. s[i - 1] \in Nat \ {0} /\ s[i] \in Nat \ {0} /\ IsRecord(b, s[i - 1], s[i])
    BY <1>1, <2>1
  <2>3. PICK r \in Nat : s[i - 1] < r /\ r + 3 < s[i] /\ s[i] <= Len(b) + 1
    BY <2>2, RecordSpan
  <2> QED
    BY <2>2, <2>3
<1>3. ASSUME NEW i \in 0..n PROVE \A j \in 0..n : i <= j => s[i] <= s[j]
  <2> DEFINE H == {j \in Nat : j <= n /\ i <= j => s[i] <= s[j]}
  <2>1. 0 \in H
    <3>1. s[0] \in Nat
      BY <1>1
    <3> QED
      BY <3>1
  <2>2. ASSUME NEW j \in 1..n, j - 1 \in H PROVE j \in H
    <3>1. j \in Nat /\ j - 1 \in Nat /\ s[i] \in Nat /\ s[j] \in Nat /\ s[j - 1] \in Nat /\ s[j - 1] <= s[j]
      BY <1>1, <1>2
    <3>2. CASE i <= j - 1
      BY <2>2, <3>1, <3>2
    <3>3. CASE i = j
      BY <3>1, <3>3
    <3>4. CASE ~(i <= j)
      BY <3>1, <3>4
    <3> QED
      BY <3>1, <3>2, <3>3, <3>4
  <2> HIDE DEF H
  <2>3. \A j \in 0..n : j \in H
    BY <2>1, <2>2, UpTo
  <2> QED
    BY <2>3 DEF H
<1> QED
  BY <1>2, <1>3

(* A record depends on its name and its length. *)
LEMMA RecordSame ==
  ASSUME NEW b \in Seq(Cells), NEW c \in Seq(Cells), NEW q \in Nat \ {0}, NEW next,
         IsRecord(b, q, next), next <= Len(c) + 1,
         \A i \in q..(skip_name(b, q) - 1) : c[i] = b[i],
         c[skip_name(b, q) + 3] = b[skip_name(b, q) + 3]
  PROVE  skip_name(c, q) = skip_name(b, q) /\ IsRecord(c, q, next)
<1> DEFINE r == skip_name(b, q)
           l == LabelAt(b, q, Len(b))
<1>1. /\ r \in Nat \ {0} /\ next \in Nat \ {0} /\ q < r /\ r + 3 < next
      /\ next <= Len(b) + 1 /\ r + 3 <= Len(b)
  BY RecordSpan
<1>2. r = NameEnd(b, q)
  BY <1>1, SkipNameSpan
<1>3. Len(b) \in Nat /\ Len(c) \in Nat /\ l \in Nat
  <2>1. l \in Nat
    BY NameEndSpan
  <2> QED
    BY <2>1
<1>4. l <= Len(b)
  <2>1. l > Len(b) => r = l
    BY <1>2, NameEndSpan
  <2> HIDE DEF l, r
  <2> QED
    BY <1>1, <1>3, <2>1
<1>5. NameEnd(c, q) = r
  <2>1. r # 0 /\ r <= Len(b) + 1 /\ r <= Len(c) + 1
    <3> HIDE DEF r
    <3> QED
      BY <1>1, <1>3
  <2> QED
    BY <1>2, <1>4, <2>1, NameEndSame
<1>6. skip_name(c, q) = IF NameEnd(c, q) + 4 - 1 > Len(c) THEN 0 ELSE NameEnd(c, q)
  BY Sizes DEF skip_name
<1>7. /\ \A i \in q..(r - 1) : c[i] = b[i]
      /\ c[r + 3] = b[r + 3]
  OBVIOUS
<1>8. b[r + 3] \in Nat /\ next = r + 4 + b[r + 3]
  BY DEF IsRecord
<1> HIDE DEF r
<1>9. ~(r + 4 - 1 > Len(c)) /\ next - 1 <= Len(c)
  BY <1>1, <1>3
<1>10. skip_name(c, q) = r
  BY <1>5, <1>6, <1>9
<1>11. IsRecord(c, q, next)
  BY <1>1, <1>7, <1>8, <1>9, <1>10 DEF IsRecord
<1> QED
  BY <1>10, <1>11 DEF r

\* c has the names and the lengths of the records of b
SameRecords(b, c, n, s) ==
  \A i \in 1..n : /\ \A j \in s[i - 1]..(skip_name(b, s[i - 1]) - 1) : c[j] = b[j]
                  /\ c[skip_name(b, s[i - 1]) + 3] = b[skip_name(b, s[i - 1]) + 3]

(* So does a chain. *)
LEMMA ChainSame ==
  ASSUME NEW b \in Seq(Cells), NEW c \in Seq(Cells), NEW p \in Nat \ {0}, NEW n \in Nat, NEW s,
         Chain(b, p, n, s), s[n] <= Len(c) + 1, SameRecords(b, c, n, s)
  PROVE  /\ Chain(c, p, n, s)
         /\ \A i \in 1..n : skip_name(c, s[i - 1]) = skip_name(b, s[i - 1])
<1>1. s \in [0..n -> Nat \ {0}] /\ s[0] = p /\ \A i \in 1..n : IsRecord(b, s[i - 1], s[i])
  BY DEF Chain
<1>2. ASSUME NEW i \in 1..n
      PROVE  skip_name(c, s[i - 1]) = skip_name(b, s[i - 1]) /\ IsRecord(c, s[i - 1], s[i])
  <2>1. i - 1 \in 0..n /\ i \in 0..n /\ n \in 0..n /\ i <= n
    OBVIOUS
  <2>2. s[i - 1] \in Nat \ {0} /\ s[i] \in Nat /\ s[n] \in Nat /\ s[i] <= s[n] /\ Len(c) \in Nat
    <3>1. \A k, j \in 0..n : k <= j => s[k] <= s[j]
      BY ChainForward
    <3>2. s[i] <= s[n]
      BY <2>1, <3>1
    <3>3. Len(c) \in Nat
      OBVIOUS
    <3>4. s[i - 1] \in Nat \ {0} /\ s[i] \in Nat /\ s[n] \in Nat
      BY <1>1, <2>1
    <3> QED
      BY <3>2, <3>3, <3>4
  <2>3. s[i] <= Len(c) + 1
    BY <2>2
  <2>4. IsRecord(b, s[i - 1], s[i])
    BY <1>1
  <2>5. /\ \A j \in s[i - 1]..(skip_name(b, s[i - 1]) - 1) : c[j] = b[j]
        /\ c[skip_name(b, s[i - 1]) + 3] = b[skip_name(b, s[i - 1]) + 3]
    BY DEF SameRecords
  <2> QED
    BY <2>2, <2>3, <2>4, <2>5, RecordSame
<1> QED
  BY <1>1, <1>2 DEF Chain

(* skip_record takes note of nothing but the places. *)
LEMMA SkipStep ==
  ASSUME NEW w, IsWalk(w), ~w.stop
  PROVE  Visit("skip", w) = IF w.ok THEN Pass(w) ELSE w
<1>1. Callback("skip", Pass(w), skip_name(w.b, w.at)) = Pass(w)
  BY DEF Callback
<1> QED
  BY <1>1 DEF Visit

(* A walk that succeeds went along a chain. *)
LEMMA WalkIsChain ==
  ASSUME NEW b \in Seq(Cells), NEW p \in Nat \ {0}, p <= Len(b) + 1, NEW n \in Nat,
         foreach_record(b, p, n, "skip", None).ok
  PROVE  \E s : Chain(b, p, n, s) /\ s[n] = foreach_record(b, p, n, "skip", None).at
<1> DEFINE W(i) == foreach_record(b, p, i, "skip", None)
           s == [i \in 0..n |-> W(i).at]
           H == {i \in Nat : /\ W(i).b = b /\ ~W(i).stop
                             /\ W(i).ok => \A j \in 1..i : IsRecord(b, W(j - 1).at, W(j).at)}
<1>0. W(n).ok
  OBVIOUS
<1>1. W(0) = Walk(b, p, None)
  BY WalkSteps
<1>2. ASSUME NEW i \in Nat PROVE W(i + 1) = Visit("skip", W(i))
  BY WalkStep
<1>3. ASSUME NEW i \in Nat PROVE IsWalk(W(i))
  <2>1. "skip" \in Callbacks /\ UdOk("skip", None)
    BY DEF Callbacks, UdOk
  <2> QED
    BY <2>1, WalkInside DEF WalkFrom
<1> HIDE DEF W
<1>4. 0 \in H
  BY <1>1 DEF Walk
<1>5. ASSUME NEW k \in 1..n, k - 1 \in H PROVE k \in H
  <2>1. k - 1 \in Nat /\ (k - 1) + 1 = k /\ k \in Nat
    OBVIOUS
  <2>2. PICK w : w = W(k - 1)
    OBVIOUS
  <2>3. /\ IsWalk(w) /\ w.b = b /\ ~w.stop
        /\ w.ok => \A j \in 1..(k - 1) : IsRecord(b, W(j - 1).at, W(j).at)
    BY <1>3, <1>5, <2>1, <2>2
  <2>4. W(k) = IF w.ok THEN Pass(w) ELSE w
    BY <1>2, <2>1, <2>2, <2>3, SkipStep
  <2>5. CASE ~w.ok
    BY <2>1, <2>3, <2>4, <2>5
  <2>6. CASE w.ok
    <3>1. PICK v : v = Pass(w)
      OBVIOUS
    <3>2. W(k) = v
      BY <2>4, <2>6, <3>1
    <3>3. PICK r : r = skip_name(w.b, w.at)
      OBVIOUS
    <3>4. /\ IsWalk(v) /\ v.b = w.b /\ v.stop = w.stop
          /\ v.ok => r # 0 /\ w.b[r + 3] \in Nat /\ v.at = r + 4 + w.b[r + 3]
      BY <2>3, <3>1, <3>3, PassInside
    <3>5. ASSUME v.ok PROVE IsRecord(b, w.at, v.at)
      <4>1. v.at \in Nat /\ v.at <= Len(b) + 1 /\ Len(b) \in Nat
        BY <2>3, <3>4 DEF IsWalk
      <4>2. v.at - 1 <= Len(b)
        BY <4>1
      <4> QED
        BY <2>3, <3>3, <3>4, <3>5, <4>2 DEF IsRecord
    <3>6. ASSUME v.ok, NEW j \in 1..k PROVE IsRecord(b, W(j - 1).at, W(j).at)
      <4>1. CASE j = k
        BY <2>2, <3>2, <3>5, <3>6, <4>1
      <4>2. CASE j # k
        <5>1. j \in 1..(k - 1)
          BY <4>2
        <5> QED
          BY <2>3, <2>6, <5>1
      <4> QED
        BY <4>1, <4>2
    <3> QED
      BY <2>1, <2>3, <3>2, <3>4, <3>6
  <2> QED
    BY <2>5, <2>6
<1> HIDE DEF H
<1>6. \A k \in 0..n : k \in H
  BY <1>4, <1>5, UpTo
<1>7. n \in H /\ n \in 0..n
  BY <1>6
<1>8. \A j \in 1..n : IsRecord(b, W(j - 1).at, W(j).at)
  BY <1>0, <1>7 DEF H
<1>9. s \in [0..n -> Nat \ {0}]
  <2>1. \A i \in 0..n : W(i).at \in Nat \ {0}
    BY <1>3 DEF IsWalk
  <2> QED
    BY <2>1
<1>10. s[0] = p
  BY <1>1 DEF Walk
<1>11. ASSUME NEW j \in 1..n PROVE IsRecord(b, s[j - 1], s[j])
  <2>1. j - 1 \in 0..n /\ j \in 0..n
    OBVIOUS
  <2> QED
    BY <1>8, <2>1
<1>12. s[n] = W(n).at
  BY <1>7
<1> HIDE DEF s
<1>13. Chain(b, p, n, s)
  BY <1>9, <1>10, <1>11 DEF Chain
<1> QED
  BY <1>12, <1>13 DEF W

\* callbacks that see every record, and rewrite at most its TTL
Rewriting == {"skip", "get_ttl", "update_ttl"}

(* ... do not end the walk. *)
LEMMA RewritingGoesOn ==
  ASSUME NEW f \in Rewriting, NEW w, IsWalk(w), w.ok, ~w.stop, UdOk(f, w.ud),
         NEW r \in Nat \ {0}, r + 3 < w.at
  PROVE  Callback(f, w, r).ok /\ ~Callback(f, w, r).stop
<1>0. DOMAIN w = {"b", "at", "far", "ok", "stop", "ud"}
  BY DEF IsWalk
<1>1. CASE f = "skip"
  BY <1>1 DEF Callback
<1>2. CASE f = "get_ttl"
  <2>1. Callback(f, w, r) = get_ttl(w, r)
    BY <1>2 DEF Callback
  <2>2. \A x, y, z : LET v == [w EXCEPT !.b[r + 2] = x, !.ud.nodata = y, !.ud.ttl = z]
                     IN v.ok = w.ok /\ v.stop = w.stop
    BY <1>0
  <2> QED
    BY <2>1, <2>2 DEF get_ttl
<1>3. CASE f = "update_ttl"
  <2>1. Callback(f, w, r) = update_ttl(w, r)
    BY <1>3 DEF Callback
  <2>2. \A x : LET v == [w EXCEPT !.b[r + 2] = x] IN v.ok = w.ok /\ v.stop = w.stop
    BY <1>0
  <2> QED
    BY <2>1, <2>2 DEF update_ttl
<1> QED
  BY <1>1, <1>2, <1>3 DEF Rewriting

\* the walk w has come along the chain s of b to its record i, with the TTLs
\* of the records it has passed rewritten
Along(b, s, i, w) ==
  /\ w.ok /\ ~w.stop /\ w.at = s[i]
  /\ \A j \in DOMAIN b : (\A k \in 1..i : j # skip_name(b, s[k - 1]) + 2) => w.b[j] = b[j]

(* One step of such a walk: the callback gets the next record of the chain, *)
(* which no earlier one has changed.                                        *)
LEMMA VisitAlong ==
  ASSUME NEW b \in Seq(Cells), NEW p \in Nat \ {0}, p <= Len(b) + 1, NEW n \in Nat, NEW s, Chain(b, p, n, s),
         NEW f \in Rewriting, NEW w, WalkFrom(f, b, p, w), NEW i \in 1..n, Along(b, s, i - 1, w)
  PROVE  LET r == skip_name(b, s[i - 1])
             u == Pass(w)
         IN /\ Visit(f, w) = Callback(f, u, r) /\ Along(b, s, i, Visit(f, w))
            /\ IsWalk(u) /\ u.ok /\ ~u.stop /\ u.b = w.b /\ u.ud = w.ud /\ u.at = s[i]
            /\ r \in Nat \ {0} /\ r + 3 < u.at /\ s[i - 1] < r
            /\ \A j \in DOMAIN b : j >= s[i - 1] => w.b[j] = b[j]
            /\ \A j \in DOMAIN b : j # r + 2 => Visit(f, w).b[j] = w.b[j]
<1> DEFINE q == s[i - 1]
           r == skip_name(b, q)
           u == Pass(w)
           T(k) == skip_name(b, s[k - 1]) + 2
<1>0. i - 1 \in 0..n /\ i \in 0..n /\ i - 1 \in Nat /\ i \in Nat
  OBVIOUS
<1>1. /\ q \in Nat \ {0} /\ s[i] \in Nat \ {0} /\ IsRecord(b, q, s[i])
      /\ \A k \in 1..n : s[k - 1] \in Nat \ {0} /\ IsRecord(b, s[k - 1], s[k])
  <2>1. \A k \in 1..n : s[k - 1] \in Nat \ {0} /\ s[k] \in Nat \ {0}
    BY ChainForward
  <2>2. \A k \in 1..n : IsRecord(b, s[k - 1], s[k])
    BY DEF Chain
  <2> QED
    BY <2>1, <2>2
<1>2. /\ r \in Nat \ {0} /\ q < r /\ r + 3 < s[i] /\ s[i] <= Len(b) + 1 /\ r + 3 <= Len(b)
      /\ Len(b) \in Nat
  BY <1>1, RecordSpan
<1>3. b[r + 3] \in Nat /\ s[i] = r + 4 + b[r + 3]
  BY <1>1 DEF IsRecord
<1>4. /\ IsWalk(w) /\ w.b \in Seq(Cells) /\ Len(w.b) = Len(b) /\ DOMAIN w.b = DOMAIN b
      /\ UdOk(f, w.ud) /\ w.ok /\ ~w.stop /\ w.at = q
  BY DEF WalkFrom, IsWalk, Along
<1>5. ASSUME NEW k \in 1..(i - 1) PROVE T(k) < q
  <2>1. k \in 1..n /\ k \in 0..n /\ k <= i - 1
    OBVIOUS
  <2>2. PICK x \in Nat : x = skip_name(b, s[k - 1]) /\ x + 3 < s[k] /\ s[k] \in Nat
    BY <1>1, <2>1, RecordSpan
  <2>3. s[k] <= q
    <3>1. \A j, h \in 0..n : j <= h => s[j] <= s[h]
      BY ChainForward
    <3> QED
      BY <1>0, <2>1, <3>1
  <2>4. T(k) = x + 2
    BY <2>2
  <2>5. PICK y \in Nat : y = s[k] /\ y <= q /\ x + 3 < y
    BY <2>2, <2>3
  <2>6. q \in Nat
    BY <1>1
  <2>7. x + 2 < q
    BY <2>5, <2>6
  <2> QED
    BY <2>4, <2>7
<1>6. ASSUME NEW j \in DOMAIN b, j >= q PROVE w.b[j] = b[j]
  <2>1. j \in Nat
    OBVIOUS
  <2>2. \A k \in 1..(i - 1) : j # T(k)
    <3> SUFFICES ASSUME NEW k \in 1..(i - 1), j = T(k) PROVE FALSE
      OBVIOUS
    <3>1. T(k) < q
      BY <1>5
    <3> QED
      BY <1>1, <1>6, <2>1, <3>1
  <2> QED
    BY <2>2 DEF Along
<1>7. ASSUME NEW j \in q..(r - 1) PROVE w.b[j] = b[j]
  <2>1. j \in DOMAIN b /\ j >= q
    BY <1>1, <1>2
  <2> QED
    BY <1>6, <2>1
<1>8. w.b[r + 3] = b[r + 3]
  <2>1. r + 3 \in DOMAIN b /\ r + 3 >= q
    BY <1>1, <1>2
  <2> QED
    BY <1>6, <2>1
<1>9. skip_name(w.b, q) = r
  <2>1. s[i] <= Len(w.b) + 1
    BY <1>2, <1>4
  <2> QED
    BY <1>1, <1>4, <1>7, <1>8, <2>1, RecordSame
<1>10. /\ IsWalk(u) /\ u.b = w.b /\ u.ud = w.ud /\ u.stop = w.stop
       /\ u.ok => u.at = r + 4 + w.b[r + 3]
       /\ u.ok <=> r # 0 /\ r + 3 + w.b[r + 3] <= Len(w.b)
  BY <1>4, <1>9, PassInside
<1> HIDE DEF r, u, T
<1>11. u.ok /\ ~u.stop /\ u.at = s[i]
  <2>1. r # 0 /\ r + 3 + w.b[r + 3] <= Len(w.b)
    BY <1>2, <1>3, <1>4, <1>8
  <2>2. u.ok
    BY <1>10, <2>1
  <2>3. u.at = s[i]
    BY <1>3, <1>8, <1>10, <2>2
  <2> QED
    BY <1>4, <1>10, <2>2, <2>3
<1>12. Visit(f, w) = Callback(f, u, r)
  BY <1>4, <1>9, <1>11 DEF Visit, u
<1>13. f \in Callbacks /\ UdOk(f, u.ud) /\ r + 3 < u.at
  BY <1>2, <1>4, <1>10, <1>11 DEF Callbacks, Rewriting
<1>14. Seen(f, u, r, Visit(f, w))
  BY <1>2, <1>10, <1>11, <1>12, <1>13, CallbackInside
<1>15. Visit(f, w).ok /\ ~Visit(f, w).stop
  BY <1>2, <1>10, <1>11, <1>12, <1>13, RewritingGoesOn
<1>16. PICK v : v = Visit(f, w)
  OBVIOUS
<1>17. v.at = s[i] /\ \A j \in DOMAIN b : j # r + 2 => v.b[j] = w.b[j]
  BY <1>4, <1>10, <1>11, <1>14, <1>16 DEF Seen
<1>18. Along(b, s, i, v)
  <2>1. ASSUME NEW j \in DOMAIN b, \A k \in 1..i : j # T(k) PROVE v.b[j] = b[j]
    <3>1. i \in 1..i /\ T(i) = r + 2
      BY <1>0 DEF T, r
    <3>2. j # r + 2
      BY <2>1, <3>1
    <3>3. \A k \in 1..(i - 1) : j # T(k)
      BY <1>0, <2>1
    <3>4. w.b[j] = b[j]
      BY <3>3 DEF Along, T
    <3> QED
      BY <1>17, <3>2, <3>4
  <2> QED
    BY <1>15, <1>16, <1>17, <2>1 DEF Along, T
<1> QED
  BY <1>1, <1>2, <1>6, <1>10, <1>11, <1>12, <1>13, <1>16, <1>17, <1>18 DEF r, u

(* A chain is walked to its end. *)
LEMMA ChainIsWalked ==
  ASSUME NEW b \in Seq(Cells), NEW p \in Nat \ {0}, p <= Len(b) + 1, NEW n \in Nat, NEW s, Chain(b, p, n, s),
         NEW f \in Rewriting, NEW ud, UdOk(f, ud)
  PROVE  \A i \in 0..n : Along(b, s, i, foreach_record(b, p, i, f, ud))
<1> DEFINE W(i) == foreach_record(b, p, i, f, ud)
           H == {i \in Nat : Along(b, s, i, W(i))}
<1>1. W(0) = Walk(b, p, ud)
  BY WalkSteps
<1>2. ASSUME NEW i \in Nat PROVE W(i + 1) = Visit(f, W(i))
  BY WalkStep
<1>3. ASSUME NEW i \in Nat PROVE WalkFrom(f, b, p, W(i))
  <2>1. f \in Callbacks
    BY DEF Callbacks, Rewriting
  <2> QED
    BY <2>1, WalkInside
<1> HIDE DEF W
<1>4. 0 \in H
  <2>1. s[0] = p
    BY DEF Chain
  <2> QED
    BY <1>1, <2>1 DEF Walk, Along
<1>5. ASSUME NEW k \in 1..n, k - 1 \in H PROVE k \in H
  <2>1. k - 1 \in Nat /\ (k - 1) + 1 = k /\ k \in Nat
    OBVIOUS
  <2>2. WalkFrom(f, b, p, W(k - 1)) /\ Along(b, s, k - 1, W(k - 1)) /\ W(k) = Visit(f, W(k - 1))
    BY <1>2, <1>3, <1>5, <2>1
  <2>3. PICK w : w = W(k - 1)
    OBVIOUS
  <2>4. Along(b, s, k, Visit(f, w))
    BY <2>2, <2>3, VisitAlong
  <2> QED
    BY <2>1, <2>2, <2>3, <2>4
<1> HIDE DEF H
<1>6. \A k \in 0..n : k \in H
  BY <1>4, <1>5, UpTo
<1> QED
  BY <1>6 DEF H, W

(* A message is whole if its records are a chain up to its end. *)
LEMMA WholeIsChain ==
  ASSUME NEW h \in Message, NEW n, Asks(h.body, n)
  PROVE  Whole(h) <=> \E s : /\ Chain(h.body, n + 3, h.an + h.ns + h.ar, s)
                             /\ s[h.an + h.ns + h.ar] = Len(h.body) + 1
<1> DEFINE b == h.body
           k == h.an + h.ns + h.ar
           w == foreach_record(b, n + 3, k, "skip", None)
<1>1. /\ b \in Seq(Cells) /\ n + 3 \in Nat \ {0} /\ n + 3 <= Len(b) + 1 /\ FirstRecord(n) = n + 3
      /\ QnameLen(b) = n /\ k \in Nat
  BY FirstRecordIs DEF Asks, Message
<1>2. Whole(h) <=> w.ok /\ w.at = Len(b) + 1
  BY <1>1 DEF Whole
<1>3. "skip" \in Rewriting /\ UdOk("skip", None)
  BY DEF Rewriting, UdOk
<1> HIDE DEF b, k
<1>4. ASSUME w.ok PROVE \E s : Chain(b, n + 3, k, s) /\ s[k] = w.at
  BY <1>1, <1>4, WalkIsChain
<1>5. ASSUME NEW s, Chain(b, n + 3, k, s) PROVE w.ok /\ w.at = s[k]
  <2>1. k \in 0..k
    BY <1>1
  <2>2. Along(b, s, k, w)
    BY <1>1, <1>3, <1>5, <2>1, ChainIsWalked
  <2> QED
    BY <2>2 DEF Along
<1> HIDE DEF w
<1>6. Whole(h) <=> \E s : Chain(b, n + 3, k, s) /\ s[k] = Len(b) + 1
  BY <1>2, <1>4, <1>5
<1> QED
  BY <1>6 DEF b, k

-----------------------------------------------------------------------------
(* Replies are well formed *)

(* What is kept of a good reply, or sent, has the records it announces. *)
WholeInv ==
  pc \in {"answer", "cached"} \/ (pc = "reply" /\ dns_is_good(m)) => Whole(m)

(* Rewriting the TTLs along a chain leaves the chain. *)
LEMMA RewrittenChain ==
  ASSUME NEW b \in Seq(Cells), NEW p \in Nat \ {0}, p <= Len(b) + 1, NEW n \in Nat, NEW s,
         Chain(b, p, n, s), NEW f \in Rewriting, NEW ud, UdOk(f, ud)
  PROVE  LET w == foreach_record(b, p, n, f, ud)
         IN /\ w.ok /\ w.at = s[n] /\ w.b \in Seq(Cells) /\ Len(w.b) = Len(b)
            /\ Chain(w.b, p, n, s)
            /\ \A i \in 1..n : skip_name(w.b, s[i - 1]) = skip_name(b, s[i - 1])
<1> DEFINE w == foreach_record(b, p, n, f, ud)
           R(i) == skip_name(b, s[i - 1])
<1>1. n \in 0..n /\ f \in Callbacks
  BY DEF Callbacks, Rewriting
<1>2. Along(b, s, n, w)
  BY <1>1, ChainIsWalked
<1>3. WalkFrom(f, b, p, w)
  BY <1>1, WalkInside
<1>4. ASSUME NEW i \in 1..n
      PROVE  /\ s[i - 1] \in Nat \ {0} /\ s[i] \in Nat \ {0} /\ R(i) \in Nat \ {0}
             /\ s[i - 1] < R(i) /\ R(i) + 3 < s[i] /\ R(i) + 3 <= Len(b)
  <2>1. s[i - 1] \in Nat \ {0} /\ s[i] \in Nat \ {0}
    BY ChainForward
  <2>2. IsRecord(b, s[i - 1], s[i])
    BY DEF Chain
  <2> QED
    BY <2>1, <2>2, RecordSpan
<1>5. \A i, j \in 0..n : i <= j => s[i] <= s[j]
  BY ChainForward
<1> HIDE DEF w
<1>6. /\ w.ok /\ w.at = s[n] /\ w.b \in Seq(Cells) /\ Len(w.b) = Len(b) /\ Len(b) \in Nat
      /\ \A j \in DOMAIN b : (\A k \in 1..n : j # R(k) + 2) => w.b[j] = b[j]
  <2>1. w.b \in Seq(Cells) /\ Len(w.b) = Len(b)
    BY <1>3 DEF WalkFrom, IsWalk
  <2>2. /\ w.ok /\ w.at = s[n]
        /\ \A j \in DOMAIN b : (\A k \in 1..n : j # R(k) + 2) => w.b[j] = b[j]
    BY <1>2 DEF Along
  <2>3. Len(b) \in Nat
    OBVIOUS
  <2> QED
    BY <2>1, <2>2, <2>3
<1> HIDE DEF R
<1>7. ASSUME NEW i \in 1..n, NEW k \in 1..n, i # k
      PROVE  R(k) + 2 < s[i - 1] \/ R(k) + 2 > R(i) + 3
  <2>1. CASE k < i
    <3>1. k \in 0..n /\ i - 1 \in 0..n /\ k <= i - 1
      BY <2>1
    <3>2. s[k] <= s[i - 1]
      BY <1>5, <3>1
    <3>3. s[k] \in Nat /\ s[i - 1] \in Nat /\ R(k) \in Nat /\ R(k) + 3 < s[k]
      BY <1>4
    <3> QED
      BY <3>2, <3>3
  <2>2. CASE i < k
    <3>1. k - 1 \in 0..n /\ i \in 0..n /\ i <= k - 1
      BY <2>2
    <3>2. s[i] <= s[k - 1]
      BY <1>5, <3>1
    <3>3. /\ s[i] \in Nat /\ s[k - 1] \in Nat /\ R(k) \in Nat /\ R(i) \in Nat
          /\ R(i) + 3 < s[i] /\ s[k - 1] < R(k)
      BY <1>4
    <3> QED
      BY <3>2, <3>3
  <2> QED
    BY <1>7, <2>1, <2>2
<1>8. ASSUME NEW i \in 1..n, NEW j \in s[i - 1]..(R(i) + 3), j # R(i) + 2 PROVE w.b[j] = b[j]
  <2>1. j \in DOMAIN b /\ j \in Nat
    <3>1. s[i - 1] \in Nat \ {0} /\ R(i) \in Nat /\ R(i) + 3 <= Len(b)
      BY <1>4
    <3>2. Len(b) \in Nat /\ DOMAIN b = 1..Len(b)
      BY <1>6
    <3>3. j \in 1..Len(b)
      BY <3>1, <3>2
    <3> QED
      BY <3>2, <3>3
  <2>2. ASSUME NEW k \in 1..n, j = R(k) + 2 PROVE FALSE
    <3>1. i # k
      BY <1>8, <2>2
    <3>2. R(k) + 2 < s[i - 1] \/ R(k) + 2 > R(i) + 3
      BY <1>7, <3>1
    <3>3. R(k) \in Nat /\ R(i) \in Nat /\ s[i - 1] \in Nat /\ s[i - 1] <= j /\ j <= R(i) + 3
      BY <1>4
    <3> QED
      BY <2>2, <3>2, <3>3
  <2> QED
    BY <1>6, <2>1, <2>2
<1>9. ASSUME NEW i \in 1..n
      PROVE  /\ \A j \in s[i - 1]..(R(i) - 1) : w.b[j] = b[j]
             /\ w.b[R(i) + 3] = b[R(i) + 3]
  <2>0. PICK x \in Nat, y \in Nat : x = s[i - 1] /\ y = R(i) /\ x < y
    BY <1>4
  <2>1. \A j \in s[i - 1]..(R(i) - 1) : j \in s[i - 1]..(R(i) + 3) /\ j # R(i) + 2
    <3>1. \A j \in x..(y - 1) : j \in x..(y + 3) /\ j # y + 2
      OBVIOUS
    <3> QED
      BY <2>0, <3>1
  <2>2. R(i) + 3 \in s[i - 1]..(R(i) + 3) /\ R(i) + 3 # R(i) + 2
    BY <2>0
  <2> QED
    BY <1>8, <2>1, <2>2
<1>10. s[n] <= Len(w.b) + 1
  <2>1. CASE n = 0
    BY <1>6, <2>1 DEF Chain
  <2>2. CASE n # 0
    <3>1. n \in 1..n
      BY <2>2
    <3>2. s[n] <= Len(b) + 1
      BY <3>1, ChainForward
    <3> QED
      BY <1>6, <3>2
  <2> QED
    BY <2>1, <2>2
<1>11. /\ Chain(w.b, p, n, s)
       /\ \A i \in 1..n : skip_name(w.b, s[i - 1]) = skip_name(b, s[i - 1])
  <2>1. \A i \in 1..n : /\ \A j \in s[i - 1]..(skip_name(b, s[i - 1]) - 1) : w.b[j] = b[j]
                        /\ w.b[skip_name(b, s[i - 1]) + 3] = b[skip_name(b, s[i - 1]) + 3]
    BY <1>9 DEF R
  <2>2. PICK c \in Seq(Cells) : c = w.b
    BY <1>6
  <2>3. SameRecords(b, c, n, s)
    BY <2>1, <2>2 DEF SameRecords
  <2>4. s[n] <= Len(c) + 1
    BY <1>10, <2>2
  <2>5. /\ Chain(c, p, n, s)
        /\ \A i \in 1..n : skip_name(c, s[i - 1]) = skip_name(b, s[i - 1])
    BY <2>3, <2>4, ChainSame
  <2> QED
    BY <2>2, <2>5
<1> QED
  BY <1>6, <1>11 DEF w

(* A whole message stays so when its TTLs are rewritten, and the walk over  *)
(* it succeeds: the assertions of dns_update_ttl.                           *)
LEMMA RewrittenWhole ==
  ASSUME NEW h \in Message, NEW n, Asks(h.body, n), Whole(h), NEW f \in Rewriting, NEW ud, UdOk(f, ud)
  PROVE  LET w == foreach_record(h.body, FirstRecord(n), h.an + h.ns + h.ar, f, ud)
         IN /\ w.ok /\ w.at = Len(h.body) + 1 /\ w.b \in Seq(Cells) /\ Asks(w.b, n)
            /\ Whole([h EXCEPT !.body = w.b]) /\ [h EXCEPT !.body = w.b] \in Message
<1> DEFINE b == h.body
           k == h.an + h.ns + h.ar
           w == foreach_record(b, FirstRecord(n), k, f, ud)
           g == [h EXCEPT !.body = w.b]
<1>1. /\ b \in Seq(Cells) /\ n + 3 \in Nat \ {0} /\ n + 3 <= Len(b) + 1 /\ FirstRecord(n) = n + 3
      /\ k \in Nat /\ f \in Callbacks
  BY FirstRecordIs DEF Asks, Message, Callbacks, Rewriting
<1>2. PICK s : Chain(b, n + 3, k, s) /\ s[k] = Len(b) + 1
  BY WholeIsChain
<1>3. Asks(w.b, n)
  BY <1>1, RecordsInside
<1>4. /\ w.ok /\ w.at = s[k] /\ w.b \in Seq(Cells) /\ Len(w.b) = Len(b)
      /\ Chain(w.b, n + 3, k, s)
  <2> HIDE DEF b, k
  <2> QED
    BY <1>1, <1>2, RewrittenChain
<1> HIDE DEF w
<1>5. g \in Message /\ g.body = w.b /\ g.an = h.an /\ g.ns = h.ns /\ g.ar = h.ar
  BY <1>4 DEF Message
<1>6. Whole(g)
  <2> HIDE DEF g
  <2> QED
    BY <1>2, <1>3, <1>4, <1>5, WholeIsChain
<1> QED
  BY <1>2, <1>3, <1>4, <1>5, <1>6 DEF w

(* A record that begins with a pointer. *)
LEMMA PointerRecord ==
  ASSUME NEW b \in Seq(Cells), NEW q \in Nat \ {0}, q + 5 <= Len(b), b[q] >= PtrMin,
         q + 5 + b[q + 5] <= Len(b)
  PROVE  IsRecord(b, q, q + 6 + b[q + 5])
<1>1. b[q] \in Nat /\ b[q + 5] \in Nat /\ Len(b) \in Nat
  <2>1. q \in 1..Len(b) /\ q + 5 \in 1..Len(b)
    OBVIOUS
  <2>2. b[q] \in Cells /\ b[q + 5] \in Cells
    BY <2>1
  <2>3. Len(b) \in Nat
    OBVIOUS
  <2> QED
    BY <2>2, <2>3, Limits
<1>2. b[q] \notin 1..LabelMax /\ b[q] # 0
  BY <1>1, Limits
<1>3. Hop(b, q) = q
  BY <1>2 DEF Hop
<1>4. LabelAt(b, q, 0) = q
  BY LabelSteps
<1>5. LabelAt(b, q, Len(b)) = q
  <2>1. 0 \in Nat /\ 0 <= Len(b)
    BY <1>1
  <2> QED
    BY <1>1, <1>3, <1>4, <2>1, LabelsSettled
<1>6. NameEnd(b, q) = q + 2
  BY <1>1, <1>2, <1>5 DEF NameEnd, LabelsEndAt
<1>7. skip_name(b, q) = q + 2
  BY <1>1, <1>6, Sizes DEF skip_name
<1>8. PICK x \in Nat : x = b[q + 5]
  BY <1>1
<1>9. q + 2 # 0 /\ (q + 2) + 3 = q + 5 /\ (q + 2) + 4 + x = q + 6 + x /\ (q + 6 + x) - 1 <= Len(b)
  BY <1>1, <1>8
<1> QED
  BY <1>7, <1>8, <1>9 DEF IsRecord

(* The records of local_rr behind a question. *)
LEMMA LocalAnswerChain ==
  ASSUME NEW q \in Seq(Cells), NEW n \in Nat, Len(q) = n + 2
  PROVE  LET b == q \o LocalAnswer.cells
         IN \E s : Chain(b, n + 3, LocalAnswer.n, s) /\ s[LocalAnswer.n] = Len(b) + 1
<1> DEFINE c == LocalAnswer.cells
           k == LocalAnswer.n
           b == q \o c
<1>1. /\ c \in Seq(Cells) /\ k \in Nat
      /\ \E start \in [0..k -> 1..(Len(c) + 1)] :
           /\ start[0] = 1 /\ start[k] = Len(c) + 1
           /\ \A i \in 1..k : /\ start[i - 1] + 1 + RecordLen <= Len(c) /\ c[start[i - 1]] >= PtrMin
                              /\ start[i] = start[i - 1] + 2 + RecordLen + c[start[i - 1] + 5]
  BY LocalAnswerAssumption
<1> HIDE DEF c, k
<1>2. PICK start \in [0..k -> 1..(Len(c) + 1)] :
        /\ start[0] = 1 /\ start[k] = Len(c) + 1
        /\ \A i \in 1..k : /\ start[i - 1] + 5 <= Len(c) /\ c[start[i - 1]] >= PtrMin
                           /\ start[i] = start[i - 1] + 6 + c[start[i - 1] + 5]
  <2>1. PICK start \in [0..k -> 1..(Len(c) + 1)] :
          /\ start[0] = 1 /\ start[k] = Len(c) + 1
          /\ \A i \in 1..k : /\ start[i - 1] + 1 + RecordLen <= Len(c) /\ c[start[i - 1]] >= PtrMin
                             /\ start[i] = start[i - 1] + 2 + RecordLen + c[start[i - 1] + 5]
    BY <1>1
  <2>2. ASSUME NEW i \in 1..k
        PROVE  /\ start[i - 1] + 5 <= Len(c) /\ c[start[i - 1]] >= PtrMin
               /\ start[i] = start[i - 1] + 6 + c[start[i - 1] + 5]
    <3>0. i - 1 \in 0..k /\ Len(c) \in Nat
      BY <1>1
    <3>1. start[i - 1] \in Nat /\ Len(c) \in Nat
      BY <2>1, <3>0
    <3>2. start[i - 1] + 1 + 4 <= Len(c) /\ c[start[i - 1]] >= PtrMin
      BY <2>1, Sizes
    <3>3. start[i] = start[i - 1] + 2 + 4 + c[start[i - 1] + 5]
      BY <2>1, Sizes
    <3>4. start[i - 1] + 5 \in 1..Len(c)
      BY <3>1, <3>2
    <3>5. c[start[i - 1] + 5] \in Nat
      <4>1. c[start[i - 1] + 5] \in Cells
        BY <1>1, <3>4
      <4> QED
        BY <4>1, Limits
    <3> QED
      BY <3>1, <3>2, <3>3, <3>5
  <2> QED
    BY <2>1, <2>2
<1>3. /\ b \in Seq(Cells) /\ Len(b) = n + 2 + Len(c) /\ Len(c) \in Nat
      /\ \A i \in 1..Len(c) : b[n + 2 + i] = c[i]
  <2>1. /\ b \in Seq(Cells) /\ Len(b) = Len(q) + Len(c)
        /\ \A i \in 1..(Len(q) + Len(c)) : b[i] = IF i <= Len(q) THEN q[i] ELSE c[i - Len(q)]
    BY <1>1, ConcatProperties
  <2>2. Len(c) \in Nat
    BY <1>1
  <2> HIDE DEF b
  <2>3. ASSUME NEW i \in 1..Len(c) PROVE b[n + 2 + i] = c[i]
    <3>1. n + 2 + i \in 1..(Len(q) + Len(c)) /\ ~(n + 2 + i <= Len(q)) /\ (n + 2 + i) - Len(q) = i
      BY <2>2
    <3> QED
      BY <2>1, <3>1
  <2> QED
    BY <2>1, <2>2, <2>3
<1> HIDE DEF b
<1> DEFINE s == [i \in 0..k |-> n + 2 + start[i]]
<1>4. s \in [0..k -> Nat \ {0}] /\ s[0] = n + 3 /\ s[k] = Len(b) + 1
  <2>1. \A i \in 0..k : start[i] \in Nat /\ n + 2 + start[i] \in Nat \ {0}
    BY <1>2, <1>3
  <2>2. 0 \in 0..k /\ k \in 0..k
    BY <1>1
  <2> QED
    BY <1>2, <1>3, <2>1, <2>2
<1>5. ASSUME NEW i \in 1..k PROVE IsRecord(b, s[i - 1], s[i])
  <2>1. i - 1 \in 0..k /\ i \in 0..k
    BY <1>1
  <2>2. PICK x \in Nat \ {0} : x = start[i - 1] /\ x + 5 <= Len(c)
    BY <1>2, <2>1
  <2>3. x \in 1..Len(c) /\ x + 5 \in 1..Len(c)
    BY <1>3, <2>2
  <2>4. c[x] >= PtrMin /\ start[i] = x + 6 + c[x + 5] /\ start[i] \in 1..(Len(c) + 1)
    BY <1>2, <2>1, <2>2
  <2>5. c[x + 5] \in Nat
    <3>1. c[x + 5] \in Cells
      BY <1>1, <2>3
    <3> QED
      BY <3>1, Limits
  <2> DEFINE y == n + 2 + x
  <2>6. y \in Nat \ {0} /\ y + 5 <= Len(b) /\ y = s[i - 1] /\ y + 5 = n + 2 + (x + 5)
    <3>1. s[i - 1] = n + 2 + start[i - 1]
      BY <2>1
    <3>2. Len(b) = n + 2 + Len(c) /\ Len(c) \in Nat
      BY <1>3
    <3>3. y \in Nat \ {0} /\ y + 5 <= Len(b) /\ y + 5 = n + 2 + (x + 5)
      <4>1. PICK l \in Nat : l = Len(c)
        BY <3>2
      <4>2. Len(b) = n + 2 + l /\ x + 5 <= l
        BY <2>2, <3>2, <4>1
      <4> HIDE DEF s
      <4> QED
        BY <4>2
    <3> QED
      BY <2>2, <3>1, <3>3
  <2>7. b[y] = c[x] /\ b[y + 5] = c[x + 5]
    <3>1. b[n + 2 + x] = c[x] /\ b[n + 2 + (x + 5)] = c[x + 5]
      <4>1. \A j \in 1..Len(c) : b[n + 2 + j] = c[j]
        BY <1>3
      <4> HIDE DEF s, y
      <4> QED
        BY <2>3, <4>1
    <3>2. y + 5 = n + 2 + (x + 5)
      BY <2>6
    <3> QED
      BY <3>1, <3>2
  <2>8. y + 5 + b[y + 5] <= Len(b) /\ s[i] = y + 6 + b[y + 5]
    BY <1>3, <2>1, <2>4, <2>5, <2>7
  <2>9. b[y] >= PtrMin
    BY <2>4, <2>7
  <2> HIDE DEF s, y
  <2>10. IsRecord(b, y, y + 6 + b[y + 5])
    BY <1>3, <2>6, <2>8, <2>9, PointerRecord
  <2> QED
    BY <2>6, <2>8, <2>10
<1> HIDE DEF s
<1>6. Chain(b, n + 3, k, s)
  BY <1>4, <1>5 DEF Chain
<1> QED
  BY <1>4, <1>6 DEF b, c, k

(* A good reply that is kept ends with the last record it announces. *)
LEMMA WholeCheckReply ==
  ASSUME MsgInv, NEW decode, CheckReply(decode)
  PROVE  WholeInv'
<1> DEFINE n == QnameLen(m.body)
           b == m.body
           k == m.an + m.ns
           w == foreach_record(b, FirstRecord(n), k, "skip", None)
<1>0. m \in Message
  BY DEF MsgInv
<1>1. b \in Seq(Cells) /\ Len(b) \in Nat /\ k \in Nat /\ m.an \in Nat /\ m.ns \in Nat
  BY <1>0 DEF Message
<1>2. CASE pc' = "dropped"
  BY <1>2 DEF WholeInv
<1>3. CASE ~dns_is_good(m) /\ m' = [m EXCEPT !.ra = 1] /\ pc' = "reply"
  <2>1. m'.tc = m.tc /\ m'.rcode = m.rcode
    BY <1>0, <1>3 DEF Message
  <2>2. ~dns_is_good(m')
    BY <1>3, <2>1 DEF dns_is_good
  <2> QED
    BY <1>3, <2>2 DEF WholeInv
<1>4. CASE check_msg(m, 1, decode) /\ w.ok /\ m' = [rm_additional(m, w.at) EXCEPT !.ra = 1]
  <2>1. Asks(b, n)
    BY <1>0, <1>4, CheckedAsks
  <2>2. FirstRecord(n) = n + 3 /\ n + 3 \in Nat \ {0} /\ n + 3 <= Len(b) + 1 /\ n \in Nat
    BY <2>1, FirstRecordIs
  <2>3. PICK s : Chain(b, n + 3, k, s) /\ s[k] = w.at
    <3> HIDE DEF b, k, n
    <3> QED
      BY <1>1, <1>4, <2>2, WalkIsChain
  <2>4. "skip" \in Callbacks /\ UdOk("skip", None)
    BY DEF Callbacks, UdOk
  <2>5. w.at \in Nat /\ n + 3 <= w.at /\ w.at <= Len(b) + 1
    BY <1>1, <2>1, <2>4, RecordsInside
  <2> DEFINE c == SubSeq(b, 1, w.at - 1)
  <2> HIDE DEF w
  <2>6. w.at - 1 \in Nat /\ n + 2 <= w.at - 1 /\ w.at - 1 <= Len(b)
    <3> HIDE DEF b, n
    <3> QED
      BY <1>1, <2>2, <2>5
  <2>7. Asks(c, n) /\ Len(c) = w.at - 1 /\ \A i \in 1..(w.at - 1) : c[i] = b[i]
    BY <2>1, <2>6, CutAsks
  <2>8. c \in Seq(Cells)
    BY <2>7 DEF Asks
  <2>9. m' = [m EXCEPT !.ar = 0, !.body = c, !.ra = 1]
    BY <1>0, <1>4 DEF rm_additional, Message, w
  <2> HIDE DEF c
  <2>10. m' \in Message /\ m'.body = c /\ m'.an + m'.ns + m'.ar = k
    <3>1. m' \in Message /\ m'.body = c /\ m'.an = m.an /\ m'.ns = m.ns /\ m'.ar = 0
      BY <1>0, <2>8, <2>9 DEF Message
    <3>2. m.an + m.ns + 0 = m.an + m.ns
      BY <1>1
    <3> QED
      BY <3>1, <3>2
  <2> HIDE DEF b, k, n
  <2>11. \A i \in 1..k : /\ s[i - 1] \in Nat \ {0} /\ s[i] <= w.at
                         /\ IsRecord(b, s[i - 1], s[i])
    <3>1. \A i, j \in 0..k : i <= j => s[i] <= s[j]
      BY <1>1, <2>2, <2>3, ChainForward
    <3>2. \A i \in 1..k : s[i] <= s[k]
      BY <1>1, <3>1
    <3>3. \A i \in 1..k : s[i - 1] \in Nat \ {0}
      BY <1>1, <2>2, <2>3, ChainForward
    <3>4. \A i \in 1..k : IsRecord(b, s[i - 1], s[i])
      BY <2>3 DEF Chain
    <3> QED
      BY <2>3, <3>2, <3>3, <3>4
  <2>12. SameRecords(b, c, k, s)
    <3> SUFFICES ASSUME NEW i \in 1..k
                 PROVE  /\ \A j \in s[i - 1]..(skip_name(b, s[i - 1]) - 1) : c[j] = b[j]
                        /\ c[skip_name(b, s[i - 1]) + 3] = b[skip_name(b, s[i - 1]) + 3]
      BY DEF SameRecords
    <3>1. PICK r \in Nat \ {0} : r = skip_name(b, s[i - 1]) /\ r + 3 < s[i] /\ s[i] \in Nat
      BY <1>1, <2>11, RecordSpan
    <3>2. PICK q \in Nat \ {0} : q = s[i - 1]
      BY <2>11
    <3>3. s[i] <= w.at
      BY <2>11
    <3>4. \A j \in q..(r + 3) : j \in 1..(w.at - 1)
      BY <2>5, <3>1, <3>3
    <3>5. r + 3 \in 1..(w.at - 1) /\ \A j \in q..(r - 1) : j \in 1..(w.at - 1)
      BY <2>5, <3>1, <3>3, <3>4
    <3> QED
      BY <2>7, <3>1, <3>2, <3>5
  <2>13. s[k] <= Len(c) + 1 /\ s[k] = Len(c) + 1
    BY <2>3, <2>5, <2>7
  <2>14. Chain(c, n + 3, k, s)
    BY <1>1, <2>2, <2>3, <2>8, <2>12, <2>13, ChainSame
  <2>15. PICK h : h = m'
    OBVIOUS
  <2>16. Whole(h)
    BY <2>7, <2>10, <2>13, <2>14, <2>15, WholeIsChain
  <2>17. Whole(m)'
    BY <2>15, <2>16 DEF Whole
  <2> QED
    BY <2>17 DEF WholeInv
<1> QED
  BY <1>2, <1>3, <1>4 DEF CheckReply

(* What the server makes itself has no records or those of local_rr. *)
LEMMA WholeAnswer ==
  ASSUME MsgInv, Answer
  PROVE  WholeInv'
<1>1. PICK h : h = m'
  OBVIOUS
<1>2. /\ h \in Message /\ Asks(h.body, qnamelen) /\ h.ns = 0 /\ h.ar = 0
      /\ \/ h.an = 0 /\ Len(h.body) = qnamelen + 2
         \/ /\ h.an = LocalAnswer.n
            /\ \E q : q \in Seq(Cells) /\ Len(q) = qnamelen + 2 /\ h.body = q \o LocalAnswer.cells
  BY <1>1, AnswerIs
<1>3. qnamelen \in Nat
  BY <1>2, FirstRecordIs
<1>4. h.an \in Nat /\ h.an + h.ns + h.ar = h.an
  BY <1>2 DEF Message
<1>5. \E s : Chain(h.body, qnamelen + 3, h.an, s) /\ s[h.an] = Len(h.body) + 1
  <2>1. CASE h.an = 0 /\ Len(h.body) = qnamelen + 2
    <3> DEFINE s == [i \in 0..0 |-> qnamelen + 3]
    <3>1. s \in [0..0 -> Nat \ {0}] /\ s[0] = qnamelen + 3 /\ 1..0 = {}
      BY <1>3
    <3>2. Chain(h.body, qnamelen + 3, 0, s)
      BY <3>1 DEF Chain
    <3>3. s[0] = Len(h.body) + 1
      BY <1>3, <2>1, <3>1
    <3> QED
      BY <2>1, <3>2, <3>3
  <2>2. CASE /\ h.an = LocalAnswer.n
             /\ \E q : q \in Seq(Cells) /\ Len(q) = qnamelen + 2 /\ h.body = q \o LocalAnswer.cells
    BY <1>3, <2>2, LocalAnswerChain
  <2> QED
    BY <1>2, <2>1, <2>2
<1>6. Whole(h)
  BY <1>2, <1>4, <1>5, WholeIsChain
<1>7. Whole(m)'
  BY <1>1, <1>6 DEF Whole
<1> QED
  BY <1>7 DEF WholeInv

(* Rewriting TTLs, for the cache and in it, keeps the records. *)
LEMMA WholeRewritten ==
  ASSUME MsgInv, pc \in Parsed, Whole(m), NEW f \in Rewriting, NEW ud, UdOk(f, ud),
         m' = [m EXCEPT !.body =
                 foreach_record(m.body, FirstRecord(qnamelen), m.an + m.ns + m.ar, f, ud).b]
  PROVE  WholeInv'
<1>1. PICK h : h = m'
  OBVIOUS
<1>2. m \in Message /\ Asks(m.body, qnamelen)
  BY DEF MsgInv
<1>3. Whole(h)
  BY <1>1, <1>2, RewrittenWhole
<1>4. Whole(m)'
  BY <1>1, <1>3 DEF Whole
<1> QED
  BY <1>4 DEF WholeInv

(* Every step keeps messages whole. *)
LEMMA WholeNext ==
  ASSUME MsgInv, WholeInv, [Next]_vars
  PROVE  WholeInv'
<1>1. CASE UNCHANGED vars
  BY <1>1 DEF vars, WholeInv, Whole, dns_is_good
<1>2. ASSUME NEW decode, CheckQuery(decode) PROVE WholeInv'
  <2>1. pc' \in {"bad", "query"}
    BY <1>2 DEF CheckQuery
  <2> QED
    BY <2>1 DEF WholeInv
<1>3. CASE GetBufsz \/ TestIp \/ AddIp
  <2>1. UNCHANGED <<pc, m>>
    BY <1>3 DEF GetBufsz, TestIp, AddIp
  <2> QED
    BY <2>1 DEF WholeInv, Whole, dns_is_good
<1>4. CASE CacheAdd
  <2>1. pc = "reply"
    BY <1>4 DEF CacheAdd
  <2>2. CASE pc' = "uncached"
    BY <2>2 DEF WholeInv
  <2>3. CASE dns_is_good(m) /\ m' = [m EXCEPT !.body = foreach_record(m.body, FirstRecord(qnamelen),
                                                 m.an + m.ns + m.ar, "get_ttl", FirstUd).b]
    <3>1. Whole(m) /\ "get_ttl" \in Rewriting /\ pc \in Parsed
      BY <2>1, <2>3 DEF WholeInv, Rewriting, Parsed
    <3> QED
      BY <2>3, <3>1, FirstUdOk, WholeRewritten
  <2> QED
    BY <1>4, <2>2, <2>3 DEF CacheAdd, FirstUd
<1>5. ASSUME NEW d \in 1..MaxElapsed, UpdateTtl(d) PROVE WholeInv'
  <2>1. /\ Whole(m) /\ "update_ttl" \in Rewriting /\ pc \in Parsed
    BY <1>5 DEF WholeInv, Rewriting, UpdateTtl, Parsed
  <2>2. UdOk("update_ttl", -d)
    <3>1. -d \in Int
      OBVIOUS
    <3> QED
      BY <3>1 DEF UdOk
  <2>3. m' = [m EXCEPT !.body = foreach_record(m.body, FirstRecord(qnamelen), m.an + m.ns + m.ar,
                                               "update_ttl", -d).b]
    BY <1>5 DEF UpdateTtl
  <2> QED
    BY <2>1, <2>2, <2>3, WholeRewritten
<1> QED
  BY <1>1, <1>2, <1>3, <1>4, <1>5, WholeCheckReply, WholeAnswer DEF Next

(* What the server makes of a question it understood, and what it keeps of  *)
(* a good reply, passes its own check and has exactly the records its       *)
(* header announces.                                                        *)
THEOREM RepliesAreWellFormedHolds == Spec => []RepliesAreWellFormed
<1>1. Init => WholeInv
  BY DEF Init, WholeInv
<1>2. ASSUME MsgInv, WholeInv PROVE RepliesAreWellFormed
  <2> SUFFICES ASSUME pc = "answer" \/ (pc \in {"reply", "cached"} /\ dns_is_good(m))
               PROVE  check_msg(m, 1, FALSE) /\ Whole(m)
    BY DEF RepliesAreWellFormed
  <2>1. Whole(m)
    BY <1>2 DEF WholeInv
  <2>2. Asks(m.body, qnamelen) /\ m.qd = 1 /\ m.qr = 1
    BY <1>2 DEF MsgInv, Parsed
  <2>3. /\ QnameLen(m.body) = qnamelen /\ qnamelen \in 1..WireMax /\ qnamelen + 2 <= Len(m.body)
        /\ Len(m.body) \in Nat /\ WireMax \in Nat
    BY <2>2, FirstRecordIs, Sizes, WireAssumption DEF Asks
  <2>4. Len(m.body) >= 1 + QuestionLen /\ Len(m.body) - qnamelen >= QuestionLen
    BY <2>3, Sizes
  <2> QED
    BY <2>1, <2>2, <2>3, <2>4 DEF check_msg
<1> QED
  BY <1>1, <1>2, MsgInvInit, MsgInvNext, WholeNext, PTL DEF Spec

-----------------------------------------------------------------------------
(* The TTLs of a cached message *)

(* A number that fits comes back from a cell as it was. *)
LEMMA SignedRoundTrip ==
  ASSUME NEW x \in Int, -(2 ^ (Bits - 1)) <= x, x < 2 ^ (Bits - 1)
  PROVE  Signed(Unsigned(x)) = x
<1>1. PICK h \in Nat : h = 2 ^ (Bits - 1) /\ h >= 4
  BY Limits
<1>2. PICK d \in Nat \ {0} : d = 2 ^ Bits /\ d = 2 * h
  BY <1>1, Limits
<1>3. Unsigned(x) = x % d
  BY <1>2 DEF Unsigned
<1>4. \A y : Signed(y) = IF y >= h THEN y - d ELSE y
  BY <1>1, <1>2 DEF Signed
<1>5. -h <= x /\ x < h
  BY <1>1
<1>6. CASE x >= 0
  <2>1. x \in Nat /\ x < d /\ 0 \in Int /\ x = 0 * d + x
    BY <1>2, <1>5, <1>6
  <2>2. x % d = x
    BY <2>1, RemainderIsUnique
  <2> QED
    BY <1>3, <1>4, <1>5, <2>2
<1>7. CASE x < 0
  <2>1. x + d \in Nat /\ x + d < d /\ -1 \in Int /\ x = (-1) * d + (x + d)
    BY <1>2, <1>5, <1>7
  <2>2. x % d = x + d
    BY <2>1, RemainderIsUnique
  <2>3. x + d >= h
    BY <1>2, <1>5
  <2> QED
    BY <1>2, <1>3, <1>4, <2>2, <2>3
<1> QED
  BY <1>6, <1>7

(* So is a positive one without a conversion. *)
LEMMA SignedPositive ==
  ASSUME NEW x \in Int, 0 <= x, x < 2 ^ (Bits - 1)
  PROVE  Signed(x) = x
BY Limits DEF Signed

(* Bounding a TTL. *)
LEMMA BoundedTtl ==
  ASSUME NEW x \in Int, -(2 ^ (Bits - 1)) <= x, x < 2 ^ (Bits - 1), NEW lo \in Ttls, NEW hi \in Ttls
  PROVE  LET y == Bounded(x, lo, hi)
         IN /\ y \in Int /\ -(2 ^ (Bits - 1)) <= y /\ y < 2 ^ (Bits - 1)
            /\ y >= 1 => y >= lo \/ y = hi
            /\ hi > 0 => y <= hi
<1>1. PICK h \in Nat : h = 2 ^ (Bits - 1)
  BY Limits
<1>2. lo \in Nat /\ lo < h /\ hi \in Nat /\ hi < h /\ -h <= x /\ x < h
  BY <1>1 DEF Ttls
<1> QED
  BY <1>1, <1>2 DEF Bounded, Larger

(* What get_ttl does with a record at r. *)
LEMMA GetTtlSees ==
  ASSUME NEW w, IsWalk(w), w.ud \in GetTtlUd, NEW r \in Nat \ {0}, r + 3 < w.at
  PROVE  LET v == Callback("get_ttl", w, r)
             ttl == Bounded(Signed(w.b[r + 2]), w.ud.min, w.ud.max)
         IN /\ v.ud \in GetTtlUd
            /\ w.b[r] = OPT => v = w
            /\ w.b[r] # OPT =>
                 /\ v.b[r + 2] = Unsigned(ttl)
                 /\ v.ud = [w.ud EXCEPT !.nodata = FALSE,
                              !.ttl = IF w.ud.nodata \/ ttl < w.ud.ttl THEN ttl ELSE w.ud.ttl]
<1> DEFINE ttl == Bounded(Signed(w.b[r + 2]), w.ud.min, w.ud.max)
           v == [w EXCEPT !.b[r + 2] = Unsigned(ttl)]
           least == IF w.ud.nodata \/ ttl < w.ud.ttl THEN ttl ELSE w.ud.ttl
           u == [w.ud EXCEPT !.nodata = FALSE, !.ttl = least]
<1>1. Callback("get_ttl", w, r) = get_ttl(w, r)
  BY DEF Callback
<1>2. /\ DOMAIN w = {"b", "at", "far", "ok", "stop", "ud"}
      /\ w.b \in Seq(Cells) /\ w.at \in Nat \ {0} /\ w.at <= Len(w.b) + 1 /\ Len(w.b) \in Nat
  BY DEF IsWalk
<1>3. r + 2 \in 1..Len(w.b)
  BY <1>2
<1>4. ttl \in Int
  <2>0. w.b[r + 2] \in Cells
    BY <1>2, <1>3
  <2>1. Signed(w.b[r + 2]) \in Int
    BY <2>0, CellValues
  <2> QED
    BY <2>1 DEF Larger, Bounded, GetTtlUd
<1>5. Unsigned(ttl) \in Cells
  BY <1>4, CellValues
<1> HIDE DEF ttl
<1>6. get_ttl(w, r) = IF w.b[r] = OPT THEN w ELSE [v EXCEPT !.ud = u]
  <2>1. [w EXCEPT !.b[r + 2] = Unsigned(ttl), !.ud.nodata = FALSE, !.ud.ttl = least]
          = [v EXCEPT !.ud = u]
    BY <1>2 DEF GetTtlUd
  <2> QED
    BY <2>1 DEF get_ttl, ttl, rtype
<1>7. u \in GetTtlUd
  BY <1>4 DEF GetTtlUd
<1>8. IsWalk(v) /\ v.b[r + 2] = Unsigned(ttl)
  BY <1>3, <1>5, WriteCell
<1> HIDE DEF v, u
<1>9. PICK x : x = [v EXCEPT !.ud = u]
  OBVIOUS
<1>10. x.ud = u /\ x.b = v.b
  BY <1>8, <1>9 DEF IsWalk
<1> QED
  BY <1>1, <1>6, <1>7, <1>8, <1>9, <1>10 DEF u, ttl

(* What update_ttl does with it. *)
LEMMA UpdateTtlSees ==
  ASSUME NEW w, IsWalk(w), w.ud \in Int, NEW r \in Nat \ {0}, r + 3 < w.at
  PROVE  LET v == Callback("update_ttl", w, r)
         IN /\ v.ud = w.ud
            /\ w.b[r] # OPT => v.b[r + 2] = Larger(Signed(Unsigned(Signed(w.b[r + 2]) + w.ud)), 1)
<1> DEFINE x == Larger(Signed(Unsigned(Signed(w.b[r + 2]) + w.ud)), 1)
           v == [w EXCEPT !.b[r + 2] = x]
<1>1. Callback("update_ttl", w, r) = update_ttl(w, r)
  BY DEF Callback
<1>2. /\ DOMAIN w = {"b", "at", "far", "ok", "stop", "ud"}
      /\ w.b \in Seq(Cells) /\ w.at \in Nat \ {0} /\ w.at <= Len(w.b) + 1 /\ Len(w.b) \in Nat
  BY DEF IsWalk
<1>3. r + 2 \in 1..Len(w.b)
  BY <1>2
<1>4. x \in Cells
  <2>0. w.b[r + 2] \in Cells
    BY <1>2, <1>3
  <2>1. Signed(w.b[r + 2]) \in Int
    BY <2>0, CellValues
  <2>2. Signed(w.b[r + 2]) + w.ud \in Int
    BY <2>1
  <2> QED
    BY <2>2, CellValues
<1>5. update_ttl(w, r) = IF w.b[r] = OPT THEN w ELSE v
  BY <1>2, <1>3 DEF update_ttl, rtype
<1> HIDE DEF x
<1>6. v.ud = w.ud /\ v.b[r + 2] = x
  BY <1>3, <1>4, WriteCell
<1> HIDE DEF v
<1> QED
  BY <1>1, <1>5, <1>6 DEF x

\* where the name of record i of the chain s of b ends
Rec(b, s, i) == skip_name(b, s[i - 1])

(* The records of a chain keep apart. *)
LEMMA RecApart ==
  ASSUME NEW b \in Seq(Cells), NEW p \in Nat \ {0}, NEW n \in Nat, NEW s, Chain(b, p, n, s)
  PROVE  /\ \A i \in 1..n : /\ Rec(b, s, i) \in Nat \ {0} /\ s[i] \in Nat \ {0}
                            /\ s[i - 1] \in Nat \ {0} /\ s[i - 1] < Rec(b, s, i)
                            /\ Rec(b, s, i) + 3 < s[i] /\ Rec(b, s, i) + 3 <= Len(b)
         /\ \A i, j \in 1..n : i < j => Rec(b, s, i) + 3 < Rec(b, s, j)
<1>1. ASSUME NEW i \in 1..n
      PROVE  /\ Rec(b, s, i) \in Nat \ {0} /\ s[i] \in Nat \ {0}
             /\ s[i - 1] \in Nat \ {0} /\ s[i - 1] < Rec(b, s, i)
             /\ Rec(b, s, i) + 3 < s[i] /\ Rec(b, s, i) + 3 <= Len(b)
  <2>1. s[i - 1] \in Nat \ {0} /\ s[i] \in Nat \ {0}
    BY ChainForward
  <2>2. IsRecord(b, s[i - 1], s[i])
    BY DEF Chain
  <2> QED
    BY <2>1, <2>2, RecordSpan DEF Rec
<1>2. ASSUME NEW i \in 1..n, NEW j \in 1..n, i < j PROVE Rec(b, s, i) + 3 < Rec(b, s, j)
  <2>1. i \in 0..n /\ j - 1 \in 0..n /\ i <= j - 1
    BY <1>2
  <2>2. \A k, l \in 0..n : k <= l => s[k] <= s[l]
    BY ChainForward
  <2>3. s[i] <= s[j - 1]
    BY <2>1, <2>2
  <2>4. /\ Rec(b, s, i) \in Nat /\ s[i] \in Nat /\ Rec(b, s, i) + 3 < s[i]
        /\ Rec(b, s, j) \in Nat /\ s[j - 1] \in Nat /\ s[j - 1] < Rec(b, s, j)
    BY <1>1
  <2> QED
    BY <2>3, <2>4
<1> QED
  BY <1>1, <1>2

(* The records of a message are those of its chain. *)
LEMMA RecordsOfChain ==
  ASSUME NEW b \in Seq(Cells), NEW p \in Nat \ {0}, p <= Len(b) + 1, NEW n \in Nat, NEW s,
         Chain(b, p, n, s)
  PROVE  RecordsOf(b, p, n) = {Rec(b, s, i) : i \in 1..n}
<1>1. "skip" \in Rewriting /\ UdOk("skip", None)
  BY DEF Rewriting, UdOk
<1>2. ASSUME NEW i \in 0..(n - 1)
      PROVE  skip_name(b, foreach_record(b, p, i, "skip", None).at) = Rec(b, s, i + 1)
  <2>1. i \in 0..n /\ (i + 1) - 1 = i
    OBVIOUS
  <2>2. Along(b, s, i, foreach_record(b, p, i, "skip", None))
    BY <1>1, <2>1, ChainIsWalked
  <2> QED
    BY <2>1, <2>2 DEF Along, Rec
<1>3. ASSUME NEW r \in RecordsOf(b, p, n) PROVE r \in {Rec(b, s, i) : i \in 1..n}
  <2>1. PICK i \in 0..(n - 1) : r = skip_name(b, foreach_record(b, p, i, "skip", None).at)
    BY DEF RecordsOf
  <2>2. r = Rec(b, s, i + 1) /\ i + 1 \in 1..n
    BY <1>2, <2>1
  <2> QED
    BY <2>2
<1>4. ASSUME NEW i \in 1..n PROVE Rec(b, s, i) \in RecordsOf(b, p, n)
  <2>1. i - 1 \in 0..(n - 1) /\ (i - 1) + 1 = i
    OBVIOUS
  <2>2. skip_name(b, foreach_record(b, p, i - 1, "skip", None).at) = Rec(b, s, i)
    BY <1>2, <2>1
  <2> QED
    BY <2>1, <2>2 DEF RecordsOf
<1> QED
  BY <1>3, <1>4

\* the TTL that record i of the chain is given by get_ttl
NewTtl(b, s, i, ud) == Bounded(Signed(b[Rec(b, s, i) + 2]), ud.min, ud.max)

\* what ud has come to after i records
LeastTtl(b, s, i, ud, u) ==
  /\ u \in GetTtlUd /\ u.min = ud.min /\ u.max = ud.max
  /\ u.nodata => u.ttl = ud.ttl /\ \A k \in 1..i : b[Rec(b, s, k)] = OPT
  /\ ~u.nodata => \E k \in 1..i : b[Rec(b, s, k)] # OPT /\ u.ttl = NewTtl(b, s, k, ud)
  /\ ~u.nodata => \A k \in 1..i : b[Rec(b, s, k)] # OPT => u.ttl <= NewTtl(b, s, k, ud)

(* NewTtl is a number. *)
LEMMA NewTtlType ==
  ASSUME NEW b \in Seq(Cells), NEW p \in Nat \ {0}, NEW n \in Nat, NEW s, Chain(b, p, n, s),
         NEW ud \in GetTtlUd, NEW i \in 1..n
  PROVE  /\ NewTtl(b, s, i, ud) \in Int /\ b[Rec(b, s, i) + 2] \in Cells
         /\ Rec(b, s, i) \in DOMAIN b /\ Rec(b, s, i) + 2 \in DOMAIN b
<1>1. Rec(b, s, i) \in Nat \ {0} /\ Rec(b, s, i) + 3 <= Len(b)
  BY RecApart
<1>2. Rec(b, s, i) + 2 \in 1..Len(b) /\ Rec(b, s, i) \in 1..Len(b) /\ DOMAIN b = 1..Len(b)
  BY <1>1
<1>3. b[Rec(b, s, i) + 2] \in Cells
  BY <1>2
<1>4. Signed(b[Rec(b, s, i) + 2]) \in Int /\ ud.min \in Int /\ ud.max \in Int
  BY <1>3, CellValues DEF GetTtlUd
<1> QED
  BY <1>2, <1>3, <1>4 DEF NewTtl, Bounded, Larger

(* One more record for the least TTL. *)
LEMMA LeastTtlStep ==
  ASSUME NEW b \in Seq(Cells), NEW p \in Nat \ {0}, NEW n \in Nat, NEW s, Chain(b, p, n, s),
         NEW ud \in GetTtlUd, NEW i \in 1..n, NEW u, LeastTtl(b, s, i - 1, ud, u),
         NEW v, v \in GetTtlUd,
         b[Rec(b, s, i)] = OPT => v = u,
         LET ttl == NewTtl(b, s, i, ud)
         IN b[Rec(b, s, i)] # OPT =>
              v = [u EXCEPT !.nodata = FALSE, !.ttl = IF u.nodata \/ ttl < u.ttl THEN ttl ELSE u.ttl]
  PROVE  LeastTtl(b, s, i, ud, v)
<1> DEFINE T(k) == NewTtl(b, s, k, ud)
           Opt(k) == b[Rec(b, s, k)] = OPT
<1>0. /\ i - 1 \in Nat /\ i \in Nat /\ i \in 1..i
      /\ 1..i = 1..(i - 1) \cup {i} /\ 1..i \subseteq 1..n
  OBVIOUS
<1>1. /\ u \in GetTtlUd /\ u.min = ud.min /\ u.max = ud.max
      /\ u.nodata => u.ttl = ud.ttl /\ \A k \in 1..(i - 1) : Opt(k)
      /\ ~u.nodata => \E k \in 1..(i - 1) : ~Opt(k) /\ u.ttl = T(k)
      /\ ~u.nodata => \A k \in 1..(i - 1) : ~Opt(k) => u.ttl <= T(k)
  BY DEF LeastTtl
<1>2. \A k \in 1..n : T(k) \in Int
  BY NewTtlType
<1>3. Opt(i) => v = u
  OBVIOUS
<1>4. ~Opt(i) => v = [u EXCEPT !.nodata = FALSE,
                               !.ttl = IF u.nodata \/ T(i) < u.ttl THEN T(i) ELSE u.ttl]
  OBVIOUS
<1>5. u.nodata \in BOOLEAN /\ u.ttl \in Int
  BY <1>1 DEF GetTtlUd
<1> HIDE DEF T, Opt
<1>6. /\ v.min = ud.min /\ v.max = ud.max
      /\ v.nodata => v.ttl = ud.ttl /\ \A k \in 1..i : Opt(k)
      /\ ~v.nodata => \E k \in 1..i : ~Opt(k) /\ v.ttl = T(k)
      /\ ~v.nodata => \A k \in 1..i : ~Opt(k) => v.ttl <= T(k)
  <2>1. CASE Opt(i)
    BY <1>0, <1>1, <1>3, <2>1
  <2>2. CASE ~Opt(i)
    <3>1. /\ v.min = ud.min /\ v.max = ud.max /\ ~v.nodata
          /\ v.ttl = IF u.nodata \/ T(i) < u.ttl THEN T(i) ELSE u.ttl
      BY <1>1, <1>4, <2>2 DEF GetTtlUd
    <3>2. T(i) \in Int
      BY <1>2
    <3>3. CASE u.nodata
      <4>1. v.ttl = T(i)
        BY <3>1, <3>3
      <4>2. \A k \in 1..i : ~Opt(k) => v.ttl <= T(k)
        BY <1>0, <1>1, <3>2, <3>3, <4>1
      <4> QED
        BY <1>0, <2>2, <3>1, <4>1, <4>2
    <3>4. CASE ~u.nodata /\ T(i) < u.ttl
      <4>1. v.ttl = T(i)
        BY <3>1, <3>4
      <4>2. \A k \in 1..(i - 1) : ~Opt(k) => v.ttl <= T(k)
        <5> SUFFICES ASSUME NEW k \in 1..(i - 1), ~Opt(k) PROVE v.ttl <= T(k)
          OBVIOUS
        <5>1. T(k) \in Int /\ u.ttl <= T(k)
          BY <1>0, <1>1, <1>2, <3>4
        <5> QED
          BY <1>5, <3>2, <3>4, <4>1, <5>1
      <4>3. \A k \in 1..i : ~Opt(k) => v.ttl <= T(k)
        BY <1>0, <3>2, <4>1, <4>2
      <4> QED
        BY <1>0, <2>2, <3>1, <4>1, <4>3
    <3>5. CASE ~u.nodata /\ ~(T(i) < u.ttl)
      <4>1. v.ttl = u.ttl /\ u.ttl <= T(i)
        BY <1>5, <3>1, <3>2, <3>5
      <4>2. \A k \in 1..i : ~Opt(k) => v.ttl <= T(k)
        BY <1>0, <1>1, <3>5, <4>1
      <4>3. \E k \in 1..i : ~Opt(k) /\ v.ttl = T(k)
        BY <1>0, <1>1, <3>5, <4>1
      <4> QED
        BY <3>1, <4>2, <4>3
    <3> QED
      BY <1>5, <3>3, <3>4, <3>5
  <2> QED
    BY <2>1, <2>2
<1> QED
  BY <1>6 DEF LeastTtl, T, Opt

(* The walk of dns_get_ttl: every TTL put within the bounds, the least kept. *)
LEMMA GetTtlWalk ==
  ASSUME NEW b \in Seq(Cells), NEW p \in Nat \ {0}, p <= Len(b) + 1, NEW n \in Nat, NEW s,
         Chain(b, p, n, s), NEW ud \in GetTtlUd, ud.nodata
  PROVE  LET w == foreach_record(b, p, n, "get_ttl", ud)
         IN /\ LeastTtl(b, s, n, ud, w.ud)
            /\ \A k \in 1..n : b[Rec(b, s, k)] # OPT =>
                                 w.b[Rec(b, s, k) + 2] = Unsigned(NewTtl(b, s, k, ud))
<1> DEFINE W(i) == foreach_record(b, p, i, "get_ttl", ud)
           Set(i, c) == \A k \in 1..i : b[Rec(b, s, k)] # OPT =>
                                          c[Rec(b, s, k) + 2] = Unsigned(NewTtl(b, s, k, ud))
           H == {i \in Nat : LeastTtl(b, s, i, ud, W(i).ud) /\ Set(i, W(i).b)}
<1>0. UdOk("get_ttl", ud) /\ "get_ttl" \in Rewriting /\ "get_ttl" \in Callbacks
  BY DEF UdOk, Rewriting, Callbacks
<1>1. W(0) = Walk(b, p, ud)
  BY WalkSteps
<1>2. ASSUME NEW i \in Nat PROVE W(i + 1) = Visit("get_ttl", W(i)) /\ WalkFrom("get_ttl", b, p, W(i))
  BY <1>0, WalkStep, WalkInside
<1>3. \A i \in 0..n : Along(b, s, i, W(i))
  BY <1>0, ChainIsWalked
<1> HIDE DEF W
<1>4. 0 \in H
  <2>1. W(0).ud = ud
    BY <1>1 DEF Walk
  <2>2. 1..0 = {}
    OBVIOUS
  <2>3. LeastTtl(b, s, 0, ud, ud)
    BY <2>2 DEF LeastTtl
  <2> QED
    BY <2>1, <2>2, <2>3
<1>5. ASSUME NEW i \in 1..n, i - 1 \in H PROVE i \in H
  <2>1. i - 1 \in Nat /\ (i - 1) + 1 = i /\ i \in Nat /\ i - 1 \in 0..n /\ i \in 0..n
    OBVIOUS
  <2>2. PICK w : w = W(i - 1)
    OBVIOUS
  <2>3. /\ WalkFrom("get_ttl", b, p, w) /\ Along(b, s, i - 1, w)
        /\ W(i) = Visit("get_ttl", w)
        /\ LeastTtl(b, s, i - 1, ud, w.ud) /\ Set(i - 1, w.b)
    BY <1>2, <1>3, <1>5, <2>1, <2>2
  <2>4. PICK r : r = Rec(b, s, i)
    OBVIOUS
  <2>5. PICK u : u = Pass(w)
    OBVIOUS
  <2>6. PICK v : v = Visit("get_ttl", w)
    OBVIOUS
  <2>7. /\ v = Callback("get_ttl", u, r)
        /\ IsWalk(u) /\ u.b = w.b /\ u.ud = w.ud
        /\ r \in Nat \ {0} /\ r + 3 < u.at /\ s[i - 1] < r
        /\ \A j \in DOMAIN b : j >= s[i - 1] => w.b[j] = b[j]
        /\ \A j \in DOMAIN b : j # r + 2 => v.b[j] = w.b[j]
    BY <1>0, <2>3, <2>4, <2>5, <2>6, VisitAlong DEF Rec
  <2>8. r \in DOMAIN b /\ r + 2 \in DOMAIN b /\ s[i - 1] \in Nat
    BY <2>4, NewTtlType, RecApart
  <2>9. u.b[r] = b[r] /\ u.b[r + 2] = b[r + 2]
    <3>1. r >= s[i - 1] /\ r + 2 >= s[i - 1]
      BY <2>7, <2>8
    <3> QED
      BY <2>7, <2>8, <3>1
  <2>10. u.ud \in GetTtlUd /\ u.ud.min = ud.min /\ u.ud.max = ud.max
    BY <2>3, <2>7 DEF LeastTtl
  <2> DEFINE ttl == NewTtl(b, s, i, ud)
  <2>11. ttl = Bounded(Signed(u.b[r + 2]), u.ud.min, u.ud.max)
    BY <2>4, <2>9, <2>10 DEF NewTtl
  <2> HIDE DEF ttl
  <2>12. /\ v.ud \in GetTtlUd
         /\ b[r] = OPT => v = u
         /\ b[r] # OPT => v.b[r + 2] = Unsigned(ttl)
         /\ b[r] # OPT => v.ud = [u.ud EXCEPT !.nodata = FALSE,
                                    !.ttl = IF u.ud.nodata \/ ttl < u.ud.ttl THEN ttl ELSE u.ud.ttl]
    <3> DEFINE t == Bounded(Signed(u.b[r + 2]), u.ud.min, u.ud.max)
    <3>0. /\ IsWalk(u) /\ u.ud \in GetTtlUd /\ r \in Nat \ {0} /\ r + 3 < u.at
          /\ v = Callback("get_ttl", u, r)
      BY <2>7, <2>10
    <3>1. /\ v.ud \in GetTtlUd
          /\ u.b[r] = OPT => v = u
          /\ u.b[r] # OPT => v.b[r + 2] = Unsigned(t)
          /\ u.b[r] # OPT => v.ud = [u.ud EXCEPT !.nodata = FALSE,
                                       !.ttl = IF u.ud.nodata \/ t < u.ud.ttl THEN t ELSE u.ud.ttl]
      BY <3>0, GetTtlSees
    <3>2. t = ttl
      BY <2>11
    <3> HIDE DEF t
    <3> QED
      BY <2>9, <3>1, <3>2
  <2>13. LeastTtl(b, s, i, ud, v.ud)
    <3>1. PICK x : x = u.ud
      OBVIOUS
    <3>2. PICK y : y = v.ud
      OBVIOUS
    <3>3. LeastTtl(b, s, i - 1, ud, x) /\ y \in GetTtlUd
      BY <2>3, <2>7, <2>12, <3>1, <3>2
    <3>4. b[Rec(b, s, i)] = OPT => y = x
      BY <2>4, <2>12, <3>1, <3>2
    <3>5. b[Rec(b, s, i)] # OPT =>
            y = [x EXCEPT !.nodata = FALSE, !.ttl = IF x.nodata \/ ttl < x.ttl THEN ttl ELSE x.ttl]
      BY <2>4, <2>12, <3>1, <3>2
    <3>6. LeastTtl(b, s, i, ud, y)
      BY <3>3, <3>4, <3>5, LeastTtlStep DEF ttl
    <3> QED
      BY <3>2, <3>6
  <2>14. Set(i, v.b)
    <3> SUFFICES ASSUME NEW k \in 1..i, b[Rec(b, s, k)] # OPT
                 PROVE  v.b[Rec(b, s, k) + 2] = Unsigned(NewTtl(b, s, k, ud))
      OBVIOUS
    <3>1. CASE k = i
      BY <2>4, <2>12, <3>1 DEF ttl
    <3>2. CASE k # i
      <4>1. k \in 1..(i - 1) /\ k \in 1..n /\ k < i
        BY <3>2
      <4>2. w.b[Rec(b, s, k) + 2] = Unsigned(NewTtl(b, s, k, ud))
        BY <2>3, <4>1
      <4>3. Rec(b, s, k) + 2 \in DOMAIN b
        BY <4>1, NewTtlType
      <4>4. Rec(b, s, k) \in Nat /\ Rec(b, s, k) + 3 < Rec(b, s, i)
        BY <4>1, RecApart
      <4>5. Rec(b, s, k) + 2 # r + 2
        BY <2>4, <2>7, <4>4
      <4> QED
        BY <2>7, <4>2, <4>3, <4>5
    <3> QED
      BY <3>1, <3>2
  <2> HIDE DEF Set
  <2> QED
    BY <2>1, <2>3, <2>6, <2>13, <2>14
<1> HIDE DEF H
<1>6. \A i \in 0..n : i \in H
  BY <1>4, <1>5, UpTo
<1>7. n \in H
  BY <1>6
<1> QED
  BY <1>7 DEF H, W

(* The walk of dns_update_ttl: every TTL is brought down by the same time. *)
LEMMA UpdateTtlWalk ==
  ASSUME NEW b \in Seq(Cells), NEW p \in Nat \ {0}, p <= Len(b) + 1, NEW n \in Nat, NEW s,
         Chain(b, p, n, s), NEW ud \in Int
  PROVE  LET w == foreach_record(b, p, n, "update_ttl", ud)
         IN \A k \in 1..n : b[Rec(b, s, k)] # OPT =>
              w.b[Rec(b, s, k) + 2] = Larger(Signed(Unsigned(Signed(b[Rec(b, s, k) + 2]) + ud)), 1)
<1> DEFINE W(i) == foreach_record(b, p, i, "update_ttl", ud)
           New(k) == Larger(Signed(Unsigned(Signed(b[Rec(b, s, k) + 2]) + ud)), 1)
           Set(i, c) == \A k \in 1..i : b[Rec(b, s, k)] # OPT => c[Rec(b, s, k) + 2] = New(k)
           H == {i \in Nat : W(i).ud = ud /\ Set(i, W(i).b)}
<1>0. UdOk("update_ttl", ud) /\ "update_ttl" \in Rewriting /\ "update_ttl" \in Callbacks
  BY DEF UdOk, Rewriting, Callbacks
<1>1. W(0) = Walk(b, p, ud)
  BY WalkSteps
<1>2. ASSUME NEW i \in Nat
      PROVE  W(i + 1) = Visit("update_ttl", W(i)) /\ WalkFrom("update_ttl", b, p, W(i))
  BY <1>0, WalkStep, WalkInside
<1>3. \A i \in 0..n : Along(b, s, i, W(i))
  BY <1>0, ChainIsWalked
<1> HIDE DEF W
<1>4. 0 \in H
  <2>1. W(0).ud = ud /\ 1..0 = {}
    BY <1>1 DEF Walk
  <2> QED
    BY <2>1
<1>5. ASSUME NEW i \in 1..n, i - 1 \in H PROVE i \in H
  <2>1. i - 1 \in Nat /\ (i - 1) + 1 = i /\ i \in Nat /\ i - 1 \in 0..n /\ i \in 0..n
    OBVIOUS
  <2>2. PICK w : w = W(i - 1)
    OBVIOUS
  <2>3. /\ WalkFrom("update_ttl", b, p, w) /\ Along(b, s, i - 1, w)
        /\ W(i) = Visit("update_ttl", w)
        /\ w.ud = ud /\ Set(i - 1, w.b)
    BY <1>2, <1>3, <1>5, <2>1, <2>2
  <2>4. PICK r : r = Rec(b, s, i)
    OBVIOUS
  <2>5. PICK u : u = Pass(w)
    OBVIOUS
  <2>6. PICK v : v = Visit("update_ttl", w)
    OBVIOUS
  <2>7. /\ v = Callback("update_ttl", u, r)
        /\ IsWalk(u) /\ u.b = w.b /\ u.ud = w.ud
        /\ r \in Nat \ {0} /\ r + 3 < u.at /\ s[i - 1] < r
        /\ \A j \in DOMAIN b : j >= s[i - 1] => w.b[j] = b[j]
        /\ \A j \in DOMAIN b : j # r + 2 => v.b[j] = w.b[j]
    BY <1>0, <2>3, <2>4, <2>5, <2>6, VisitAlong DEF Rec
  <2>8. /\ \A k \in 1..n : Rec(b, s, k) \in Nat /\ Rec(b, s, k) + 3 <= Len(b)
        /\ \A k \in 1..n : k < i => Rec(b, s, k) + 3 < Rec(b, s, i)
        /\ s[i - 1] \in Nat
    BY RecApart
  <2>9. u.b[r] = b[r] /\ u.b[r + 2] = b[r + 2]
    <3>0. r + 3 <= Len(b) /\ Len(b) \in Nat /\ s[i - 1] < r /\ s[i - 1] \in Nat /\ r \in Nat \ {0}
      BY <2>4, <2>7, <2>8
    <3>1. r >= s[i - 1] /\ r + 2 >= s[i - 1] /\ r \in 1..Len(b) /\ r + 2 \in 1..Len(b)
      BY <3>0
    <3> QED
      BY <2>7, <3>1
  <2>10. /\ v.ud = u.ud
         /\ u.b[r] # OPT => v.b[r + 2] = Larger(Signed(Unsigned(Signed(u.b[r + 2]) + u.ud)), 1)
    BY <2>3, <2>7, UpdateTtlSees
  <2>11. v.ud = ud /\ (b[r] # OPT => v.b[r + 2] = New(i))
    BY <2>3, <2>4, <2>7, <2>9, <2>10
  <2> HIDE DEF New
  <2>12. Set(i, v.b)
    <3> SUFFICES ASSUME NEW k \in 1..i, b[Rec(b, s, k)] # OPT PROVE v.b[Rec(b, s, k) + 2] = New(k)
      OBVIOUS
    <3>1. CASE k = i
      BY <2>4, <2>11, <3>1
    <3>2. CASE k # i
      <4>1. k \in 1..(i - 1) /\ k \in 1..n /\ k < i
        BY <3>2
      <4>2. w.b[Rec(b, s, k) + 2] = New(k)
        BY <2>3, <4>1
      <4>3. Rec(b, s, k) \in Nat /\ Rec(b, s, k) + 3 < r /\ Rec(b, s, k) + 3 <= Len(b)
        BY <2>4, <2>8, <4>1
      <4>4. Rec(b, s, k) + 2 # r + 2 /\ Rec(b, s, k) + 2 \in 1..Len(b)
        BY <2>7, <4>3
      <4> QED
        BY <2>7, <4>2, <4>4
    <3> QED
      BY <3>1, <3>2
  <2> HIDE DEF Set
  <2> QED
    BY <2>1, <2>3, <2>6, <2>11, <2>12
<1> HIDE DEF H
<1>6. \A i \in 0..n : i \in H
  BY <1>4, <1>5, UpTo
<1>7. n \in H
  BY <1>6
<1> QED
  BY <1>7 DEF H, W

\* the records of a message with a name of n cells
Records(h, n) == RecordsOf(h.body, FirstRecord(n), h.an + h.ns + h.ar)

(* A whole message has a chain of records. *)
LEMMA WholeRecords ==
  ASSUME NEW h \in Message, NEW n, Asks(h.body, n), Whole(h)
  PROVE  LET b == h.body
             k == h.an + h.ns + h.ar
         IN /\ b \in Seq(Cells) /\ k \in Nat /\ FirstRecord(n) \in Nat \ {0}
            /\ FirstRecord(n) <= Len(b) + 1
            /\ \E s : Chain(b, FirstRecord(n), k, s) /\ Records(h, n) = {Rec(b, s, i) : i \in 1..k}
<1> DEFINE b == h.body
           k == h.an + h.ns + h.ar
<1>1. /\ b \in Seq(Cells) /\ n + 3 \in Nat \ {0} /\ n + 3 <= Len(b) + 1 /\ FirstRecord(n) = n + 3
      /\ k \in Nat
  BY FirstRecordIs DEF Asks, Message
<1>2. PICK s : Chain(b, n + 3, k, s)
  BY WholeIsChain
<1>3. Records(h, n) = RecordsOf(b, n + 3, k)
  BY <1>1 DEF Records
<1> HIDE DEF b, k
<1>4. RecordsOf(b, n + 3, k) = {Rec(b, s, i) : i \in 1..k}
  BY <1>1, <1>2, RecordsOfChain
<1> QED
  BY <1>1, <1>2, <1>3, <1>4 DEF b, k

(* Rewriting TTLs changes neither the records nor their types. *)
LEMMA RewrittenRecords ==
  ASSUME NEW h \in Message, NEW n, Asks(h.body, n), Whole(h), NEW f \in Rewriting, NEW ud, UdOk(f, ud)
  PROVE  LET k == h.an + h.ns + h.ar
             w == foreach_record(h.body, FirstRecord(n), k, f, ud)
         IN /\ w.b \in Seq(Cells) /\ Len(w.b) = Len(h.body)
            /\ RecordsOf(w.b, FirstRecord(n), k) = Records(h, n)
            /\ \A r \in Records(h, n) : r \in Nat /\ r + 2 \in 1..Len(h.body) /\ w.b[r] = h.body[r]
<1> DEFINE b == h.body
           k == h.an + h.ns + h.ar
           p == FirstRecord(n)
           w == foreach_record(b, p, k, f, ud)
<1>1. b \in Seq(Cells) /\ k \in Nat /\ p \in Nat \ {0} /\ p <= Len(b) + 1
  BY WholeRecords, Zenon
<1>2. PICK s : Chain(b, p, k, s) /\ Records(h, n) = {Rec(b, s, i) : i \in 1..k}
  BY WholeRecords, Zenon
<1>2a. Chain(b, p, k, s)
  BY <1>2
<1> HIDE DEF b, k, p
<1>3. /\ w.b \in Seq(Cells) /\ Len(w.b) = Len(b) /\ Chain(w.b, p, k, s)
      /\ \A i \in 1..k : skip_name(w.b, s[i - 1]) = skip_name(b, s[i - 1])
  BY <1>1, <1>2a, RewrittenChain
<1>4. Along(b, s, k, w)
  BY <1>1, <1>2, ChainIsWalked
<1> HIDE DEF w
<1>5. \A i \in 1..k : Rec(w.b, s, i) = Rec(b, s, i)
  BY <1>3 DEF Rec
<1>6. RecordsOf(w.b, p, k) = {Rec(w.b, s, i) : i \in 1..k}
  <2>1. p <= Len(w.b) + 1
    BY <1>1, <1>3
  <2> QED
    BY <1>1, <1>3, <2>1, RecordsOfChain
<1>7. RecordsOf(w.b, p, k) = {Rec(b, s, i) : i \in 1..k}
  BY <1>5, <1>6
<1>8. /\ \A i \in 1..k : Rec(b, s, i) \in Nat \ {0} /\ Rec(b, s, i) + 3 <= Len(b)
      /\ \A i, j \in 1..k : i < j => Rec(b, s, i) + 3 < Rec(b, s, j)
  BY <1>1, <1>2, RecApart
<1>9. Len(b) \in Nat
  BY <1>1
<1>10. ASSUME NEW i \in 1..k
       PROVE  /\ Rec(b, s, i) \in Nat /\ Rec(b, s, i) + 2 \in 1..Len(b)
              /\ w.b[Rec(b, s, i)] = b[Rec(b, s, i)]
  <2>1. PICK r \in Nat \ {0} : r = Rec(b, s, i) /\ r + 3 <= Len(b)
    BY <1>8
  <2>2. r \in 1..Len(b) /\ r + 2 \in 1..Len(b)
    BY <1>9, <2>1
  <2>3. ASSUME NEW j \in 1..k PROVE r # Rec(b, s, j) + 2
    <3>1. PICK x \in Nat : x = Rec(b, s, j)
      BY <1>8
    <3>2. CASE i < j
      <4>1. r + 3 < x
        BY <1>8, <2>1, <3>1, <3>2
      <4> QED
        BY <3>1, <4>1
    <3>3. CASE j < i
      <4>1. x + 3 < r
        BY <1>8, <2>1, <3>1, <3>3
      <4> QED
        BY <3>1, <4>1
    <3>4. CASE i = j
      BY <2>1, <3>1, <3>4
    <3> QED
      BY <1>1, <3>2, <3>3, <3>4
  <2>4. w.b[r] = b[r]
    <3>1. r \in DOMAIN b
      BY <1>1, <2>2
    <3> QED
      BY <1>4, <2>3, <3>1 DEF Along, Rec
  <2> QED
    BY <2>1, <2>2, <2>4
<1> QED
  BY <1>2, <1>3, <1>7, <1>10 DEF b, k, p, w

(* The new TTLs of a message that is cached. *)
LEMMA BoundedRecords ==
  ASSUME NEW h \in Message, NEW n, Asks(h.body, n), Whole(h), NEW ud \in GetTtlUd, ud.nodata
  PROVE  LET w == foreach_record(h.body, FirstRecord(n), h.an + h.ns + h.ar, "get_ttl", ud)
             T(r) == Bounded(Signed(h.body[r + 2]), ud.min, ud.max)
             R == {r \in Records(h, n) : h.body[r] # OPT}
         IN /\ w.ud.ttl \in Int
            /\ \A r \in R : w.b[r + 2] = Unsigned(T(r)) /\ w.ud.ttl <= T(r)
            /\ (R = {} /\ w.ud.ttl = ud.ttl) \/ \E r \in R : w.ud.ttl = T(r)
<1> DEFINE b == h.body
           k == h.an + h.ns + h.ar
           p == FirstRecord(n)
           w == foreach_record(b, p, k, "get_ttl", ud)
           T(r) == Bounded(Signed(b[r + 2]), ud.min, ud.max)
           R == {r \in Records(h, n) : b[r] # OPT}
<1>1. b \in Seq(Cells) /\ k \in Nat /\ p \in Nat \ {0} /\ p <= Len(b) + 1
  BY WholeRecords
<1>2. PICK s : Chain(b, p, k, s) /\ Records(h, n) = {Rec(b, s, i) : i \in 1..k}
  BY WholeRecords, Zenon
<1> HIDE DEF b, k, p
<1>3. /\ LeastTtl(b, s, k, ud, w.ud)
      /\ \A i \in 1..k : b[Rec(b, s, i)] # OPT =>
                           w.b[Rec(b, s, i) + 2] = Unsigned(NewTtl(b, s, i, ud))
  BY <1>1, <1>2, GetTtlWalk
<1>4. \A i : NewTtl(b, s, i, ud) = T(Rec(b, s, i))
  BY DEF NewTtl
<1> HIDE DEF w, T
<1>5. /\ w.ud \in GetTtlUd
      /\ w.ud.nodata => w.ud.ttl = ud.ttl /\ \A i \in 1..k : b[Rec(b, s, i)] = OPT
      /\ ~w.ud.nodata => \E i \in 1..k : b[Rec(b, s, i)] # OPT /\ w.ud.ttl = T(Rec(b, s, i))
      /\ ~w.ud.nodata => \A i \in 1..k : b[Rec(b, s, i)] # OPT => w.ud.ttl <= T(Rec(b, s, i))
  BY <1>3, <1>4 DEF LeastTtl
<1>6. w.ud.ttl \in Int
  BY <1>5 DEF GetTtlUd
<1>7. ASSUME NEW r \in R PROVE w.b[r + 2] = Unsigned(T(r)) /\ w.ud.ttl <= T(r)
  <2>1. PICK i \in 1..k : r = Rec(b, s, i)
    BY <1>2
  <2> QED
    BY <1>3, <1>4, <1>5, <2>1
<1>8. (R = {} /\ w.ud.ttl = ud.ttl) \/ \E r \in R : w.ud.ttl = T(r)
  BY <1>2, <1>5
<1> QED
  BY <1>6, <1>7, <1>8 DEF w, T, b, k, p

(* The TTLs of a cached message after some time. *)
LEMMA UpdatedRecords ==
  ASSUME NEW h \in Message, NEW n, Asks(h.body, n), Whole(h), NEW ud \in Int
  PROVE  LET w == foreach_record(h.body, FirstRecord(n), h.an + h.ns + h.ar, "update_ttl", ud)
         IN \A r \in Records(h, n) : h.body[r] # OPT =>
              w.b[r + 2] = Larger(Signed(Unsigned(Signed(h.body[r + 2]) + ud)), 1)
<1> DEFINE b == h.body
           k == h.an + h.ns + h.ar
           p == FirstRecord(n)
           w == foreach_record(b, p, k, "update_ttl", ud)
<1>1. b \in Seq(Cells) /\ k \in Nat /\ p \in Nat \ {0} /\ p <= Len(b) + 1
  BY WholeRecords
<1>2. PICK s : Chain(b, p, k, s) /\ Records(h, n) = {Rec(b, s, i) : i \in 1..k}
  BY WholeRecords, Zenon
<1> HIDE DEF b, k, p
<1>3. \A i \in 1..k : b[Rec(b, s, i)] # OPT =>
        w.b[Rec(b, s, i) + 2] = Larger(Signed(Unsigned(Signed(b[Rec(b, s, i) + 2]) + ud)), 1)
  BY <1>1, <1>2, UpdateTtlWalk
<1> HIDE DEF w
<1>4. \A r \in Records(h, n) : b[r] # OPT => w.b[r + 2] = Larger(Signed(Unsigned(Signed(b[r + 2]) + ud)), 1)
  BY <1>2, <1>3
<1> QED
  BY <1>4 DEF w, b, k, p

(* What CachedTtlsAge says of a record that was given the TTL f when the    *)
(* entry was made, and shows the cell c now; and of the whole message h.    *)
Aged(f, c, e, bd) ==
  /\ Signed(c) = Larger(f - e.elapsed, 1)
  /\ f >= bd.min \/ f = bd.max
  /\ bd.max > 0 => f <= bd.max
  /\ f >= 1 /\ f >= e.ttl + e.elapsed

AgedMessage(h, n, e, bd) ==
  LET R == {r \in Records(h, n) : h.body[r] # OPT}
      First(r) == Signed(e.first[r + 2])
  IN /\ Whole(h)
     /\ \A r \in R : Aged(First(r), h.body[r + 2], e, bd)
     /\ \/ \E r \in R : First(r) = e.ttl + e.elapsed
        \/ R = {} /\ NodataTtl = e.ttl + e.elapsed

EntryOk(h, e) ==
  /\ e \in [ttl : Int, first : Seq(Cells), elapsed : 0..MaxElapsed]
  /\ Len(e.first) = Len(h.body)

AgedInv == pc = "cached" => EntryOk(m, entry) /\ AgedMessage(m, qnamelen, entry, bounds)

(* A message is cached with its TTLs. *)
LEMMA AgedWhenAdded ==
  ASSUME NEW h \in Message, NEW n, Asks(h.body, n), Whole(h), NEW bd \in [min : Ttls, max : Ttls],
         NEW ud \in GetTtlUd, ud.min = bd.min, ud.max = bd.max, ud.nodata, ud.ttl = NodataTtl,
         NEW w, w = foreach_record(h.body, FirstRecord(n), h.an + h.ns + h.ar, "get_ttl", ud),
         w.ud.ttl > 0,
         NEW g, g = [h EXCEPT !.body = w.b],
         NEW e, e = [ttl |-> w.ud.ttl, first |-> w.b, elapsed |-> 0]
  PROVE  EntryOk(g, e) /\ AgedMessage(g, n, e, bd)
<1> DEFINE T(r) == Bounded(Signed(h.body[r + 2]), bd.min, bd.max)
           R == {r \in Records(h, n) : h.body[r] # OPT}
<1>1. UdOk("get_ttl", ud) /\ "get_ttl" \in Rewriting
  BY DEF UdOk, Rewriting
<1>2. /\ w.ud.ttl \in Int
      /\ \A r \in R : w.b[r + 2] = Unsigned(T(r)) /\ w.ud.ttl <= T(r)
      /\ (R = {} /\ w.ud.ttl = NodataTtl) \/ \E r \in R : w.ud.ttl = T(r)
  BY BoundedRecords
<1>3. /\ w.b \in Seq(Cells) /\ Len(w.b) = Len(h.body)
      /\ RecordsOf(w.b, FirstRecord(n), h.an + h.ns + h.ar) = Records(h, n)
      /\ \A r \in Records(h, n) : r \in Nat /\ r + 2 \in 1..Len(h.body) /\ w.b[r] = h.body[r]
  BY <1>1, RewrittenRecords
<1>4. Whole(g)
  BY <1>1, RewrittenWhole
<1>5. h.body \in Seq(Cells)
  BY DEF Message
<1>6. /\ g.body = w.b /\ g.an = h.an /\ g.ns = h.ns /\ g.ar = h.ar
      /\ e.ttl = w.ud.ttl /\ e.first = w.b /\ e.elapsed = 0
  BY DEF Message
<1>7. Records(g, n) = Records(h, n)
  BY <1>3, <1>6 DEF Records
<1>8. EntryOk(g, e)
  <2>1. 0 \in 0..MaxElapsed
    BY Sizes, WireAssumption
  <2> QED
    BY <1>2, <1>3, <1>6, <2>1 DEF EntryOk
<1>9. {r \in Records(g, n) : g.body[r] # OPT} = R
  BY <1>3, <1>6, <1>7
<1>10. ASSUME NEW r \in R
       PROVE  Signed(w.b[r + 2]) = T(r) /\ Aged(T(r), w.b[r + 2], e, bd)
  <2>1. h.body[r + 2] \in Cells
    BY <1>3, <1>5
  <2>2. PICK x \in Int : x = Signed(h.body[r + 2]) /\ -(2 ^ (Bits - 1)) <= x /\ x < 2 ^ (Bits - 1)
    BY <2>1, CellValues
  <2>3. PICK y : y = T(r)
    OBVIOUS
  <2>4. /\ y \in Int /\ -(2 ^ (Bits - 1)) <= y /\ y < 2 ^ (Bits - 1)
        /\ y >= 1 => y >= bd.min \/ y = bd.max
        /\ bd.max > 0 => y <= bd.max
    BY <2>2, <2>3, BoundedTtl
  <2>5. w.b[r + 2] = Unsigned(y) /\ w.ud.ttl <= y
    BY <1>2, <2>3
  <2>6. y >= 1 /\ y >= w.ud.ttl + 0
    BY <1>2, <2>4, <2>5
  <2>7. Signed(w.b[r + 2]) = y
    BY <2>4, <2>5, SignedRoundTrip
  <2>8. Larger(y - 0, 1) = y
    BY <2>4, <2>6 DEF Larger
  <2> HIDE DEF T
  <2> QED
    BY <1>6, <2>3, <2>4, <2>6, <2>7, <2>8 DEF Aged
<1> HIDE DEF T, R
<1>11. \/ \E r \in R : Signed(e.first[r + 2]) = e.ttl + e.elapsed
       \/ R = {} /\ NodataTtl = e.ttl + e.elapsed
  <2>1. e.ttl + e.elapsed = w.ud.ttl
    BY <1>2, <1>6
  <2> QED
    BY <1>2, <1>6, <1>10, <2>1
<1>12. \A r \in R : Aged(Signed(e.first[r + 2]), g.body[r + 2], e, bd)
  BY <1>6, <1>10
<1> QED
  BY <1>4, <1>8, <1>9, <1>11, <1>12 DEF AgedMessage

(* It grows older by d, however old it is. *)
LEMMA AgedWhenUpdated ==
  ASSUME NEW h \in Message, NEW n, Asks(h.body, n), NEW bd, NEW e, EntryOk(h, e), AgedMessage(h, n, e, bd),
         NEW d \in 1..MaxElapsed, e.elapsed + d <= MaxElapsed,
         NEW w, w = foreach_record(h.body, FirstRecord(n), h.an + h.ns + h.ar, "update_ttl", -d),
         NEW g, g = [h EXCEPT !.body = w.b],
         NEW f, f = [e EXCEPT !.ttl = @ - d, !.elapsed = @ + d]
  PROVE  EntryOk(g, f) /\ AgedMessage(g, n, f, bd)
<1> DEFINE First(r) == Signed(e.first[r + 2])
           R == {r \in Records(h, n) : h.body[r] # OPT}
<1>0. /\ Whole(h)
      /\ \A r \in R : Aged(First(r), h.body[r + 2], e, bd)
      /\ (\E r \in R : First(r) = e.ttl + e.elapsed) \/ (R = {} /\ NodataTtl = e.ttl + e.elapsed)
  BY DEF AgedMessage
<1>1. -d \in Int /\ UdOk("update_ttl", -d) /\ "update_ttl" \in Rewriting
  <2>1. -d \in Int
    OBVIOUS
  <2> QED
    BY <2>1 DEF UdOk, Rewriting
<1>2. \A r \in Records(h, n) : h.body[r] # OPT =>
        w.b[r + 2] = Larger(Signed(Unsigned(Signed(h.body[r + 2]) + (-d))), 1)
  BY <1>0, <1>1, UpdatedRecords
<1>3. /\ w.b \in Seq(Cells) /\ Len(w.b) = Len(h.body)
      /\ RecordsOf(w.b, FirstRecord(n), h.an + h.ns + h.ar) = Records(h, n)
      /\ \A r \in Records(h, n) : r \in Nat /\ r + 2 \in 1..Len(h.body) /\ w.b[r] = h.body[r]
  BY <1>0, <1>1, RewrittenRecords
<1>4. Whole(g)
  BY <1>0, <1>1, RewrittenWhole
<1>5. /\ e.ttl \in Int /\ e.first \in Seq(Cells) /\ e.elapsed \in Int /\ 0 <= e.elapsed
      /\ Len(e.first) = Len(h.body) /\ MaxElapsed \in Nat /\ MaxElapsed < 2 ^ (Bits - 1)
  <2>1. MaxElapsed \in Nat /\ MaxElapsed < 2 ^ (Bits - 1)
    BY WireAssumption, Limits DEF Ttls
  <2> QED
    BY <2>1 DEF EntryOk
<1>6. /\ g.body = w.b /\ g.an = h.an /\ g.ns = h.ns /\ g.ar = h.ar
      /\ f.ttl = e.ttl - d /\ f.first = e.first /\ f.elapsed = e.elapsed + d
      /\ f \in [ttl : Int, first : Seq(Cells), elapsed : 0..MaxElapsed]
  <2>1. g.body = w.b /\ g.an = h.an /\ g.ns = h.ns /\ g.ar = h.ar
    BY DEF Message
  <2>2. e \in [ttl : Int, first : Seq(Cells), elapsed : 0..MaxElapsed]
    BY DEF EntryOk
  <2>3. e.ttl - d \in Int /\ e.elapsed + d \in 0..MaxElapsed
    BY <1>5
  <2>4. /\ f.ttl = e.ttl - d /\ f.first = e.first /\ f.elapsed = e.elapsed + d
        /\ f \in [ttl : Int, first : Seq(Cells), elapsed : 0..MaxElapsed]
    BY <2>2, <2>3
  <2> QED
    BY <2>1, <2>4
<1>7. Records(g, n) = Records(h, n)
  BY <1>3, <1>6 DEF Records
<1>8. EntryOk(g, f)
  BY <1>3, <1>5, <1>6 DEF EntryOk
<1>9. {r \in Records(g, n) : g.body[r] # OPT} = R
  BY <1>3, <1>6, <1>7
<1>10. f.ttl + f.elapsed = e.ttl + e.elapsed
  BY <1>5, <1>6
<1>11. ASSUME NEW r \in R PROVE Aged(First(r), w.b[r + 2], f, bd)
  <2>1. PICK x : x = First(r)
    OBVIOUS
  <2>2. Aged(x, h.body[r + 2], e, bd)
    BY <1>0, <2>1
  <2>3. x \in Int /\ x < 2 ^ (Bits - 1)
    <3>1. r + 2 \in 1..Len(e.first)
      BY <1>3, <1>5
    <3>2. e.first[r + 2] \in Cells
      BY <1>5, <3>1
    <3> QED
      BY <2>1, <3>2, CellValues
  <2>4. x >= 1 /\ Signed(h.body[r + 2]) = Larger(x - e.elapsed, 1)
    BY <2>2 DEF Aged
  <2>5. PICK y \in Int : y = Larger(x - e.elapsed, 1)
    BY <1>5, <2>3 DEF Larger
  <2>6. y >= 1 /\ y <= x /\ y < 2 ^ (Bits - 1) /\ y = IF x - e.elapsed > 1 THEN x - e.elapsed ELSE 1
    <3>1. PICK k \in Nat : k = 2 ^ (Bits - 1)
      BY Limits
    <3>2. PICK t \in Int : t = e.elapsed /\ 0 <= t
      BY <1>5
    <3>3. y = IF x - t > 1 THEN x - t ELSE 1
      BY <2>5, <3>2 DEF Larger
    <3>4. y >= 1 /\ y <= x /\ y < k
      BY <2>3, <2>4, <3>1, <3>2, <3>3
    <3> QED
      BY <3>1, <3>2, <3>3, <3>4
  <2>7. w.b[r + 2] = Larger(Signed(Unsigned(y + (-d))), 1)
    BY <1>2, <2>4, <2>5
  <2>8. y + (-d) \in Int /\ -(2 ^ (Bits - 1)) <= y + (-d) /\ y + (-d) < 2 ^ (Bits - 1) /\ y + (-d) = y - d
    <3>1. PICK k \in Nat : k = 2 ^ (Bits - 1)
      BY Limits
    <3>2. MaxElapsed \in Nat /\ MaxElapsed < k /\ y < k /\ y >= 1
      BY <1>5, <2>6, <3>1
    <3>3. y + (-d) \in Int /\ -k <= y + (-d) /\ y + (-d) < k /\ y + (-d) = y - d
      BY <3>2
    <3> QED
      BY <3>1, <3>3
  <2>9. Signed(Unsigned(y + (-d))) = y - d
    BY <2>8, SignedRoundTrip
  <2>10. w.b[r + 2] = Larger(y - d, 1)
    BY <2>7, <2>9
  <2>11. Larger(y - d, 1) = Larger(x - (e.elapsed + d), 1)
    BY <1>5, <2>3, <2>6 DEF Larger
  <2>12. PICK z \in Int : z = Larger(y - d, 1) /\ 0 <= z /\ z < 2 ^ (Bits - 1)
    BY <2>6, Limits DEF Larger
  <2>13. Signed(z) = z
    BY <2>12, SignedPositive
  <2>14. Signed(w.b[r + 2]) = Larger(x - f.elapsed, 1)
    BY <1>6, <2>10, <2>11, <2>12, <2>13
  <2> HIDE DEF First
  <2> QED
    BY <1>10, <2>1, <2>2, <2>14 DEF Aged
<1> HIDE DEF R
<1>12. \/ \E r \in R : Signed(f.first[r + 2]) = f.ttl + f.elapsed
       \/ R = {} /\ NodataTtl = f.ttl + f.elapsed
  BY <1>0, <1>6, <1>10
<1>13. \A r \in R : Aged(Signed(f.first[r + 2]), g.body[r + 2], f, bd)
  BY <1>6, <1>11
<1> QED
  BY <1>4, <1>8, <1>9, <1>12, <1>13 DEF AgedMessage

(* Every step keeps the TTLs in step with the time. *)
LEMMA AgedNext ==
  ASSUME MsgInv, WholeInv, AgedInv, [Next]_vars
  PROVE  AgedInv'
<1> SUFFICES ASSUME pc' = "cached"
             PROVE  EntryOk(m', entry') /\ AgedMessage(m', qnamelen', entry', bounds')
  BY DEF AgedInv, EntryOk, AgedMessage, Whole, Records, Aged
<1>1. CASE pc = "cached" /\ UNCHANGED <<m, qnamelen, entry, bounds>>
  BY <1>1 DEF AgedInv
<1>2. CASE UNCHANGED vars
  BY <1>1, <1>2 DEF vars
<1>3. CASE CacheAdd
  <2>1. PICK w : w = foreach_record(m.body, FirstRecord(qnamelen), m.an + m.ns + m.ar, "get_ttl", FirstUd)
    OBVIOUS
  <2>2. /\ pc = "reply" /\ dns_is_good(m) /\ m' = [m EXCEPT !.body = w.b]
        /\ w.ud.ttl > 0 /\ entry' = [ttl |-> w.ud.ttl, first |-> w.b, elapsed |-> 0]
        /\ qnamelen' = qnamelen /\ bounds' = bounds
    BY <1>3, <2>1 DEF CacheAdd, FirstUd
  <2>3. m \in Message /\ Asks(m.body, qnamelen) /\ Whole(m) /\ bounds \in [min : Ttls, max : Ttls]
    BY <2>2 DEF MsgInv, WholeInv, Parsed
  <2>4. PICK ud : ud = FirstUd
    OBVIOUS
  <2>5. /\ ud \in GetTtlUd /\ ud.nodata
        /\ ud.min = bounds.min /\ ud.max = bounds.max /\ ud.ttl = NodataTtl
    BY <2>4, FirstUdOk DEF FirstUd
  <2>6. w = foreach_record(m.body, FirstRecord(qnamelen), m.an + m.ns + m.ar, "get_ttl", ud)
    BY <2>1, <2>4
  <2>7. EntryOk(m', entry') /\ AgedMessage(m', qnamelen, entry', bounds)
    BY <2>2, <2>3, <2>5, <2>6, AgedWhenAdded
  <2> QED
    BY <2>2, <2>7
<1>4. ASSUME NEW d \in 1..MaxElapsed, UpdateTtl(d)
      PROVE  EntryOk(m', entry') /\ AgedMessage(m', qnamelen', entry', bounds')
  <2>1. PICK w : w = foreach_record(m.body, FirstRecord(qnamelen), m.an + m.ns + m.ar, "update_ttl", -d)
    OBVIOUS
  <2>2. /\ pc = "cached" /\ entry.elapsed + d <= MaxElapsed /\ m' = [m EXCEPT !.body = w.b]
        /\ entry' = [entry EXCEPT !.ttl = @ - d, !.elapsed = @ + d]
        /\ qnamelen' = qnamelen /\ bounds' = bounds
    BY <1>4, <2>1 DEF UpdateTtl
  <2>3. /\ m \in Message /\ Asks(m.body, qnamelen)
        /\ EntryOk(m, entry) /\ AgedMessage(m, qnamelen, entry, bounds)
    BY <2>2 DEF MsgInv, Parsed, AgedInv
  <2>4. EntryOk(m', entry') /\ AgedMessage(m', qnamelen, entry', bounds)
    BY <2>1, <2>2, <2>3, AgedWhenUpdated
  <2> QED
    BY <2>2, <2>4
<1>5. ASSUME NEW decode, CheckReply(decode) \/ CheckQuery(decode) PROVE FALSE
  BY <1>5 DEF CheckReply, CheckQuery
<1>6. CASE GetBufsz \/ TestIp \/ AddIp \/ Answer
  BY <1>6 DEF GetBufsz, TestIp, AddIp, Answer
<1> QED
  BY <1>2, <1>3, <1>4, <1>5, <1>6 DEF Next

(* Every record of a cached message shows the TTL it was cached with less   *)
(* the time since then, at least 1; that TTL was within the bounds; the TTL *)
(* of the entry is the least of them: for any message, any bounds and any   *)
(* split of the time into updates.                                          *)
THEOREM CachedTtlsAgeHolds == Spec => []CachedTtlsAge
<1>1. Init => AgedInv /\ WholeInv
  BY DEF Init, AgedInv, WholeInv
<1>2. AgedInv => CachedTtlsAge
  BY DEF AgedInv, AgedMessage, Aged, Records, CachedTtlsAge
<1> QED
  BY <1>1, <1>2, MsgInvInit, MsgInvNext, WholeNext, AgedNext, PTL DEF Spec

-----------------------------------------------------------------------------
(* Names and texts *)

\* the labels of the first n cells of b begin at the places L, and the last
\* one ends there
Splits(b, n, L) ==
  /\ L \subseteq 1..(n + 1) /\ 1 \in L /\ n + 1 \in L
  /\ \A l \in L \ {n + 1} : /\ b[l] \in 1..LabelMax /\ l + 1 + b[l] \in L
                            /\ \A x \in L : x <= l \/ x >= l + 1 + b[l]

(* The places that LabelStarts finds. *)
LEMMA StartsAll ==
  ASSUME NEW b \in Seq(Cells)
  PROVE  LabelStarts(b) = {LabelAt(b, 1, k) : k \in Nat}
<1>1. Len(b) \in Nat
  OBVIOUS
<1>2. Hop(b, LabelAt(b, 1, Len(b))) = LabelAt(b, 1, Len(b))
  BY LabelsEnd
<1>3. \A k \in Nat : Len(b) <= k => LabelAt(b, 1, k) = LabelAt(b, 1, Len(b))
  BY <1>1, <1>2, LabelsSettled
<1>4. ASSUME NEW k \in Nat PROVE LabelAt(b, 1, k) \in LabelStarts(b)
  <2>1. CASE k <= Len(b)
    BY <1>1, <2>1 DEF LabelStarts
  <2>2. CASE ~(k <= Len(b))
    <3>1. LabelAt(b, 1, k) = LabelAt(b, 1, Len(b)) /\ Len(b) \in 0..Len(b)
      BY <1>1, <1>3, <2>2
    <3> QED
      BY <3>1 DEF LabelStarts
  <2> QED
    BY <2>1, <2>2
<1> QED
  BY <1>1, <1>4 DEF LabelStarts

(* If the labels end behind the first n cells, they split them. *)
LEMMA SplitsFound ==
  ASSUME NEW b \in Seq(Cells), NEW n \in Nat, n <= Len(b), LabelAt(b, 1, Len(b)) = n + 1
  PROVE  Splits(b, n, LabelStarts(b))
<1> DEFINE at(k) == LabelAt(b, 1, k)
           L == LabelStarts(b)
           e == Len(b)
<1>0. e \in Nat
  OBVIOUS
<1>1. L = {at(k) : k \in Nat}
  BY StartsAll
<1>2. at(0) = 1
  BY LabelSteps
<1>3. ASSUME NEW k \in Nat PROVE at(k + 1) = Hop(b, at(k))
  BY LabelSteps
<1>4. \A k \in Nat : at(k) \in Nat /\ 1 <= at(k)
  BY LabelsForward
<1>5. \A j, k \in Nat : j <= k => at(j) <= at(k)
  BY LabelsForward
<1>6. at(e) = n + 1
  OBVIOUS
<1>7. \A k \in Nat : e <= k => at(k) = n + 1
  <2>1. Hop(b, at(e)) = at(e)
    BY LabelsEnd
  <2> QED
    BY <1>0, <1>6, <2>1, LabelsSettled
<1> HIDE DEF at, L, e
<1>8. ASSUME NEW k \in Nat PROVE at(k) \in 1..(n + 1)
  <2>1. at(k) <= n + 1
    <3>1. CASE e <= k
      BY <1>4, <1>7, <3>1
    <3>2. CASE k <= e
      BY <1>0, <1>5, <1>6, <3>2
    <3> QED
      BY <1>0, <3>1, <3>2
  <2> QED
    BY <1>4, <2>1
<1>9. L \subseteq 1..(n + 1) /\ 1 \in L /\ n + 1 \in L
  BY <1>0, <1>1, <1>2, <1>6, <1>8
<1>10. ASSUME NEW l \in L \ {n + 1}
       PROVE  /\ b[l] \in 1..LabelMax /\ l + 1 + b[l] \in L
              /\ \A x \in L : x <= l \/ x >= l + 1 + b[l]
  <2>1. PICK k \in Nat : l = at(k)
    BY <1>1
  <2>2. l \in Nat /\ l <= n /\ k + 1 \in Nat
    <3>1. l \in 1..(n + 1) /\ l # n + 1
      BY <1>8, <2>1
    <3> QED
      BY <3>1
  <2>3. Hop(b, l) # l
    <3> SUFFICES ASSUME Hop(b, at(k)) = at(k) PROVE FALSE
      BY <2>1
    <3>1. \A j \in Nat : k <= j => at(j) = at(k)
      BY LabelsSettled DEF at
    <3>2. CASE k <= e
      BY <1>0, <1>6, <2>1, <3>1, <3>2
    <3>3. CASE e <= k
      BY <1>7, <2>1, <3>3
    <3> QED
      BY <1>0, <3>2, <3>3
  <2>4. b[l] \in 1..LabelMax /\ Hop(b, l) = l + 1 + b[l]
    BY <2>3 DEF Hop
  <2>5. at(k + 1) = l + 1 + b[l]
    BY <1>3, <2>1, <2>4
  <2>6. l + 1 + b[l] \in L
    BY <1>1, <2>2, <2>5
  <2>7. ASSUME NEW x \in L PROVE x <= l \/ x >= l + 1 + b[l]
    <3>1. PICK j \in Nat : x = at(j)
      BY <1>1
    <3>2. CASE j <= k
      BY <1>5, <2>1, <3>1, <3>2
    <3>3. CASE k + 1 <= j
      <4>1. at(k + 1) <= at(j) /\ at(j) \in Nat /\ at(k + 1) \in Nat
        BY <1>4, <1>5, <2>2, <3>3
      <4> QED
        BY <2>5, <3>1, <4>1
    <3> QED
      BY <3>2, <3>3
  <2> QED
    BY <2>4, <2>6, <2>7
<1> QED
  BY <1>9, <1>10 DEF Splits, L

(* What splits them is what LabelStarts finds. *)
LEMMA SplitsUnique ==
  ASSUME NEW b \in Seq(Cells), NEW n \in Nat, n <= Len(b), NEW L, Splits(b, n, L), Hop(b, n + 1) = n + 1
  PROVE  LabelStarts(b) = L /\ LabelAt(b, 1, Len(b)) = n + 1
<1> DEFINE at(k) == LabelAt(b, 1, k)
           e == Len(b)
           H == {k \in Nat : at(k) \in L}
<1>0. e \in Nat /\ n <= e
  OBVIOUS
<1>1. LabelStarts(b) = {at(k) : k \in Nat}
  BY StartsAll
<1>2. at(0) = 1
  BY LabelSteps
<1>3. ASSUME NEW k \in Nat PROVE at(k + 1) = Hop(b, at(k))
  BY LabelSteps
<1>4. Hop(b, at(e)) = at(e)
  BY LabelsEnd
<1>5. /\ L \subseteq 1..(n + 1) /\ 1 \in L /\ n + 1 \in L
      /\ \A l \in L \ {n + 1} : /\ b[l] \in 1..LabelMax /\ l + 1 + b[l] \in L
                                /\ \A x \in L : x <= l \/ x >= l + 1 + b[l]
  BY DEF Splits
<1>6. LabelMax \in Nat
  BY Limits
<1> HIDE DEF at, e
<1>7. ASSUME NEW l \in L \ {n + 1} PROVE Hop(b, l) = l + 1 + b[l] /\ b[l] \in Nat /\ l \in Nat /\ b[l] >= 1
  <2>1. l \in Nat /\ l <= n /\ b[l] \in 1..LabelMax
    BY <1>5
  <2>2. l <= Len(b)
    BY <1>0, <2>1 DEF e
  <2> QED
    BY <1>6, <2>1, <2>2 DEF Hop
<1>8. ASSUME NEW l \in L PROVE Hop(b, l) \in L
  BY <1>5, <1>7
<1>9. ASSUME NEW k \in Nat PROVE at(k) \in L
  <2>1. 0 \in H
    BY <1>2, <1>5
  <2>2. ASSUME NEW i \in 1..k, i - 1 \in H PROVE i \in H
    <3>1. i - 1 \in Nat /\ (i - 1) + 1 = i /\ i \in Nat
      OBVIOUS
    <3>2. at(i) = Hop(b, at(i - 1))
      BY <1>3, <3>1
    <3> QED
      BY <1>8, <2>2, <3>1, <3>2
  <2> HIDE DEF H
  <2>3. \A i \in 0..k : i \in H
    BY <2>1, <2>2, UpTo
  <2>4. k \in H
    BY <2>3
  <2> QED
    BY <2>4 DEF H
<1>10. at(e) = n + 1
  <2> SUFFICES ASSUME at(e) # n + 1 PROVE FALSE
    OBVIOUS
  <2>1. PICK l \in L \ {n + 1} : l = at(e)
    BY <1>0, <1>9
  <2>2. Hop(b, l) = l + 1 + b[l] /\ b[l] \in Nat /\ l \in Nat /\ Hop(b, l) = l
    BY <1>4, <1>7, <2>1
  <2> QED
    BY <2>2
<1>11. ASSUME NEW x \in L, \A k \in Nat : at(k) # x PROVE FALSE
  <2> DEFINE G == {k \in Nat : at(k) < x}
  <2>1. 0 \in G
    <3>1. x \in Nat /\ 1 <= x
      BY <1>5
    <3>2. at(0) # x
      BY <1>11
    <3> QED
      BY <1>2, <3>1, <3>2
  <2>2. ASSUME NEW i \in 1..e, i - 1 \in G PROVE i \in G
    <3>1. i - 1 \in Nat /\ (i - 1) + 1 = i /\ i \in Nat
      BY <1>0
    <3>2. PICK l \in L : l = at(i - 1)
      BY <1>9, <3>1
    <3>3. l \in Nat /\ x \in Nat /\ x <= n + 1 /\ l < x
      BY <1>5, <2>2, <3>2
    <3>4. l \in L \ {n + 1}
      BY <3>3
    <3>5. at(i) = l + 1 + b[l] /\ b[l] \in Nat
      BY <1>3, <1>7, <3>1, <3>2, <3>4
    <3>6. x <= l \/ x >= l + 1 + b[l]
      BY <1>5, <3>4
    <3>7. at(i) # x
      BY <1>11, <3>1
    <3>8. at(i) < x
      BY <3>3, <3>5, <3>6, <3>7
    <3> QED
      BY <3>1, <3>8
  <2> HIDE DEF G
  <2>3. \A i \in 0..e : i \in G
    BY <1>0, <2>1, <2>2, UpTo
  <2>4. at(e) < x
    BY <1>0, <2>3 DEF G
  <2> QED
    BY <1>5, <1>10, <2>4
<1>12. LabelStarts(b) = L
  BY <1>1, <1>9, <1>11
<1> QED
  BY <1>10, <1>12 DEF at, e

\* q is a name of n cells and the null label, with labels at L
IsName(q, n, L) ==
  /\ q \in Seq(Cells) /\ n \in Nat \ {0} /\ Len(q) = n + 1 /\ q[n + 1] = 0
  /\ Splits(q, n, L)

\* ... and its text
TextOf(q, n, L) == [i \in 1..(n - 1) |-> IF i + 1 \in L THEN Dot ELSE q[i + 1]]

(* A null label and the end of a sequence are no labels. *)
LEMMA NoHop ==
  ASSUME NEW b \in Seq(Cells), NEW l \in Nat \ {0}, l > Len(b) \/ b[l] = 0
  PROVE  Hop(b, l) = l
<1>1. Len(b) \in Nat /\ 0 \notin 1..LabelMax
  OBVIOUS
<1>2. CASE l > Len(b)
  <2>1. ~(l <= Len(b))
    BY <1>1, <1>2
  <2> QED
    BY <2>1 DEF Hop
<1>3. CASE b[l] = 0
  BY <1>1, <1>3 DEF Hop
<1> QED
  BY <1>2, <1>3

(* decode_name accepts names. *)
LEMMA DecodedName ==
  ASSUME NEW q \in Seq(Cells), NEW n \in Nat \ {0}, Len(q) = n + 1, q[n + 1] = 0
  PROVE  /\ decode_name(q) # Bad => IsName(q, n, LabelStarts(q))
         /\ \A L : IsName(q, n, L) => /\ LabelStarts(q) = L /\ LabelAt(q, 1, Len(q)) = n + 1
                                      /\ decode_name(q) = TextOf(q, n, L)
                                      /\ decode_name(q) # Bad
<1> DEFINE name == SubSeq(q, 1, n)
<1>1. name \in Seq(Cells) /\ Len(name) = n /\ \A i \in 1..n : name[i] = q[i]
  <2>1. 1..n \subseteq 1..Len(q)
    OBVIOUS
  <2>2. /\ name \in Seq(Cells) /\ Len(name) = IF 1 <= n THEN n - 1 + 1 ELSE 0
        /\ \A i \in 1..(n - 1 + 1) : name[i] = q[1 + i - 1]
    BY <2>1, SubSeqProperties
  <2> QED
    BY <2>2
<1>2. decode_name(q) = IF LabelAt(name, 1, n) # n + 1 THEN Bad
                       ELSE [i \in 1..(n - 1) |-> IF i + 1 \in LabelStarts(name) THEN Dot ELSE q[i + 1]]
  <2>1. Len(q) - 1 = n /\ n # 0
    OBVIOUS
  <2> QED
    BY <2>1 DEF decode_name
<1> HIDE DEF name
<1>3. Hop(name, n + 1) = n + 1 /\ Hop(q, n + 1) = n + 1
  BY <1>1, NoHop
<1>4. \A L : Splits(name, n, L) <=> Splits(q, n, L)
  <2> SUFFICES ASSUME NEW L, L \subseteq 1..(n + 1) PROVE Splits(name, n, L) <=> Splits(q, n, L)
    BY DEF Splits
  <2>1. \A l \in L \ {n + 1} : l \in 1..n
    OBVIOUS
  <2>2. \A l \in L \ {n + 1} : name[l] = q[l]
    BY <1>1, <2>1
  <2> QED
    BY <2>2 DEF Splits
<1>5. ASSUME decode_name(q) # Bad PROVE IsName(q, n, LabelStarts(q))
  <2>1. LabelAt(name, 1, Len(name)) = n + 1
    BY <1>1, <1>2, <1>5
  <2>2. Splits(name, n, LabelStarts(name))
    BY <1>1, <2>1, SplitsFound
  <2>3. Splits(q, n, LabelStarts(name))
    BY <1>4, <2>2
  <2>4. LabelStarts(q) = LabelStarts(name)
    <3>1. n <= Len(q)
      OBVIOUS
    <3> QED
      BY <1>3, <2>3, <3>1, SplitsUnique
  <2> QED
    BY <2>3, <2>4 DEF IsName
<1>6. ASSUME NEW L, IsName(q, n, L)
      PROVE  /\ LabelStarts(q) = L /\ LabelAt(q, 1, Len(q)) = n + 1
             /\ decode_name(q) = TextOf(q, n, L)
             /\ decode_name(q) # Bad
  <2>1. Splits(q, n, L) /\ n <= Len(q)
    BY <1>6 DEF IsName
  <2>2. LabelStarts(q) = L /\ LabelAt(q, 1, Len(q)) = n + 1
    BY <1>3, <2>1, SplitsUnique
  <2>3. LabelStarts(name) = L /\ LabelAt(name, 1, n) = n + 1
    <3>1. Splits(name, n, L) /\ n <= Len(name)
      BY <1>1, <1>4, <2>1
    <3> QED
      BY <1>1, <1>3, <3>1, SplitsUnique
  <2>4. decode_name(q) = TextOf(q, n, L)
    BY <1>2, <2>3 DEF TextOf
  <2>5. TextOf(q, n, L) # Bad
    <3> SUFFICES ASSUME TextOf(q, n, L) = Bad PROVE FALSE
      OBVIOUS
    <3>1. DOMAIN Bad = {1} /\ Bad[1] = -1
      BY DEF Bad
    <3>2. 1 \in 1..(n - 1) /\ TextOf(q, n, L)[1] = -1
      BY <3>1 DEF TextOf
    <3>3. 1 + 1 \in 1..Len(q) /\ q[1 + 1] \in Cells /\ Dot \in Cells
      BY <3>2, WireAssumption
    <3>4. TextOf(q, n, L)[1] \in Cells
      BY <3>2, <3>3 DEF TextOf
    <3> QED
      BY <3>2, <3>4, Limits
  <2> QED
    BY <2>2, <2>4, <2>5
<1> QED
  BY <1>5, <1>6

(* The way to text and back. *)
LEMMA RoundTrip ==
  ASSUME NEW q, NEW n, NEW L, IsName(q, n, L), n + 1 <= WireMax,
         \A i \in 1..n : q[i] = Dot => i \in L
  PROVE  dns_ascii_to_wire(TextOf(q, n, L)) = q
<1> DEFINE s == TextOf(q, n, L)
           EndOf(p) == CHOOSE e \in p..(Len(s) + 1) :
                         /\ e = Len(s) + 1 \/ s[e] = Dot
                         /\ \A i \in p..(e - 1) : s[i] # Dot
           starts == {1} \cup {i + 1 : i \in {i \in DOMAIN s : s[i] = Dot}}
<1>1. /\ q \in Seq(Cells) /\ n \in Nat \ {0} /\ Len(q) = n + 1 /\ q[n + 1] = 0
      /\ L \subseteq 1..(n + 1) /\ 1 \in L /\ n + 1 \in L
      /\ \A l \in L \ {n + 1} : /\ q[l] \in 1..LabelMax /\ l + 1 + q[l] \in L
                                /\ \A x \in L : x <= l \/ x >= l + 1 + q[l]
  BY DEF IsName, Splits
<1>2. DOMAIN s = 1..(n - 1) /\ Len(s) = n - 1 /\ Len(s) + 1 = n /\ Len(s) + 2 = n + 1
  BY <1>1 DEF TextOf
<1>3. ASSUME NEW i \in 1..(n - 1)
      PROVE  /\ s[i] = Dot <=> i + 1 \in L
             /\ i + 1 \notin L => s[i] = q[i + 1]
  <2>1. s[i] = IF i + 1 \in L THEN Dot ELSE q[i + 1]
    BY DEF TextOf
  <2>2. i + 1 \in 1..n
    BY <1>1
  <2> QED
    BY <2>1, <2>2
<1>4. dns_ascii_to_wire(s) =
        IF \/ \E p \in starts : EndOf(p) - p \notin 1..LabelMax
           \/ Len(s) + 2 > WireMax
        THEN None
        ELSE [i \in 1..(Len(s) + 2) |-> IF i = Len(s) + 2 THEN 0
                                        ELSE IF i \in starts THEN EndOf(i) - i ELSE s[i - 1]]
  BY DEF dns_ascii_to_wire
<1> HIDE DEF s
<1>5. starts = L \ {n + 1}
  <2>1. ASSUME NEW x \in starts PROVE x \in L \ {n + 1}
    <3>1. CASE x = 1
      BY <1>1, <3>1
    <3>2. CASE x # 1
      <4>1. PICK i \in 1..(n - 1) : s[i] = Dot /\ x = i + 1
        BY <1>2, <3>2
      <4> QED
        BY <1>1, <1>3, <4>1
    <3> QED
      BY <3>1, <3>2
  <2>2. ASSUME NEW x \in L \ {n + 1} PROVE x \in starts
    <3>1. x \in 1..n
      BY <1>1
    <3>2. CASE x = 1
      BY <3>2
    <3>3. CASE x # 1
      <4>1. x - 1 \in 1..(n - 1) /\ (x - 1) + 1 = x
        BY <1>1, <3>1, <3>3
      <4>2. s[x - 1] = Dot
        BY <1>3, <4>1
      <4> QED
        BY <1>2, <4>1, <4>2
    <3> QED
      BY <3>2, <3>3
  <2> QED
    BY <2>1, <2>2
<1>6. ASSUME NEW p \in starts PROVE EndOf(p) - p = q[p] /\ q[p] \in 1..LabelMax
  <2>1. p \in L \ {n + 1} /\ p \in 1..n
    BY <1>1, <1>5
  <2>2. PICK k \in Nat : k = q[p] /\ k >= 1 /\ k <= LabelMax
    BY <1>1, <2>1, Limits
  <2>3. p + 1 + k \in L /\ \A x \in L : x <= p \/ x >= p + 1 + k
    BY <1>1, <2>1, <2>2
  <2>4. p + 1 + k <= n + 1
    BY <1>1, <2>3
  <2> DEFINE Q(e) == /\ e = Len(s) + 1 \/ s[e] = Dot
                     /\ \A i \in p..(e - 1) : s[i] # Dot
  <2>5. p + k \in p..(Len(s) + 1) /\ p + k \in 1..n
    <3>1. n \in Nat /\ p \in Nat /\ p >= 1 /\ Len(s) + 1 = n
      BY <1>1, <1>2, <2>1
    <3>2. p + k \in p..n /\ p + k \in 1..n
      BY <2>2, <2>4, <3>1
    <3> QED
      BY <3>1, <3>2
  <2>6. ASSUME NEW i \in 1..(n - 1), p <= i, i < p + k PROVE s[i] # Dot
    <3>1. i + 1 \in Nat /\ ~(i + 1 <= p) /\ ~(i + 1 >= p + 1 + k)
      BY <2>1, <2>2, <2>6
    <3>2. i + 1 \notin L
      BY <2>3, <3>1
    <3> QED
      BY <1>3, <3>2
  <2>7. Q(p + k)
    <3>1. p + k = Len(s) + 1 \/ s[p + k] = Dot
      <4>1. CASE p + k = n
        BY <1>2, <4>1
      <4>2. CASE p + k # n
        <5>0. n \in Nat /\ p \in Nat /\ p + k \in 1..n
          BY <1>1, <2>1, <2>5
        <5>1. p + k \in 1..(n - 1) /\ (p + k) + 1 = p + 1 + k
          BY <4>2, <5>0
        <5> QED
          BY <1>3, <2>3, <5>1
      <4> QED
        BY <4>1, <4>2
    <3>2. ASSUME NEW i \in p..((p + k) - 1) PROVE s[i] # Dot
      <4>1. i \in 1..(n - 1) /\ p <= i /\ i < p + k
        BY <1>1, <2>1, <2>2, <2>4
      <4> QED
        BY <2>6, <4>1
    <3> QED
      BY <3>1, <3>2
  <2>8. ASSUME NEW e \in p..(Len(s) + 1), Q(e) PROVE e = p + k
    <3>1. e \in Nat /\ p <= e /\ e <= n
      BY <1>1, <1>2, <2>1
    <3>2. CASE e < p + k
      <4>1. e \in 1..(n - 1)
        BY <1>1, <2>1, <2>4, <3>1, <3>2
      <4>2. s[e] # Dot
        BY <2>6, <3>1, <3>2, <4>1
      <4>3. e = Len(s) + 1
        BY <2>8, <4>2
      <4> QED
        BY <1>1, <1>2, <4>1, <4>3
    <3>3. CASE e > p + k
      <4>1. p + k \in p..(e - 1) /\ p + k # n
        BY <2>1, <2>2, <3>1, <3>3
      <4>2. s[p + k] # Dot
        BY <2>8, <4>1
      <4>3. p + k = Len(s) + 1
        BY <2>7, <4>2
      <4> QED
        BY <1>2, <4>1, <4>3
    <3> QED
      BY <2>1, <2>2, <3>1, <3>2, <3>3
  <2>9. EndOf(p) = CHOOSE e \in p..(Len(s) + 1) : Q(e)
    OBVIOUS
  <2> HIDE DEF Q
  <2>10. EndOf(p) = p + k
    <3>1. EndOf(p) \in p..(Len(s) + 1) /\ Q(EndOf(p))
      BY <2>5, <2>7, <2>9
    <3> HIDE DEF EndOf
    <3> QED
      BY <2>8, <3>1
  <2> HIDE DEF EndOf
  <2>11. (p + k) - p = k /\ k \in 1..LabelMax
    BY <2>1, <2>2, Limits
  <2> QED
    BY <2>2, <2>10, <2>11
<1> HIDE DEF EndOf
<1>7. \A p \in starts : EndOf(p) - p \in 1..LabelMax
  BY <1>6
<1>8. ~(Len(s) + 2 > WireMax)
  BY <1>1, <1>2, WireAssumption
<1>9. dns_ascii_to_wire(s) = [i \in 1..(n + 1) |-> IF i = n + 1 THEN 0
                                                   ELSE IF i \in starts THEN EndOf(i) - i ELSE s[i - 1]]
  BY <1>2, <1>4, <1>7, <1>8
<1>10. ASSUME NEW i \in 1..(n + 1)
       PROVE  q[i] = IF i = n + 1 THEN 0 ELSE IF i \in starts THEN EndOf(i) - i ELSE s[i - 1]
  <2>1. CASE i = n + 1
    BY <1>1, <2>1
  <2>2. CASE i # n + 1 /\ i \in starts
    BY <1>6, <2>2
  <2>3. CASE i # n + 1 /\ i \notin starts
    <3>1. i \notin L /\ i # 1
      BY <1>1, <1>5, <2>3
    <3>2. i - 1 \in 1..(n - 1) /\ (i - 1) + 1 = i
      BY <1>1, <2>3, <3>1
    <3> QED
      BY <1>3, <2>3, <3>1, <3>2
  <2> QED
    BY <2>1, <2>2, <2>3
<1> HIDE DEF starts
<1>11. q = [i \in 1..(n + 1) |-> q[i]]
  BY <1>1
<1>12. dns_ascii_to_wire(s) = q
  BY <1>9, <1>10, <1>11
<1> QED
  BY <1>12 DEF s

\* the labels from p on, as those of a name of their own
From(L, n, p) == {l \in 1..(n - p + 2) : l + p - 1 \in L}

IsSuffixOf(q, n, L, p, q2, n2, L2) ==
  /\ IsName(q2, n2, L2)
  /\ \A i \in 1..(n2 + 1) : q2[i] = q[i + p - 1]
  /\ \A i \in 1..(n2 - 1) : TextOf(q2, n2, L2)[i] = TextOf(q, n, L)[i + p - 1]
  /\ Cardinality({i \in L \ {n + 1} : i >= p}) = Cardinality(L2 \ {n2 + 1})

(* A name from one of its labels on is a name, its text the end of the      *)
(* text, and it has as many labels as there are from there.                 *)
LEMMA SuffixName ==
  ASSUME NEW q, NEW n, NEW L, IsName(q, n, L), NEW p \in L, p <= n
  PROVE  IsSuffixOf(q, n, L, p, SubSeq(q, p, n + 1), n - p + 1, From(L, n, p))
<1> DEFINE q2 == SubSeq(q, p, n + 1)
           n2 == n - p + 1
           L2 == From(L, n, p)
<1>1. /\ q \in Seq(Cells) /\ n \in Nat \ {0} /\ Len(q) = n + 1 /\ q[n + 1] = 0
      /\ L \subseteq 1..(n + 1) /\ 1 \in L /\ n + 1 \in L
      /\ \A l \in L \ {n + 1} : /\ q[l] \in 1..LabelMax /\ l + 1 + q[l] \in L
                                /\ \A x \in L : x <= l \/ x >= l + 1 + q[l]
  BY DEF IsName, Splits
<1>2. /\ p \in Nat \ {0} /\ n \in Nat \ {0} /\ p <= n
      /\ n2 \in Nat \ {0} /\ n - p + 2 = n2 + 1 /\ (n2 + 1) + p - 1 = n + 1
  BY <1>1
<1>3. q2 \in Seq(Cells) /\ Len(q2) = n2 + 1 /\ \A i \in 1..(n2 + 1) : q2[i] = q[i + p - 1]
  <2>1. p..(n + 1) \subseteq 1..Len(q)
    BY <1>1, <1>2
  <2>2. /\ q2 \in Seq(Cells) /\ Len(q2) = IF p <= n + 1 THEN (n + 1) - p + 1 ELSE 0
        /\ \A i \in 1..((n + 1) - p + 1) : q2[i] = q[p + i - 1]
    BY <1>1, <1>2, <2>1, SubSeqProperties
  <2>3. (n + 1) - p + 1 = n2 + 1 /\ p <= n + 1
    BY <1>2
  <2>4. \A i \in 1..(n2 + 1) : p + i - 1 = i + p - 1
    BY <1>2
  <2> HIDE DEF q2, n2
  <2> QED
    BY <2>2, <2>3, <2>4
<1>4. L2 = {l \in 1..(n2 + 1) : l + p - 1 \in L}
  BY <1>2 DEF From
<1> HIDE DEF q2, n2, L2
<1>5. L2 \subseteq 1..(n2 + 1) /\ 1 \in L2 /\ n2 + 1 \in L2
  <2>1. 1 \in 1..(n2 + 1) /\ 1 + p - 1 = p /\ n2 + 1 \in 1..(n2 + 1)
    BY <1>2
  <2> QED
    BY <1>1, <1>2, <1>4, <2>1
<1>6. q2[n2 + 1] = 0
  <2>1. n2 + 1 \in 1..(n2 + 1)
    BY <1>2
  <2> QED
    BY <1>1, <1>2, <1>3, <2>1
<1>7. ASSUME NEW l \in L2 \ {n2 + 1}
      PROVE  /\ q2[l] \in 1..LabelMax /\ l + 1 + q2[l] \in L2
             /\ \A x \in L2 : x <= l \/ x >= l + 1 + q2[l]
  <2>1. l \in 1..(n2 + 1) /\ l # n2 + 1 /\ l + p - 1 \in L
    BY <1>4
  <2>2. PICK y \in L \ {n + 1} : y = l + p - 1
    BY <1>2, <2>1
  <2>3. PICK k \in Nat : k = q[y] /\ k >= 1 /\ k <= LabelMax
    <3>1. q[y] \in 1..LabelMax
      BY <1>1, <2>2
    <3> QED
      BY <3>1, Limits
  <2>4. q2[l] = k
    BY <1>3, <2>1, <2>2, <2>3
  <2>5. y + 1 + k \in L /\ \A x \in L : x <= y \/ x >= y + 1 + k
    BY <1>1, <2>2, <2>3
  <2>6. l + 1 + k \in L2
    <3>1. (l + 1 + k) + p - 1 = y + 1 + k
      BY <1>2, <2>1, <2>2, <2>3
    <3>2. y + 1 + k <= n + 1
      BY <1>1, <2>5
    <3>3. l + 1 + k \in 1..(n2 + 1)
      BY <1>2, <2>1, <2>2, <2>3, <3>1, <3>2
    <3> QED
      BY <1>4, <2>5, <3>1, <3>3
  <2>7. ASSUME NEW x \in L2 PROVE x <= l \/ x >= l + 1 + k
    <3>1. x \in 1..(n2 + 1) /\ x + p - 1 \in L
      BY <1>4
    <3>2. x + p - 1 <= y \/ x + p - 1 >= y + 1 + k
      BY <2>5, <3>1
    <3>3. x \in Nat /\ l \in Nat
      BY <1>2, <2>1, <3>1
    <3> QED
      BY <1>2, <2>2, <2>3, <3>2, <3>3
  <2>8. k \in 1..LabelMax
    BY <2>3, Limits
  <2> QED
    BY <2>4, <2>6, <2>7, <2>8
<1>8. IsName(q2, n2, L2)
  BY <1>2, <1>3, <1>5, <1>6, <1>7 DEF IsName, Splits
<1>9. ASSUME NEW i \in 1..(n2 - 1) PROVE TextOf(q2, n2, L2)[i] = TextOf(q, n, L)[i + p - 1]
  <2>1. i + p - 1 \in 1..(n - 1) /\ (i + p - 1) + 1 = (i + 1) + p - 1 /\ i + 1 \in 1..(n2 + 1)
    <3>1. n2 = n - p + 1
      BY DEF n2
    <3> QED
      BY <1>2, <3>1
  <2>2. q2[i + 1] = q[(i + 1) + p - 1]
    BY <1>3, <2>1
  <2>3. i + 1 \in L2 <=> (i + 1) + p - 1 \in L
    BY <1>4, <2>1
  <2>4. TextOf(q, n, L)[i + p - 1] = IF (i + p - 1) + 1 \in L THEN Dot ELSE q[(i + p - 1) + 1]
    BY <2>1 DEF TextOf
  <2>5. TextOf(q2, n2, L2)[i] = IF i + 1 \in L2 THEN Dot ELSE q2[i + 1]
    BY DEF TextOf
  <2> QED
    BY <2>1, <2>2, <2>3, <2>4, <2>5
<1>10. Cardinality({i \in L \ {n + 1} : i >= p}) = Cardinality(L2 \ {n2 + 1})
  <2> DEFINE S == L2 \ {n2 + 1}
             T == {i \in L \ {n + 1} : i >= p}
             f == [l \in S |-> l + p - 1]
  <2>1. ASSUME NEW l \in S PROVE l + p - 1 \in T /\ l \in Nat
    <3>1. l \in 1..(n2 + 1) /\ l # n2 + 1 /\ l + p - 1 \in L
      BY <1>4
    <3>2. l \in Nat /\ l >= 1 /\ l + p - 1 # n + 1 /\ l + p - 1 >= p
      BY <1>2, <3>1
    <3> QED
      BY <3>1, <3>2
  <2>2. ASSUME NEW t \in T PROVE \E l \in S : t = l + p - 1
    <3>1. t \in Nat /\ t >= p /\ t <= n + 1 /\ t # n + 1 /\ t \in L
      BY <1>1
    <3>2. t - p + 1 \in 1..(n2 + 1) /\ t - p + 1 # n2 + 1 /\ (t - p + 1) + p - 1 = t
      BY <1>2, <3>1
    <3>3. t - p + 1 \in S
      BY <1>4, <3>1, <3>2
    <3> QED
      BY <3>2, <3>3
  <2>3. IsFiniteSet(S)
    <3>1. S \in SUBSET Nat /\ \A l \in S : l <= n2 + 1
      BY <1>2, <1>5
    <3> QED
      BY <1>2, <3>1, FS_BoundedSetOfNaturals
  <2>4. f \in Bijection(S, T)
    <3>1. f \in [S -> T]
      BY <2>1
    <3>2. ASSUME NEW a \in S, NEW b \in S, f[a] = f[b] PROVE a = b
      <4>1. a \in Nat /\ b \in Nat /\ a + p - 1 = b + p - 1
        BY <2>1, <3>2
      <4> QED
        BY <1>2, <4>1
    <3>3. \A t \in T : \E l \in S : f[l] = t
      BY <2>2
    <3> HIDE DEF f, S, T
    <3> QED
      BY <3>1, <3>2, <3>3 DEF Bijection, Injection, Surjection, IsInjective
  <2>5. ExistsBijection(S, T)
    BY <2>4 DEF ExistsBijection
  <2> HIDE DEF S, T
  <2>6. Cardinality(T) = Cardinality(S)
    BY <2>3, <2>5, FS_Bijection
  <2> QED
    BY <2>6 DEF S, T
<1> QED
  BY <1>3, <1>8, <1>9, <1>10 DEF q2, n2, L2, IsSuffixOf

(* A name of cache_ignore, with the null label. *)
LEMMA IgnoredName ==
  ASSUME NEW d \in Ignored
  PROVE  LET q == Append(d, 0)
             n == Len(d)
             L == LabelStarts(d)
         IN /\ IsName(q, n, L) /\ LabelStarts(q) = L /\ decode_name(q) = TextOf(q, n, L)
            /\ d \in Seq(Cells) /\ \A i \in 1..n : q[i] = d[i]
            /\ \A i \in 1..n : q[i] = Dot => i \in L
<1> DEFINE q == Append(d, 0)
           n == Len(d)
<1>1. d \in Seq(Cells \ {0}) /\ d # <<>> /\ decode_name(q) # Bad /\ NoDotInLabels(d)
  BY IgnoredAssumption
<1>2. d \in Seq(Cells) /\ n \in Nat \ {0}
  <2>1. \A i \in 1..Len(d) : d[i] \in Cells
    BY <1>1
  <2>2. n \in Nat /\ n # 0
    BY <1>1, EmptySeq
  <2> QED
    BY <1>1, <2>1, <2>2
<1>3. 0 \in Cells
  BY Limits DEF Cells
<1>4. q \in Seq(Cells) /\ Len(q) = n + 1 /\ q[n + 1] = 0 /\ \A i \in 1..n : q[i] = d[i]
  BY <1>2, <1>3
<1> HIDE DEF q
<1>5. IsName(q, n, LabelStarts(q))
  BY <1>1, <1>2, <1>4, DecodedName
<1>6. decode_name(q) = TextOf(q, n, LabelStarts(q))
  BY <1>2, <1>4, <1>5, DecodedName
<1>7. LabelStarts(d) = LabelStarts(q)
  <2>1. Splits(q, n, LabelStarts(q))
    BY <1>5 DEF IsName
  <2>2. Splits(d, n, LabelStarts(q))
    <3>1. \A l \in LabelStarts(q) \ {n + 1} : l \in 1..n
      BY <1>2, <2>1 DEF Splits
    <3>2. \A l \in LabelStarts(q) \ {n + 1} : d[l] = q[l]
      BY <1>4, <3>1
    <3> QED
      BY <2>1, <3>2 DEF Splits
  <2>3. Hop(d, n + 1) = n + 1
    <3>1. n + 1 \in Nat \ {0} /\ n + 1 > Len(d)
      BY <1>2
    <3> QED
      BY <1>2, <3>1, NoHop
  <2>4. n \in Nat /\ n <= Len(d)
    BY <1>2
  <2> QED
    BY <1>2, <2>2, <2>3, <2>4, SplitsUnique
<1>8. \A i \in 1..n : q[i] = Dot => i \in LabelStarts(d)
  BY <1>1, <1>2, <1>4 DEF NoDotInLabels
<1> QED
  BY <1>2, <1>4, <1>5, <1>6, <1>7, <1>8 DEF q

\* what cache_ignore looks for in a name
LabelCount(d) == Cardinality(LabelStarts(d) \ {Len(d) + 1})
IgnoredLevels == {LabelCount(d) : d \in Ignored}

(* If a name is or ends with an ignored one, cache_ignore finds it. *)
LEMMA IgnoredIsFound ==
  ASSUME NEW q, NEW n, NEW L, IsName(q, n, L), n + 1 <= WireMax,
         \A i \in 1..n : q[i] = Dot => i \in L,
         NEW d \in Ignored, NEW p \in L, p <= n,
         TextOf(SubSeq(q, p, n + 1), n - p + 1, From(L, n, p)) = decode_name(Append(d, 0)),
         n - p + 1 = Len(d)
  PROVE  d \in dns_qname_domains(q, IgnoredLevels)
<1> DEFINE q2 == SubSeq(q, p, n + 1)
           n2 == n - p + 1
           L2 == From(L, n, p)
           qd == Append(d, 0)
<1>1. /\ q \in Seq(Cells) /\ n \in Nat \ {0} /\ Len(q) = n + 1 /\ q[n + 1] = 0
      /\ L \subseteq 1..(n + 1) /\ n + 1 \in L
  BY DEF IsName, Splits
<1>2. /\ p \in Nat \ {0} /\ n2 \in Nat \ {0} /\ n2 + 1 <= WireMax /\ n2 = Len(d)
      /\ n - p + 2 = n2 + 1
  BY <1>1, WireAssumption
<1>3. /\ IsName(q2, n2, L2)
      /\ \A i \in 1..(n2 + 1) : q2[i] = q[i + p - 1]
      /\ Cardinality({i \in L \ {n + 1} : i >= p}) = Cardinality(L2 \ {n2 + 1})
  <2>1. IsSuffixOf(q, n, L, p, q2, n2, L2)
    BY SuffixName
  <2> HIDE DEF q2, n2, L2
  <2> QED
    BY <2>1 DEF IsSuffixOf
<1>4. /\ IsName(qd, n2, LabelStarts(d)) /\ LabelStarts(qd) = LabelStarts(d)
      /\ decode_name(qd) = TextOf(qd, n2, LabelStarts(d))
      /\ d \in Seq(Cells) /\ \A i \in 1..n2 : qd[i] = d[i]
      /\ \A i \in 1..n2 : qd[i] = Dot => i \in LabelStarts(d)
  BY <1>2, IgnoredName
<1>5. TextOf(q2, n2, L2) = decode_name(qd)
  OBVIOUS
<1>6. L2 = {l \in 1..(n2 + 1) : l + p - 1 \in L}
  BY <1>2 DEF From
<1>7. \A i \in 1..n2 : q2[i] = Dot => i \in L2
  <2> SUFFICES ASSUME NEW i \in 1..n2, q2[i] = Dot PROVE i \in L2
    OBVIOUS
  <2>1. i \in 1..(n2 + 1) /\ i + p - 1 \in 1..n
    BY <1>1, <1>2
  <2> HIDE DEF q2, n2
  <2> QED
    BY <1>3, <1>6, <2>1
<1> HIDE DEF q2, n2, L2, qd
<1>8. dns_ascii_to_wire(TextOf(q2, n2, L2)) = q2
  BY <1>2, <1>3, <1>7, RoundTrip
<1>9. dns_ascii_to_wire(TextOf(qd, n2, LabelStarts(d))) = qd
  BY <1>2, <1>4, RoundTrip
<1>10. q2 = qd
  BY <1>4, <1>5, <1>8, <1>9
<1>11. L2 = LabelStarts(d)
  <2>1. q2 \in Seq(Cells) /\ Len(q2) = n2 + 1 /\ q2[n2 + 1] = 0
    BY <1>3 DEF IsName
  <2>2. LabelStarts(q2) = L2
    BY <1>2, <1>3, <2>1, DecodedName
  <2> QED
    BY <1>4, <1>10, <2>2
<1>12. LabelStarts(q) = L /\ LabelAt(q, 1, Len(q)) = n + 1
  BY <1>1, DecodedName
<1>13. SubSeq(q, p, Len(q) - 1) = d
  <2> DEFINE c == SubSeq(q, p, n)
  <2>1. p..n \subseteq 1..Len(q)
    BY <1>1, <1>2
  <2>2. /\ c \in Seq(Cells) /\ Len(c) = IF p <= n THEN n - p + 1 ELSE 0
        /\ \A i \in 1..(n - p + 1) : c[i] = q[p + i - 1]
    BY <1>1, <1>2, <2>1, SubSeqProperties
  <2> HIDE DEF c
  <2>3. Len(c) = Len(d) /\ Len(c) = n2
    BY <1>2, <2>2 DEF n2
  <2>4. ASSUME NEW i \in 1..n2 PROVE c[i] = d[i]
    <3>1. i \in 1..(n - p + 1) /\ i \in 1..(n2 + 1) /\ p + i - 1 = i + p - 1
      BY <1>2 DEF n2
    <3>2. c[i] = q2[i]
      BY <1>3, <2>2, <3>1
    <3> QED
      BY <1>4, <1>10, <3>2
  <2>5. c = d
    BY <1>4, <2>2, <2>3, <2>4, SeqEqual
  <2>6. Len(q) - 1 = n
    BY <1>1
  <2> QED
    BY <2>5, <2>6 DEF c
<1>14. Cardinality({i \in L \ {n + 1} : i >= p}) \in IgnoredLevels
  <2>1. LabelCount(d) = Cardinality(L2 \ {n2 + 1})
    BY <1>2, <1>11 DEF LabelCount
  <2> QED
    BY <1>3, <2>1 DEF IgnoredLevels
<1>15. ~(n + 1 > Len(q) \/ Cell(q, n + 1) # 0)
  BY <1>1 DEF Cell
<1>16. p \in L \ {n + 1}
  BY <1>1, <1>2
<1>17. dns_qname_domains(q, IgnoredLevels) =
         {SubSeq(q, x, Len(q) - 1) :
            x \in {x \in L \ {n + 1} : Cardinality({i \in L \ {n + 1} : i >= x}) \in IgnoredLevels}}
  BY <1>12, <1>15 DEF dns_qname_domains
<1> QED
  BY <1>13, <1>14, <1>16, <1>17

(* A name that cache_ignore lets pass is no ignored one. *)
LEMMA NotIgnored ==
  ASSUME NEW q \in Seq(Cells), NEW n \in Nat \ {0}, Len(q) = n + 1, q[n + 1] = 0,
         \A i \in 1..n : q[i] # 0, n + 1 <= WireMax, NoDotInLabels(q), NEW d \in Ignored,
         dns_qname_domains(q, IgnoredLevels) # {Bad},
         dns_qname_domains(q, IgnoredLevels) \cap Ignored = {}
  PROVE  LET T == decode_name(Append(d, 0))
         IN /\ decode_name(q) # Bad /\ decode_name(q) # T
            /\ ~HasSuffix(decode_name(q), <<Dot>> \o T)
<1> DEFINE L == LabelStarts(q)
           T == decode_name(Append(d, 0))
           name == decode_name(q)
           null == LabelAt(q, 1, Len(q))
           k == Len(d)
<1>1. null \in Nat /\ 1 <= null
  <2>1. Len(q) \in Nat
    OBVIOUS
  <2> QED
    BY <2>1, LabelsForward
<1>2. ~(null > Len(q) \/ Cell(q, null) # 0)
  BY DEF dns_qname_domains
<1>3. null = n + 1
  <2>1. null \in 1..(n + 1)
    BY <1>1, <1>2
  <2>2. q[null] = 0
    BY <1>2, <2>1 DEF Cell
  <2> HIDE DEF null
  <2> QED
    BY <2>1, <2>2
<1>4. IsName(q, n, L)
  <2>1. n <= Len(q)
    OBVIOUS
  <2>2. Splits(q, n, L)
    BY <1>3, <2>1, SplitsFound
  <2> QED
    BY <2>2 DEF IsName
<1>5. name = TextOf(q, n, L) /\ name # Bad
  BY <1>4, DecodedName
<1>6. \A i \in 1..n : q[i] = Dot => i \in L
  <2>1. \A i \in 1..n : i \in DOMAIN q
    OBVIOUS
  <2> QED
    BY <2>1 DEF NoDotInLabels
<1>7. L \subseteq 1..(n + 1) /\ 1 \in L
  BY <1>4 DEF IsName, Splits
<1>8. /\ d \in Seq(Cells) /\ IsName(Append(d, 0), k, LabelStarts(d))
      /\ T = TextOf(Append(d, 0), k, LabelStarts(d))
  BY IgnoredName
<1>9. k \in Nat \ {0} /\ DOMAIN T = 1..(k - 1) /\ DOMAIN name = 1..(n - 1)
  BY <1>5, <1>8 DEF IsName, TextOf
<1>10. T \in Seq(Cells) /\ Len(T) = k - 1
  <2>1. ASSUME NEW i \in 1..(k - 1) PROVE T[i] \in Cells
    <3>1. i + 1 \in 1..(k + 1)
      BY <1>9
    <3>2. Append(d, 0)[i + 1] \in Cells
      BY <1>8, <3>1 DEF IsName
    <3> QED
      BY <1>8, <3>2, WireAssumption DEF TextOf
  <2>2. T = [i \in 1..(k - 1) |-> T[i]]
    BY <1>8 DEF TextOf
  <2>3. k - 1 \in Nat
    BY <1>9
  <2> HIDE DEF T
  <2> QED
    BY <2>1, <2>2, <2>3
<1>11. Len(name) = n - 1
  BY <1>5 DEF TextOf
<1> HIDE DEF T, name, L, k
<1>12. ASSUME NEW p \in L, p <= n, n - p + 1 = k,
              \A i \in 1..(k - 1) : T[i] = name[i + p - 1]
       PROVE  FALSE
  <2> DEFINE q2 == SubSeq(q, p, n + 1)
             L2 == From(L, n, p)
             t == TextOf(q2, n - p + 1, L2)
  <2>1. \A i \in 1..((n - p + 1) - 1) : t[i] = TextOf(q, n, L)[i + p - 1]
    <3>1. IsSuffixOf(q, n, L, p, q2, n - p + 1, L2)
      BY <1>4, <1>12, SuffixName
    <3> HIDE DEF q2, L2
    <3> QED
      BY <3>1 DEF IsSuffixOf
  <2>2. t = [i \in 1..(k - 1) |-> t[i]]
    BY <1>12 DEF TextOf
  <2> HIDE DEF t
  <2>3. \A i \in 1..(k - 1) : t[i] = T[i]
    BY <1>5, <1>12, <2>1
  <2>4. T = [i \in 1..(k - 1) |-> T[i]]
    BY <1>8 DEF TextOf
  <2>5. t = T
    BY <2>2, <2>3, <2>4
  <2>6. d \in dns_qname_domains(q, IgnoredLevels)
    BY <1>4, <1>6, <1>12, <2>5, IgnoredIsFound DEF t, T, k
  <2> QED
    BY <2>6
<1>13. name # T
  <2> SUFFICES ASSUME name = T PROVE FALSE
    OBVIOUS
  <2>1. k = n
    BY <1>9, <1>10, <1>11
  <2>2. 1 <= n /\ n - 1 + 1 = k /\ \A i \in 1..(k - 1) : i + 1 - 1 = i
    BY <1>9, <2>1
  <2> QED
    BY <1>7, <1>12, <2>2
<1>14. ~HasSuffix(name, <<Dot>> \o T)
  <2> DEFINE s == <<Dot>> \o T
             p == n - k + 1
  <2> SUFFICES ASSUME HasSuffix(name, s) PROVE FALSE
    OBVIOUS
  <2>1. /\ Len(s) = k /\ s[1] = Dot /\ \A i \in 1..(k - 1) : s[i + 1] = T[i]
    BY <1>9, <1>10
  <2>2. Len(s) <= Len(name) /\ SubSeq(name, Len(name) - Len(s) + 1, Len(name)) = s
    BY DEF HasSuffix
  <2> HIDE DEF s
  <2>3. k <= n - 1 /\ SubSeq(name, n - k, n - 1) = s
    <3>1. (n - 1) - k + 1 = n - k
      BY <1>9
    <3> QED
      BY <1>11, <2>1, <2>2, <3>1
  <2>4. \A i \in 1..k : s[i] = name[n - k + i - 1]
    <3>1. name \in Seq(Cells)
      <4>1. ASSUME NEW i \in 1..(n - 1) PROVE name[i] \in Cells
        <5>1. i + 1 \in 1..(n + 1) /\ q[i + 1] \in Cells
          OBVIOUS
        <5> QED
          BY <1>5, <5>1, WireAssumption DEF TextOf
      <4>2. name = [i \in 1..(n - 1) |-> name[i]]
        BY <1>5 DEF TextOf
      <4>3. PICK l \in Nat : l = n - 1
        OBVIOUS
      <4>4. [i \in 1..l |-> name[i]] \in Seq(Cells)
        BY <4>1, <4>3
      <4> QED
        BY <4>2, <4>3, <4>4
    <3>2. n - k \in Nat /\ n - 1 \in Nat /\ (n - k)..(n - 1) \subseteq 1..Len(name) /\ n - k <= n - 1
      BY <1>9, <1>11, <2>3
    <3>3. PICK a \in Nat, z \in Nat : a = n - k /\ z = n - 1
      BY <3>2
    <3>4. \A i \in 1..(z - a + 1) : SubSeq(name, a, z)[i] = name[a + i - 1]
      BY <3>1, <3>2, <3>3, SubSeqProperties
    <3>5. z - a + 1 = k
      BY <1>9, <3>3
    <3> QED
      BY <2>3, <3>3, <3>4, <3>5
  <2>5. p \in Nat \ {0} /\ p <= n /\ n - p + 1 = k /\ p - 1 \in 1..(n - 1) /\ p - 1 = n - k /\ (p - 1) + 1 = p
    BY <1>9, <2>3
  <2>6. name[p - 1] = Dot
    <3>1. 1 \in 1..k /\ n - k + 1 - 1 = p - 1
      BY <1>9, <2>5
    <3> QED
      BY <2>1, <2>4, <3>1
  <2>7. p \in L
    <3>1. name[p - 1] = IF p \in L THEN Dot ELSE q[p]
      BY <1>5, <2>5 DEF TextOf
    <3>2. p \in 1..n
      BY <2>5
    <3> QED
      BY <1>6, <2>6, <3>1, <3>2
  <2>8. ASSUME NEW i \in 1..(k - 1) PROVE T[i] = name[i + p - 1]
    <3>1. i + 1 \in 1..k /\ n - k + (i + 1) - 1 = i + p - 1
      BY <1>9
    <3> QED
      BY <2>1, <2>4, <3>1
  <2> HIDE DEF p
  <2> QED
    BY <1>12, <2>5, <2>7, <2>8
<1> QED
  BY <1>5, <1>13, <1>14 DEF name, T

-----------------------------------------------------------------------------
(* The name of a message stays what it was when it was checked *)

(* The name that is asked for, with its null label. *)
LEMMA QnameIs ==
  ASSUME NEW b, NEW n, Asks(b, n)
  PROVE  LET q == Qname(b)
         IN /\ q \in Seq(Cells) /\ Len(q) = n /\ \A i \in 1..n : q[i] = b[i]
            /\ q[n] = 0 /\ \A i \in 1..(n - 1) : q[i] # 0
            /\ n <= WireMax
<1>1. /\ b \in Seq(Cells) /\ n \in Nat \ {0} /\ n <= Len(b) /\ Len(b) \in Nat
      /\ QnameLen(b) = n /\ n <= WireMax
  BY FirstRecordIs, WireAssumption, Sizes DEF Asks
<1>2. b[n] = 0 /\ \A i \in 1..(n - 1) : b[i] # 0
  BY <1>1, QnameLenIs
<1> DEFINE q == SubSeq(b, 1, n)
<1>3. q \in Seq(Cells) /\ Len(q) = n /\ \A i \in 1..n : q[i] = b[i]
  <2>1. \A i \in 1..n : b[i] \in Cells
    BY <1>1
  <2>2. /\ q \in Seq(Cells) /\ Len(q) = IF 1 <= n THEN n - 1 + 1 ELSE 0
        /\ \A i \in 1..(n - 1 + 1) : q[i] = b[1 + i - 1]
    BY <1>1, <2>1, SubSeqProperties
  <2> QED
    BY <1>1, <2>2
<1>4. Qname(b) = q
  BY <1>1 DEF Qname
<1> HIDE DEF q
<1> QED
  BY <1>1, <1>2, <1>3, <1>4

(* Messages that agree in these cells ask for the same name. *)
LEMMA QnameSame ==
  ASSUME NEW b, NEW c, NEW n, Asks(b, n), Asks(c, n), \A i \in 1..n : c[i] = b[i]
  PROVE  Qname(c) = Qname(b)
<1>1. PICK q : q = Qname(b)
  OBVIOUS
<1>2. PICK r : r = Qname(c)
  OBVIOUS
<1>3. q \in Seq(Cells) /\ Len(q) = n /\ \A i \in 1..n : q[i] = b[i]
  BY <1>1, QnameIs
<1>4. r \in Seq(Cells) /\ Len(r) = n /\ \A i \in 1..n : r[i] = c[i]
  BY <1>2, QnameIs
<1>5. \A i \in 1..Len(q) : r[i] = q[i]
  BY <1>3, <1>4
<1>6. r = q
  BY <1>3, <1>4, <1>5, SeqEqual
<1> QED
  BY <1>1, <1>2, <1>6

(* The walks that rewrite TTLs leave the name alone. *)
LEMMA WalkKeepsName ==
  ASSUME NEW f \in Callbacks, NEW b, NEW n, Asks(b, n), NEW ud, UdOk(f, ud), NEW k \in Nat
  PROVE  Qname(foreach_record(b, FirstRecord(n), k, f, ud).b) = Qname(b)
<1>1. PICK w : w = foreach_record(b, FirstRecord(n), k, f, ud)
  OBVIOUS
<1>2. /\ b \in Seq(Cells) /\ n \in Nat \ {0} /\ Len(b) \in Nat
      /\ FirstRecord(n) \in Nat \ {0} /\ FirstRecord(n) = n + 3 /\ FirstRecord(n) <= Len(b) + 1
  BY FirstRecordIs
<1>3. WalkFrom(f, b, FirstRecord(n), w)
  BY <1>1, <1>2, WalkInside
<1>4. \A i \in DOMAIN b : i < n + 3 => w.b[i] = b[i]
  BY <1>2, <1>3 DEF WalkFrom
<1>5. \A i \in 1..n : i \in DOMAIN b /\ i < n + 3
  BY <1>2, Sizes DEF Asks
<1>6. Asks(w.b, n)
  BY <1>1, RecordsInside
<1> QED
  BY <1>1, <1>4, <1>5, <1>6, QnameSame

(* So does dns_empty_reply. *)
LEMMA EmptyReplyKeepsName ==
  ASSUME NEW h \in Message, NEW n, Asks(h.body, n)
  PROVE  Qname(dns_empty_reply(h, n).body) = Qname(h.body)
<1> DEFINE c == SubSeq(h.body, 1, n + 2)
<1>1. n \in Nat /\ n > 0 /\ n + 2 \in Nat /\ n + 2 <= Len(h.body)
  BY FirstRecordIs, Sizes DEF Asks
<1>2. Asks(c, n) /\ \A i \in 1..(n + 2) : c[i] = h.body[i]
  BY <1>1, CutAsks
<1>3. dns_empty_reply(h, n).body = c
  BY <1>1, Sizes DEF dns_empty_reply, Message
<1> HIDE DEF c
<1>4. \A i \in 1..n : c[i] = h.body[i]
  BY <1>1, <1>2
<1> QED
  BY <1>2, <1>3, <1>4, QnameSame

(* ... and every answer that is made from a message. *)
LEMMA AnswerKeepsName ==
  ASSUME MsgInv, Answer
  PROVE  Qname(m'.body) = Qname(m.body)
<1>0. /\ m \in Message /\ Asks(m.body, qnamelen)
  BY DEF MsgInv, Answer, Parsed
<1>1. PICK e : e = dns_empty_reply(m, qnamelen)
  OBVIOUS
<1>2. e \in Message /\ Asks(e.body, qnamelen) /\ Qname(e.body) = Qname(m.body)
  BY <1>0, <1>1, EmptyReplyAsks, EmptyReplyKeepsName
<1>3. CASE m' = dns_empty_reply(m, qnamelen)
  BY <1>1, <1>2, <1>3
<1>4. CASE m' = dns_servfail_reply(m, qnamelen)
  <2>1. m' = [e EXCEPT !.aa = 0, !.rcode = "SERVFAIL"]
    BY <1>1, <1>4 DEF dns_servfail_reply
  <2>2. m'.body = e.body
    BY <1>2, <2>1 DEF Message
  <2> QED
    BY <1>2, <2>2
<1>5. CASE m' = dns_truncate(m)
  <2>1. PICK h : h = [m EXCEPT !.tc = TRUE]
    OBVIOUS
  <2>2. h \in Message /\ h.body = m.body
    BY <1>0, <2>1 DEF Message
  <2>3. m' = dns_empty_reply(h, qnamelen)
    BY <1>0, <1>5, <2>1 DEF dns_truncate, Asks
  <2> QED
    BY <1>0, <2>2, <2>3, EmptyReplyKeepsName
<1>6. CASE m' = dns_make_reply(m, qnamelen)
  <2> DEFINE c == LocalAnswer.cells
             b == e.body \o c
  <2>1. c \in Seq(Cells)
    BY LocalAnswerAssumption
  <2>2. m'.body = b
    <3>1. m' = [e EXCEPT !.an = LocalAnswer.n, !.aa = 1, !.body = b]
      BY <1>1, <1>6 DEF dns_make_reply
    <3> QED
      BY <1>2, <3>1 DEF Message
  <2>3. e.body \in Seq(Cells) /\ qnamelen \in Nat /\ Len(e.body) \in Nat /\ qnamelen <= Len(e.body)
    BY <1>2, FirstRecordIs, Sizes DEF Asks
  <2> HIDE DEF c
  <2>4. \A i \in 1..qnamelen : b[i] = e.body[i]
    <3>1. \A i \in 1..(Len(e.body) + Len(c)) :
            b[i] = IF i <= Len(e.body) THEN e.body[i] ELSE c[i - Len(e.body)]
      BY <2>1, <2>3, ConcatProperties
    <3>2. Len(c) \in Nat
      BY <2>1
    <3>3. \A i \in 1..qnamelen : i \in 1..(Len(e.body) + Len(c)) /\ i <= Len(e.body)
      BY <2>3, <3>2
    <3> HIDE DEF b
    <3> QED
      BY <3>1, <3>3
  <2> HIDE DEF b
  <2>5. Asks(b, qnamelen)
    BY <2>2, AnswerIs
  <2> QED
    BY <1>2, <2>2, <2>4, <2>5, QnameSame
<1> QED
  BY <1>3, <1>4, <1>5, <1>6 DEF Answer

(* cache_ignore depends on the name only. *)
LEMMA IgnoredSame ==
  ASSUME NEW b, NEW c, Qname(b) = Qname(c)
  PROVE  is_ignored(b) = is_ignored(c)
BY DEF is_ignored

\* a is the text, if any, of the name that b asks for
IsTextOf(a, b) == a # None => a = decode_name(Qname(b)) /\ a # Bad

(* The text goes with the message, and a message is cached only under a     *)
(* name that is not ignored.                                                *)
NameInv ==
  /\ pc \in Parsed => IsTextOf(ascii, m.body)
  /\ pc = "cached" => ~is_ignored(m.body)

(* The text that check_msg leaves is that of the name. *)
LEMMA NamedWhenChecked ==
  ASSUME MsgInv, NEW decode, CheckReply(decode) \/ CheckQuery(decode), pc' \in Parsed
  PROVE  IsTextOf(ascii', m'.body) /\ pc' # "cached"
<1>0. m \in Message
  BY DEF MsgInv
<1>1. PICK a : a = decode_name(Qname(m.body))
  OBVIOUS
<1>2. CASE CheckQuery(decode)
  <2>1. /\ check_msg(m, 0, decode) /\ pc' = "query" /\ m' = TcCleared(m)
        /\ ascii' = IF decode THEN a ELSE None
    BY <1>1, <1>2 DEF CheckQuery, Parsed
  <2>2. m'.body = m.body /\ (decode => a # Bad)
    BY <1>0, <1>1, <2>1 DEF check_msg, TcCleared, Message
  <2> QED
    BY <1>1, <2>1, <2>2 DEF IsTextOf
<1>3. CASE CheckReply(decode)
  <2> DEFINE n == QnameLen(m.body)
             w == foreach_record(m.body, FirstRecord(n), m.an + m.ns, "skip", None)
  <2>1. /\ check_msg(m, 1, decode) /\ pc' = "reply"
        /\ ascii' = IF decode THEN a ELSE None
        /\ \/ m' = [m EXCEPT !.ra = 1]
           \/ m' = [rm_additional(m, w.at) EXCEPT !.ra = 1]
    BY <1>1, <1>3 DEF CheckReply, Parsed
  <2>2. decode => a # Bad
    BY <1>1, <2>1 DEF check_msg
  <2>3. Asks(m.body, n) /\ Len(m.body) \in Nat /\ n \in Nat
    BY <1>0, <2>1, CheckedAsks, FirstRecordIs
  <2>4. w.at \in Nat /\ n + 3 <= w.at /\ w.at <= Len(m.body) + 1
    <3>1. "skip" \in Callbacks /\ UdOk("skip", None) /\ m.an + m.ns \in Nat
      BY <1>0 DEF Callbacks, UdOk, Message
    <3> QED
      BY <2>3, <3>1, RecordsInside
  <2> HIDE DEF n, w
  <2>5. CASE m' = [m EXCEPT !.ra = 1]
    <3>1. m'.body = m.body
      BY <1>0, <2>5 DEF Message
    <3> QED
      BY <1>1, <2>1, <2>2, <3>1 DEF IsTextOf
  <2>6. CASE m' = [rm_additional(m, w.at) EXCEPT !.ra = 1]
    <3> DEFINE c == SubSeq(m.body, 1, w.at - 1)
    <3>1. m'.body = c
      BY <1>0, <2>6 DEF rm_additional, Message
    <3>2. w.at - 1 \in Nat /\ n + 2 <= w.at - 1 /\ w.at - 1 <= Len(m.body)
      BY <2>3, <2>4
    <3>3. Asks(c, n) /\ \A i \in 1..(w.at - 1) : c[i] = m.body[i]
      BY <2>3, <3>2, CutAsks
    <3> HIDE DEF c
    <3>4. \A i \in 1..n : c[i] = m.body[i]
      BY <2>3, <3>2, <3>3
    <3>5. Qname(c) = Qname(m.body)
      BY <2>3, <3>3, <3>4, QnameSame
    <3> QED
      BY <1>1, <2>1, <2>2, <3>1, <3>5 DEF IsTextOf
  <2> QED
    BY <2>1, <2>5, <2>6
<1> QED
  BY <1>2, <1>3

(* No later step changes the name. *)
LEMMA NamedLater ==
  ASSUME MsgInv, NameInv, [Next]_vars, pc \in Parsed
  PROVE  Qname(m'.body) = Qname(m.body) /\ ascii' = ascii
<1>0. m \in Message /\ Asks(m.body, qnamelen) /\ m.an + m.ns + m.ar \in Nat
  BY DEF MsgInv, Message
<1>1. CASE UNCHANGED vars
  BY <1>1 DEF vars
<1>2. ASSUME NEW decode, CheckReply(decode) \/ CheckQuery(decode) PROVE FALSE
  BY <1>2 DEF CheckReply, CheckQuery, Parsed
<1>3. CASE GetBufsz \/ TestIp \/ AddIp
  BY <1>3 DEF GetBufsz, TestIp, AddIp
<1>4. CASE CacheAdd
  <2>1. PICK w : w = foreach_record(m.body, FirstRecord(qnamelen), m.an + m.ns + m.ar, "get_ttl", FirstUd)
    OBVIOUS
  <2>2. (m' = m \/ m' = [m EXCEPT !.body = w.b]) /\ ascii' = ascii
    BY <1>4, <2>1 DEF CacheAdd, FirstUd
  <2>3. Qname(w.b) = Qname(m.body)
    BY <1>0, <2>1, FirstUdOk, WalkKeepsName
  <2>4. m' = m \/ m'.body = w.b
    BY <1>0, <2>2 DEF Message
  <2> QED
    BY <2>2, <2>3, <2>4
<1>5. ASSUME NEW d \in 1..MaxElapsed, UpdateTtl(d)
      PROVE  Qname(m'.body) = Qname(m.body) /\ ascii' = ascii
  <2>1. PICK w : w = foreach_record(m.body, FirstRecord(qnamelen), m.an + m.ns + m.ar, "update_ttl", -d)
    OBVIOUS
  <2>2. m' = [m EXCEPT !.body = w.b] /\ ascii' = ascii
    BY <1>5, <2>1 DEF UpdateTtl
  <2>3. "update_ttl" \in Callbacks /\ UdOk("update_ttl", -d)
    <3>1. -d \in Int
      OBVIOUS
    <3> QED
      BY <3>1 DEF Callbacks, UdOk
  <2>4. Qname(w.b) = Qname(m.body)
    BY <1>0, <2>1, <2>3, WalkKeepsName
  <2>5. m'.body = w.b
    BY <1>0, <2>2 DEF Message
  <2> QED
    BY <2>2, <2>4, <2>5
<1>6. CASE Answer
  BY <1>6, AnswerKeepsName DEF Answer
<1> QED
  BY <1>1, <1>2, <1>3, <1>4, <1>5, <1>6 DEF Next

(* Every step keeps the name and its text together. *)
LEMMA NamedNext ==
  ASSUME MsgInv, NameInv, [Next]_vars
  PROVE  NameInv'
<1>1. CASE pc \in Parsed
  <2>1. PICK b : b = m'.body
    OBVIOUS
  <2>2. Qname(b) = Qname(m.body) /\ ascii' = ascii
    BY <1>1, <2>1, NamedLater
  <2>3. IsTextOf(ascii', b)
    BY <1>1, <2>2 DEF NameInv, IsTextOf
  <2>4. ASSUME pc' = "cached" PROVE ~is_ignored(b)
    <3>1. is_ignored(b) = is_ignored(m.body)
      BY <2>2, IgnoredSame
    <3>2. CASE pc = "cached"
      BY <3>1, <3>2 DEF NameInv
    <3>3. CASE CacheAdd
      <4>1. ~is_ignored(m.body)
        BY <2>4, <3>3 DEF CacheAdd
      <4> QED
        BY <3>1, <4>1
    <3>4. pc = "cached" \/ CacheAdd
      BY <1>1, <2>4 DEF Next, vars, CheckReply, CheckQuery, GetBufsz, TestIp, AddIp, Answer, UpdateTtl,
                        Parsed
    <3> QED
      BY <3>2, <3>3, <3>4
  <2> QED
    BY <2>1, <2>3, <2>4 DEF NameInv
<1>2. CASE pc \notin Parsed /\ pc' \in Parsed
  <2>1. \E decode : CheckReply(decode) \/ CheckQuery(decode)
    BY <1>2 DEF Next, vars, GetBufsz, TestIp, AddIp, Answer, CacheAdd, UpdateTtl, Parsed
  <2> QED
    BY <1>2, <2>1, NamedWhenChecked DEF NameInv
<1>3. CASE pc' \notin Parsed
  BY <1>3 DEF NameInv, Parsed
<1> QED
  BY <1>1, <1>2, <1>3

(* What the invariant says of names. *)
LEMMA NamesFromInv ==
  ASSUME MsgInv, NameInv
  PROVE  NamesAgree
<1> DEFINE q == Qname(m.body)
           k == qnamelen - 1
<1> SUFFICES ASSUME pc \notin {"received", "bad", "dropped"}, q # Root, NoDotInLabels(q)
             PROVE  /\ ascii # None => dns_ascii_to_wire(ascii) = q
                    /\ pc = "cached" =>
                         \A d \in Ignored :
                           /\ decode_name(q) # Bad /\ decode_name(q) # decode_name(Append(d, 0))
                           /\ ~HasSuffix(decode_name(q), <<Dot>> \o decode_name(Append(d, 0)))
  BY DEF NamesAgree
<1>1. pc \in Parsed /\ Asks(m.body, qnamelen)
  BY DEF MsgInv
<1>2. qnamelen \in Nat \ {0}
  BY <1>1, FirstRecordIs
<1>3. /\ q \in Seq(Cells) /\ Len(q) = qnamelen /\ q[qnamelen] = 0
      /\ \A i \in 1..(qnamelen - 1) : q[i] # 0
      /\ qnamelen <= WireMax
  BY <1>1, QnameIs
<1> HIDE DEF q
<1>4. k \in Nat \ {0}
  <2>1. ASSUME qnamelen = 1 PROVE FALSE
    <3>1. q = Root
      BY <1>3, <2>1 DEF Root
    <3> QED
      BY <3>1
  <2> QED
    BY <1>2, <2>1
<1>5. /\ Len(q) = k + 1 /\ q[k + 1] = 0 /\ \A i \in 1..k : q[i] # 0
      /\ k + 1 <= WireMax
  <2>1. k + 1 = qnamelen
    BY <1>2
  <2> QED
    BY <1>3, <2>1
<1> HIDE DEF k
<1>6. ASSUME ascii # None PROVE dns_ascii_to_wire(ascii) = q
  <2>1. ascii = decode_name(q) /\ decode_name(q) # Bad
    BY <1>1, <1>6 DEF NameInv, IsTextOf, q
  <2>2. IsName(q, k, LabelStarts(q)) /\ decode_name(q) = TextOf(q, k, LabelStarts(q))
    BY <1>3, <1>4, <1>5, <2>1, DecodedName
  <2>3. \A i \in 1..k : q[i] = Dot => i \in LabelStarts(q)
    <3>1. \A i \in 1..k : i \in DOMAIN q
      BY <1>3, <1>4, <1>5
    <3> QED
      BY <3>1 DEF NoDotInLabels
  <2> QED
    BY <1>5, <2>1, <2>2, <2>3, RoundTrip
<1>7. ASSUME pc = "cached", NEW d \in Ignored
      PROVE  /\ decode_name(q) # Bad /\ decode_name(q) # decode_name(Append(d, 0))
             /\ ~HasSuffix(decode_name(q), <<Dot>> \o decode_name(Append(d, 0)))
  <2>1. ~is_ignored(m.body)
    BY <1>7 DEF NameInv
  <2>2. /\ dns_qname_domains(q, IgnoredLevels) # {Bad}
        /\ dns_qname_domains(q, IgnoredLevels) \cap Ignored = {}
    BY <2>1 DEF is_ignored, IgnoredLevels, LabelCount, q
  <2> QED
    BY <1>3, <1>4, <1>5, <2>2, NotIgnored
<1> QED
  BY <1>6, <1>7

(* For every message, every list of ignored names and every character that  *)
(* is the dot: the text of a checked name is turned back into that name by  *)
(* dns_ascii_to_wire, and no message is cached under a name that            *)
(* cache_ignore covers.                                                     *)
THEOREM NamesAgreeHolds == Spec => []NamesAgree
<1>1. Init => NameInv
  BY DEF Init, NameInv, Parsed
<1> QED
  BY <1>1, MsgInvInit, MsgInvNext, NamedNext, NamesFromInv, PTL DEF Spec

=============================================================================
