-------------------------- MODULE TcpSessionProofs --------------------------
(***************************************************************************)
(* Theorems about TcpSession, for every value of its constants.  The       *)
(* methods of a session are functions of the world, so the lemmas are      *)
(* about any world w and one session i of it: what the method does to i,   *)
(* and that it leaves the others alone.                                    *)
(***************************************************************************)
EXTENDS TcpSession, SequenceLemmas

-----------------------------------------------------------------------------
(* The inductive invariant, in parts. *)

World == [now : Nat, sess : Seq(Session), cur : [Upstreams -> Nat], list : Seq(Nat),
          backoff : [until : Nat, step : 0..10]]

(* An upstream's session is its own, and alive. *)
Owned(w) ==
  \A u \in Upstreams :
    w.cur[u] # 0 => /\ w.cur[u] \in DOMAIN w.sess
                    /\ w.sess[w.cur[u]].up = u /\ ~w.sess[w.cur[u]].freed

(* The list has every busy session once, and nothing else. *)
Listed(w) ==
  /\ IsInjective(w.list)
  /\ ToSet(w.list) = {i \in DOMAIN w.sess : w.sess[i].pending_n # 0}

Sound(w) == w \in World /\ Owned(w) /\ Listed(w)

(* pending_n counts the queries of both lists. *)
Counted(s) ==
  /\ s.pending_n = Len(s.send_list) + Cardinality(s.ack_list)
  /\ s.pending_n <= PendingMax

(* A session between two steps: the sender is where its lists say it is. *)
Settled(s) ==
  /\ Counted(s)
  /\ s.pending_n # 0 => s.sender # "none"
  /\ s.ack_list # {} => connected(s)
  /\ s.send_list # <<>> => s.sender # "wait"
  /\ s.freed => s.sender = "none" /\ s.pending_n = 0

(* A session without a proxy that its upstream has left and that waits for  *)
(* nothing is freed.                                                        *)
Gone(w, i) ==
  ~Proxied[w.sess[i].up] /\ w.cur[w.sess[i].up] # i /\ w.sess[i].pending_n = 0
    => w.sess[i].freed

TcpInv(w) ==
  Sound(w) /\ \A i \in DOMAIN w.sess : Settled(w.sess[i]) /\ Gone(w, i)

(* From w to v, session i may have changed and may have left its upstream;  *)
(* the other sessions are as they were.                                     *)
Touches(w, v, i) ==
  /\ DOMAIN v.sess = DOMAIN w.sess /\ v.now = w.now
  /\ v.sess[i].up = w.sess[i].up
  /\ \A j \in DOMAIN w.sess : j # i => v.sess[j] = w.sess[j]
  /\ \A u \in Upstreams : v.cur[u] = w.cur[u] \/ (w.cur[u] = i /\ v.cur[u] = 0)

-----------------------------------------------------------------------------
(* Worlds *)

(* The fields of a world. *)
LEMMA WorldFields ==
  ASSUME NEW w \in World
  PROVE  /\ w.now \in Nat /\ w.sess \in Seq(Session) /\ w.cur \in [Upstreams -> Nat]
         /\ w.list \in Seq(Nat) /\ w.backoff \in [until : Nat, step : 0..10]
         /\ DOMAIN w.sess = 1..Len(w.sess) /\ Len(w.sess) \in Nat
         /\ w.sess \in [1..Len(w.sess) -> Session]
         /\ \A i \in DOMAIN w.sess : w.sess[i] \in Session
<1>1. /\ w.now \in Nat /\ w.sess \in Seq(Session) /\ w.cur \in [Upstreams -> Nat]
      /\ w.list \in Seq(Nat) /\ w.backoff \in [until : Nat, step : 0..10]
  BY DEF World
<1>2. w.sess \in [1..Len(w.sess) -> Session] /\ Len(w.sess) \in Nat
  BY <1>1, LenProperties
<1> QED
  BY <1>1, <1>2

(* The fields of a session. *)
LEMMA SessionFields ==
  ASSUME NEW s \in Session
  PROVE  /\ s.up \in Upstreams /\ s.freed \in BOOLEAN /\ s.sender \in Places
         /\ s.send_list \in Seq(Qids) /\ s.ack_list \in SUBSET Qids
         /\ s.pending_n \in Nat /\ s.create_time \in Nat /\ s.query_time \in Nat
         /\ s.query_count \in Nat
         /\ IsFiniteSet(s.ack_list) /\ Cardinality(s.ack_list) \in Nat
         /\ Len(s.send_list) \in Nat
<1>1. s.ack_list \in SUBSET Qids
  BY DEF Session
<1>2. IsFiniteSet(s.ack_list)
  BY <1>1, TcpAssumption, FS_Subset
<1> QED
  BY <1>1, <1>2, FS_CardinalityType DEF Session

(* A session that is made now is a session, alive and idle. *)
LEMMA NewType ==
  ASSUME NEW w \in World, NEW u \in Upstreams
  PROVE  /\ new(w, u) \in Session /\ new(w, u).up = u /\ ~new(w, u).freed
         /\ new(w, u).pending_n = 0 /\ new(w, u).sender = "none"
         /\ new(w, u).send_list = <<>> /\ new(w, u).ack_list = {}
<1>1. <<>> \in Seq(Qids)
  OBVIOUS
<1> QED
  BY <1>1, WorldFields DEF new, Session, Places

(* Putting r in the place of session i, and l in the place of the list.     *)
LEMMA ReplaceSession ==
  ASSUME NEW w, Sound(w), NEW i \in DOMAIN w.sess, NEW v \in World,
         v.sess = [w.sess EXCEPT ![i] = v.sess[i]], v.now = w.now,
         v.cur = w.cur, v.sess[i] \in Session,
         v.sess[i].up = w.sess[i].up, v.sess[i].freed = w.sess[i].freed,
         IsInjective(v.list), ToSet(v.list) \ {i} = ToSet(w.list) \ {i},
         i \in ToSet(v.list) <=> v.sess[i].pending_n # 0
  PROVE  Sound(v) /\ Touches(w, v, i)
<1>1. w \in World /\ Owned(w) /\ Listed(w)
  BY DEF Sound
<1>2. DOMAIN w.sess = DOMAIN v.sess /\ \A j \in DOMAIN w.sess : j # i => v.sess[j] = w.sess[j]
  BY <1>1, WorldFields
<1>3. Touches(w, v, i)
  BY <1>2 DEF Touches
<1>4. Owned(v)
  BY <1>1, <1>2 DEF Owned
<1>5. Listed(v)
  BY <1>1, <1>2 DEF Listed
<1> QED
  BY <1>3, <1>4, <1>5 DEF Sound

(* The same with the list as it was: session i stays busy, or stays idle.   *)
LEMMA PutSession ==
  ASSUME NEW w, Sound(w), NEW i \in DOMAIN w.sess, NEW r \in Session,
         r.up = w.sess[i].up, r.freed = w.sess[i].freed,
         r.pending_n = 0 <=> w.sess[i].pending_n = 0
  PROVE  LET v == [w EXCEPT !.sess[i] = r]
         IN  /\ Sound(v) /\ Touches(w, v, i) /\ v.sess[i] = r /\ v.cur = w.cur
             /\ v.list = w.list /\ v.backoff = w.backoff /\ v.now = w.now
<1> DEFINE v == [w EXCEPT !.sess[i] = r]
<1>1. w \in World /\ Listed(w)
  BY DEF Sound
<1>2. w.sess \in Seq(Session) /\ DOMAIN w.sess = 1..Len(w.sess)
  BY <1>1, WorldFields
<1>3. [w.sess EXCEPT ![i] = r] \in Seq(Session) /\ [w.sess EXCEPT ![i] = r][i] = r
  BY <1>2, ExceptSeq
<1>4. v = [w EXCEPT !.sess = [w.sess EXCEPT ![i] = r]]
  BY <1>1 DEF World
<1> HIDE DEF v
<1>5. /\ v \in World /\ v.sess = [w.sess EXCEPT ![i] = v.sess[i]] /\ v.sess[i] = r
      /\ v.now = w.now /\ v.cur = w.cur /\ v.list = w.list /\ v.backoff = w.backoff
  BY <1>1, <1>3, <1>4 DEF World
<1>6. i \in ToSet(v.list) <=> v.sess[i].pending_n # 0
  BY <1>1, <1>5 DEF Listed
<1>7. Sound(v) /\ Touches(w, v, i)
  BY <1>1, <1>5, <1>6, ReplaceSession DEF Listed
<1> QED
  BY <1>5, <1>7 DEF v

(* Two methods of the same session, one after the other. *)
LEMMA TouchesTwice ==
  ASSUME NEW w, NEW v, NEW x, NEW i, Touches(w, v, i), Touches(v, x, i)
  PROVE  Touches(w, x, i)
BY DEF Touches

(* on_idle takes the session out of the list. *)
LEMMA OnIdleEffect ==
  ASSUME NEW w \in World, IsInjective(w.list), NEW i
  PROVE  LET v == on_idle(w, i)
         IN  /\ v \in World /\ IsInjective(v.list) /\ ToSet(v.list) = ToSet(w.list) \ {i}
             /\ v.sess = w.sess /\ v.cur = w.cur /\ v.now = w.now /\ v.backoff = w.backoff
             /\ v = [w EXCEPT !.list = v.list]
<1>1. /\ Unlist(w.list, i) \in Seq(Nat) /\ IsInjective(Unlist(w.list, i))
      /\ ToSet(Unlist(w.list, i)) = ToSet(w.list) \ {i}
  BY WorldFields, UnlistElements
<1> QED
  BY <1>1 DEF on_idle, World

(* The backoff is the only thing the outcome of a proxy changes. *)
LEMMA NoteFailEffect ==
  ASSUME NEW w \in World
  PROVE  /\ proxy_note_fail(w) \in World
         /\ proxy_note_fail(w).sess = w.sess /\ proxy_note_fail(w).cur = w.cur
         /\ proxy_note_fail(w).list = w.list /\ proxy_note_fail(w).now = w.now
<1> DEFINE step == IF w.backoff.step < 10 THEN w.backoff.step + 1 ELSE w.backoff.step
<1>1. step \in 1..10 /\ w.now \in Nat
  BY WorldFields
<1> HIDE DEF step
<1>2. step - 1 \in Nat
  BY <1>1
<1>3. 2 ^ (step - 1) \in Nat
  BY <1>2, PowerOfTwo
<1>4. Delay(step) \in Nat
  BY <1>3, TcpAssumption DEF Delay
<1>5. proxy_note_fail(w) = [w EXCEPT !.backoff = [until |-> w.now + Delay(step), step |-> step]]
  BY DEF proxy_note_fail, step
<1>6. [until |-> w.now + Delay(step), step |-> step] \in [until : Nat, step : 0..10]
  BY <1>1, <1>4
<1> QED
  BY <1>5, <1>6 DEF World

(* A success clears it. *)
LEMMA NoteSuccessEffect ==
  ASSUME NEW w \in World
  PROVE  /\ proxy_note_success(w) \in World
         /\ proxy_note_success(w).sess = w.sess /\ proxy_note_success(w).cur = w.cur
         /\ proxy_note_success(w).list = w.list /\ proxy_note_success(w).now = w.now
<1>1. [until |-> 0, step |-> 0] \in [until : Nat, step : 0..10]
  OBVIOUS
<1> QED
  BY <1>1 DEF proxy_note_success, World

-----------------------------------------------------------------------------
(* The methods of a session *)

(* free: the session is gone from the list and from its upstream. *)
LEMMA FreeEffect ==
  ASSUME NEW w, Sound(w), NEW i \in DOMAIN w.sess
  PROVE  LET v == free(w, i)
         IN  /\ Sound(v) /\ Touches(w, v, i)
             /\ v.sess[i].freed /\ v.sess[i].pending_n = 0 /\ v.sess[i].sender = "none"
             /\ v.sess[i].send_list = <<>> /\ v.sess[i].ack_list = {}
             /\ \A u \in Upstreams : v.cur[u] # i
<1> DEFINE s == w.sess[i]
           a == on_idle(w, i)
           r == [new(w, s.up) EXCEPT !.freed = TRUE, !.create_time = 0]
           g == [a EXCEPT !.sess[i] = r, !.cur[s.up] = IF @ = i THEN 0 ELSE @]
<1>1. /\ w \in World /\ Owned(w) /\ IsInjective(w.list)
      /\ ToSet(w.list) = {j \in DOMAIN w.sess : w.sess[j].pending_n # 0}
  BY DEF Sound, Listed
<1>2. /\ s \in Session /\ s.up \in Upstreams /\ w.now \in Nat
      /\ w.sess \in Seq(Session) /\ w.cur \in [Upstreams -> Nat]
      /\ DOMAIN w.sess = 1..Len(w.sess) /\ i # 0
  BY <1>1, WorldFields, SessionFields
<1>3. /\ a \in World /\ IsInjective(a.list) /\ ToSet(a.list) = ToSet(w.list) \ {i}
      /\ a.sess = w.sess /\ a.cur = w.cur /\ a.now = w.now /\ a.backoff = w.backoff
  BY <1>1, OnIdleEffect
<1>4. /\ r \in Session /\ r.freed /\ r.pending_n = 0 /\ r.sender = "none"
      /\ r.send_list = <<>> /\ r.ack_list = {} /\ r.up = s.up
  <2> HIDE DEF s
  <2>1. /\ new(w, s.up) \in Session /\ new(w, s.up).up = s.up
        /\ new(w, s.up).pending_n = 0 /\ new(w, s.up).sender = "none"
        /\ new(w, s.up).send_list = <<>> /\ new(w, s.up).ack_list = {}
    BY <1>1, <1>2, NewType
  <2> QED
    BY <2>1 DEF Session
<1> HIDE DEF a, r, s
<1>5. /\ g \in World /\ g.sess = [w.sess EXCEPT ![i] = r]
      /\ g.cur = [w.cur EXCEPT ![s.up] = IF @ = i THEN 0 ELSE @]
      /\ g.list = a.list /\ g.now = w.now
  <2>1. g.sess = [w.sess EXCEPT ![i] = r] /\ g.sess \in Seq(Session)
    BY <1>2, <1>3, <1>4, ExceptSeq DEF World
  <2>2. /\ g.cur = [w.cur EXCEPT ![s.up] = IF @ = i THEN 0 ELSE @]
        /\ g.cur \in [Upstreams -> Nat]
    BY <1>2, <1>3 DEF World
  <2>3. g.list = a.list /\ g.now = w.now /\ g.backoff = a.backoff
    BY <1>3 DEF World
  <2>4. g = [a EXCEPT !.sess = g.sess, !.cur = g.cur]
    BY <1>3 DEF World
  <2> HIDE DEF g
  <2> QED
    BY <1>3, <2>1, <2>2, <2>3, <2>4 DEF World
<1> DEFINE v == free(w, i)
<1>6. v \in World /\ v.sess = g.sess /\ v.cur = g.cur /\ v.list = g.list /\ v.now = g.now
  BY <1>5, NoteFailEffect DEF free, s, a, r
<1> HIDE DEF g, v
<1>7. /\ v.sess[i] = r /\ DOMAIN v.sess = DOMAIN w.sess
      /\ \A j \in DOMAIN w.sess : j # i => v.sess[j] = w.sess[j]
  BY <1>2, <1>5, <1>6
<1>8. \A u \in Upstreams : v.cur[u] = IF u = s.up /\ w.cur[u] = i THEN 0 ELSE w.cur[u]
  BY <1>2, <1>5, <1>6
<1>9. \A u \in Upstreams : w.cur[u] = i => u = s.up
  BY <1>1, <1>2 DEF Owned, s
<1>10. \A u \in Upstreams : v.cur[u] # i /\ (v.cur[u] = w.cur[u] \/ (w.cur[u] = i /\ v.cur[u] = 0))
  BY <1>2, <1>8, <1>9
<1>11. Touches(w, v, i)
  BY <1>4, <1>5, <1>6, <1>7, <1>10 DEF Touches, s
<1>12. Owned(v)
  BY <1>1, <1>7, <1>10 DEF Owned
<1>13. Listed(v)
  BY <1>1, <1>3, <1>4, <1>5, <1>6, <1>7 DEF Listed
<1> QED
  BY <1>4, <1>6, <1>7, <1>10, <1>11, <1>12, <1>13 DEF Sound, v

(* Drop: no queries, no place in the list. *)
LEMMA DropEffect ==
  ASSUME NEW w, Sound(w), NEW i \in DOMAIN w.sess
  PROVE  LET v == Drop(w, i)
         IN  /\ Sound(v) /\ Touches(w, v, i) /\ v.cur = w.cur
             /\ v.sess[i].freed = w.sess[i].freed /\ v.sess[i].sender = w.sess[i].sender
             /\ v.sess[i].send_list = <<>> /\ v.sess[i].ack_list = {}
             /\ v.sess[i].pending_n = 0 /\ v.sess[i].create_time = w.sess[i].create_time
             /\ v.sess[i].query_count = w.sess[i].query_count
<1> DEFINE a == on_idle(w, i)
           r == [w.sess[i] EXCEPT !.send_list = <<>>, !.ack_list = {}, !.pending_n = 0]
           v == Drop(w, i)
<1>1. w \in World /\ IsInjective(w.list)
  BY DEF Sound, Listed
<1>2. w.sess[i] \in Session /\ w.sess \in Seq(Session) /\ DOMAIN w.sess = 1..Len(w.sess)
  BY <1>1, WorldFields
<1>3. /\ a \in World /\ IsInjective(a.list) /\ ToSet(a.list) = ToSet(w.list) \ {i}
      /\ a.sess = w.sess /\ a.cur = w.cur /\ a.now = w.now /\ a.backoff = w.backoff
  BY <1>1, OnIdleEffect
<1>4. /\ r \in Session /\ r.up = w.sess[i].up /\ r.freed = w.sess[i].freed
      /\ r.sender = w.sess[i].sender /\ r.pending_n = 0 /\ r.send_list = <<>>
      /\ r.ack_list = {} /\ r.create_time = w.sess[i].create_time
      /\ r.query_count = w.sess[i].query_count
  <2>1. <<>> \in Seq(Qids)
    OBVIOUS
  <2> QED
    BY <1>2, <2>1 DEF Session
<1>5. v = [a EXCEPT !.sess = [w.sess EXCEPT ![i] = r]]
  BY <1>2, <1>3 DEF Drop, World, Session
<1> HIDE DEF a, r, v
<1>6. [w.sess EXCEPT ![i] = r] \in Seq(Session) /\ [w.sess EXCEPT ![i] = r][i] = r
  BY <1>2, <1>4, ExceptSeq
<1>7. /\ v \in World /\ v.sess = [w.sess EXCEPT ![i] = v.sess[i]] /\ v.sess[i] = r
      /\ v.now = w.now /\ v.cur = w.cur /\ v.list = a.list
  BY <1>3, <1>5, <1>6 DEF World
<1>8. Sound(v) /\ Touches(w, v, i)
  BY <1>3, <1>4, <1>7, ReplaceSession
<1> QED
  BY <1>4, <1>7, <1>8 DEF v

-----------------------------------------------------------------------------
(* The queries of a session *)

(* A session without pending queries has none in its lists, and a session   *)
(* with queries in its lists has pending ones.                              *)
LEMMA IdleIsEmpty ==
  ASSUME NEW s \in Session, Counted(s)
  PROVE  s.pending_n = 0 <=> s.send_list = <<>> /\ s.ack_list = {}
<1>1. /\ Len(s.send_list) \in Nat /\ Cardinality(s.ack_list) \in Nat
      /\ s.pending_n = Len(s.send_list) + Cardinality(s.ack_list)
  BY SessionFields DEF Counted
<1>2. s.send_list = <<>> <=> Len(s.send_list) = 0
  BY SessionFields
<1>3. s.ack_list = {} <=> Cardinality(s.ack_list) = 0
  BY SessionFields, FS_EmptySet
<1> QED
  BY <1>1, <1>2, <1>3

(* on_send_msg moves the first message of the queue to the ones that wait   *)
(* for their replies.                                                       *)
LEMMA OnSendMsgEffect ==
  ASSUME NEW s \in Session, Counted(s), s.send_list # <<>>
  PROVE  LET t == on_send_msg(s)
         IN  /\ t \in Session /\ Counted(t) /\ t.sender = "write" /\ t.pending_n # 0
             /\ t.up = s.up /\ t.freed = s.freed
             /\ t.create_time = s.create_time /\ t.query_count = s.query_count
             /\ t.ack_list = s.ack_list \cup {Head(s.send_list)}
             /\ t.send_list = Tail(s.send_list)
             /\ Outstanding(t) = Outstanding(s)
<1> DEFINE q == Head(s.send_list)
           n == IF q \in s.ack_list THEN s.pending_n - 1 ELSE s.pending_n
           t == on_send_msg(s)
<1>1. /\ s.send_list \in Seq(Qids) /\ s.ack_list \in SUBSET Qids /\ s.pending_n \in Nat
      /\ IsFiniteSet(s.ack_list) /\ Cardinality(s.ack_list) \in Nat
      /\ s.pending_n = Len(s.send_list) + Cardinality(s.ack_list)
      /\ s.pending_n <= PendingMax /\ PendingMax \in Nat
  BY SessionFields, TcpAssumption DEF Counted
<1>2. /\ q \in Qids /\ Tail(s.send_list) \in Seq(Qids)
      /\ Len(Tail(s.send_list)) = Len(s.send_list) - 1
      /\ \A k \in 1..Len(Tail(s.send_list)) : Tail(s.send_list)[k] = s.send_list[k + 1]
      /\ Len(s.send_list) \in Nat \ {0} /\ q = s.send_list[1]
  BY <1>1, HeadTailProperties, EmptySeq
<1>3. /\ IsFiniteSet(s.ack_list \cup {q})
      /\ Cardinality(s.ack_list \cup {q}) =
           IF q \in s.ack_list THEN Cardinality(s.ack_list) ELSE Cardinality(s.ack_list) + 1
  BY <1>1, FS_AddElement
<1> HIDE DEF q
<1>4. q \in s.ack_list => Cardinality(s.ack_list) # 0
  BY <1>1, FS_EmptySet
<1>5. /\ n \in Nat /\ n # 0 /\ n <= PendingMax
      /\ n = Len(Tail(s.send_list)) + Cardinality(s.ack_list \cup {q})
  BY <1>1, <1>2, <1>3, <1>4
<1>6. t = [s EXCEPT !.send_list = Tail(s.send_list), !.ack_list = s.ack_list \cup {q},
                    !.sender = "write", !.pending_n = n]
  BY DEF on_send_msg, q, Session
<1> HIDE DEF n, t
<1>7. /\ t \in Session /\ t.sender = "write" /\ t.pending_n = n
      /\ t.up = s.up /\ t.freed = s.freed
      /\ t.create_time = s.create_time /\ t.query_count = s.query_count
      /\ t.ack_list = s.ack_list \cup {q} /\ t.send_list = Tail(s.send_list)
  BY <1>1, <1>2, <1>5, <1>6 DEF Session, Places
<1>8. Counted(t)
  BY <1>5, <1>7 DEF Counted
<1>9. ToSet(s.send_list) = {q} \cup ToSet(Tail(s.send_list))
  BY <1>1, <1>2, HeadToSet DEF q
<1>10. Outstanding(t) = Outstanding(s)
  BY <1>7, <1>9 DEF Outstanding
<1> QED
  BY <1>5, <1>7, <1>8, <1>10 DEF q, t

(* clear_ack_list(.resend): what was sent is in the queue again. *)
LEMMA ResendEffect ==
  ASSUME NEW s \in Session, Counted(s)
  PROVE  LET t == resend(s)
         IN  /\ t \in Session /\ Counted(t) /\ t.ack_list = {}
             /\ t.up = s.up /\ t.freed = s.freed /\ t.sender = s.sender
             /\ t.pending_n = s.pending_n /\ t.query_count = s.query_count
             /\ ToSet(t.send_list) = Outstanding(s)
<1> DEFINE l == SetToSeq(s.ack_list)
           t == resend(s)
<1>1. /\ s.send_list \in Seq(Qids) /\ s.ack_list \in SUBSET Qids
      /\ IsFiniteSet(s.ack_list) /\ Cardinality(s.ack_list) \in Nat
      /\ s.pending_n = Len(s.send_list) + Cardinality(s.ack_list)
      /\ Len(s.send_list) \in Nat
  BY SessionFields DEF Counted
<1>2. /\ l \in Seq(s.ack_list) /\ Len(l) = Cardinality(s.ack_list)
      /\ ToSet(l) = s.ack_list
  BY <1>1, SetToSeqElements
<1> HIDE DEF l
<1>3. l \in Seq(Qids)
  BY <1>1, <1>2, SeqMonotonic
<1>4. /\ l \o s.send_list \in Seq(Qids)
      /\ Len(l \o s.send_list) = Len(l) + Len(s.send_list)
      /\ ToSet(l \o s.send_list) = ToSet(l) \cup ToSet(s.send_list)
  BY <1>1, <1>3, ConcatProperties, ConcatToSet
<1>5. t = [s EXCEPT !.ack_list = {}, !.send_list = l \o s.send_list]
  BY DEF resend, l
<1> HIDE DEF t
<1>6. /\ t \in Session /\ t.ack_list = {} /\ t.up = s.up /\ t.freed = s.freed
      /\ t.sender = s.sender /\ t.pending_n = s.pending_n /\ t.send_list = l \o s.send_list
      /\ t.query_count = s.query_count
  BY <1>4, <1>5 DEF Session
<1>7. Counted(t)
  <2>1. Cardinality({}) = 0
    BY FS_EmptySet
  <2> QED
    BY <1>1, <1>2, <1>4, <1>6, <2>1 DEF Counted
<1> QED
  BY <1>2, <1>4, <1>6, <1>7 DEF t, Outstanding

(* What a step that is no reply may do to the queries of a session: s       *)
(* before, t after.                                                         *)
LosesNothing(s, t) ==
  /\ t.sender = "connect" => Outstanding(s) \subseteq ToSet(t.send_list) \/ GivenUp(s, t)
  /\ connected(t) => Outstanding(s) \subseteq Outstanding(t)

(* What the reply q may do. *)
LosesOnly(s, t, q) ==
  /\ t.sender # "connect" /\ ToSet(s.send_list) \subseteq Outstanding(t)
  /\ Outstanding(s) \ Outstanding(t) \subseteq {q}

(* A session that keeps all it has loses nothing. *)
LEMMA KeptIsNotLost ==
  ASSUME NEW s, NEW t, Settled(t), Outstanding(s) \subseteq Outstanding(t)
  PROVE  LosesNothing(s, t)
<1>1. t.sender = "connect" => t.ack_list = {}
  BY DEF Settled, connected
<1> QED
  BY <1>1 DEF LosesNothing, Outstanding

(* The session is its upstream's and may take another query. *)
HasRoom(w, i) ==
  LET s == w.sess[i]
  IN w.cur[s.up] = i /\ ~(CountMax[s.up] > 0 /\ s.query_count >= CountMax[s.up])

(* start: the session connects, with its queue, or has given its queries    *)
(* up; it is freed if that was the end of it, which it is not while it may  *)
(* take another query.                                                      *)
LEMMA StartEffect ==
  ASSUME NEW w, Sound(w), NEW i \in DOMAIN w.sess, NEW outcome \in Outcomes,
         ~w.sess[i].freed, Counted(w.sess[i]), w.sess[i].ack_list = {},
         w.sess[i].sender = "none"
  PROVE  LET v == start(w, i, outcome)
         IN  /\ Sound(v) /\ Touches(w, v, i) /\ Settled(v.sess[i]) /\ Gone(v, i)
             /\ v.sess[i].sender \in {"none", "connect"}
             /\ v.sess[i].sender = "connect" => /\ v.sess[i].send_list = w.sess[i].send_list
                                                /\ v.sess[i].pending_n = w.sess[i].pending_n
             /\ ~v.sess[i].freed => v.sess[i].query_count = w.sess[i].query_count
             /\ HasRoom(w, i) => ~v.sess[i].freed
<1> DEFINE s == w.sess[i]
           tries == Proxied[s.up] => proxy_can_try(w)
           b == [w EXCEPT !.sess[i].create_time = w.now]
           noted == outcome = "refused" /\ Proxied[s.up] /\ tries
           f == IF noted THEN Drop(proxy_note_fail(b), i) ELSE Drop(b, i)
           c == [b EXCEPT !.sess[i].sender = "connect"]
           after == IF outcome = "waits" /\ tries THEN c ELSE f
           rb == [s EXCEPT !.create_time = w.now]
           rc == [rb EXCEPT !.sender = "connect"]
<1>1. w \in World /\ s \in Session /\ w.now \in Nat
  BY WorldFields DEF Sound
<1>2. /\ rb \in Session /\ rb.up = s.up /\ rb.freed = s.freed /\ rb.sender = "none"
      /\ rb.pending_n = s.pending_n /\ rb.send_list = s.send_list /\ rb.ack_list = {}
      /\ rc \in Session /\ rc.up = s.up /\ rc.freed = s.freed /\ rc.sender = "connect"
      /\ rc.pending_n = s.pending_n /\ rc.send_list = s.send_list /\ rc.ack_list = {}
      /\ rb.create_time = w.now /\ rb.query_count = s.query_count
      /\ rc.create_time = w.now /\ rc.query_count = s.query_count
  BY <1>1 DEF Session, Places
<1>3. b = [w EXCEPT !.sess[i] = rb]
  BY <1>1 DEF World
<1>4. Sound(b) /\ Touches(w, b, i) /\ b.sess[i] = rb /\ b.cur = w.cur /\ b.now = w.now
  <2> HIDE DEF rb, b
  <2>1. rb.pending_n = 0 <=> s.pending_n = 0
    BY <1>2
  <2> QED
    BY <1>2, <1>3, <2>1, PutSession
<1>5. c = [b EXCEPT !.sess[i] = rc]
  <2>1. b \in World
    BY <1>4 DEF Sound
  <2> HIDE DEF b
  <2> QED
    BY <1>4, <2>1 DEF World
<1> HIDE DEF b, rb, rc
<1>6. i \in DOMAIN b.sess
  BY <1>4 DEF Touches
<1>7. Sound(c) /\ Touches(w, c, i) /\ c.sess[i] = rc /\ c.cur = w.cur
  <2>1. Sound(c) /\ Touches(b, c, i) /\ c.sess[i] = rc /\ c.cur = b.cur
    <3> HIDE DEF c
    <3>1. /\ rc.pending_n = 0 <=> b.sess[i].pending_n = 0
          /\ rc.up = b.sess[i].up /\ rc.freed = b.sess[i].freed
      BY <1>2, <1>4
    <3> QED
      BY <1>2, <1>4, <1>5, <1>6, <3>1, PutSession
  <2> QED
    BY <1>4, <2>1, TouchesTwice
<1>8. /\ Sound(f) /\ Touches(w, f, i) /\ f.cur = w.cur
      /\ f.sess[i].freed = s.freed /\ f.sess[i].sender = "none"
      /\ f.sess[i].send_list = <<>> /\ f.sess[i].ack_list = {} /\ f.sess[i].pending_n = 0
      /\ f.sess[i].create_time = w.now /\ f.sess[i].query_count = s.query_count
  <2> DEFINE p == proxy_note_fail(b)
  <2>1. b \in World
    BY <1>4 DEF Sound
  <2>2. p \in World /\ p.sess = b.sess /\ p.cur = b.cur /\ p.list = b.list /\ p.now = b.now
    BY <2>1, NoteFailEffect
  <2> HIDE DEF p
  <2>3. Sound(p) /\ Touches(b, p, i)
    BY <1>4, <2>2 DEF Sound, Owned, Listed, Touches
  <2>4. CASE noted
    <3>1. f = Drop(p, i)
      BY <2>4 DEF p
    <3>2. /\ Sound(f) /\ Touches(p, f, i) /\ f.cur = p.cur
          /\ f.sess[i].freed = p.sess[i].freed /\ f.sess[i].sender = p.sess[i].sender
          /\ f.sess[i].send_list = <<>> /\ f.sess[i].ack_list = {} /\ f.sess[i].pending_n = 0
          /\ f.sess[i].create_time = p.sess[i].create_time
          /\ f.sess[i].query_count = p.sess[i].query_count
      BY <1>6, <2>2, <2>3, <3>1, DropEffect
    <3> HIDE DEF f
    <3> QED
      BY <1>2, <1>4, <2>2, <2>3, <3>2, TouchesTwice
  <2>5. CASE ~noted
    <3>1. f = Drop(b, i)
      BY <2>5
    <3>2. /\ Sound(f) /\ Touches(b, f, i) /\ f.cur = b.cur
          /\ f.sess[i].freed = b.sess[i].freed /\ f.sess[i].sender = b.sess[i].sender
          /\ f.sess[i].send_list = <<>> /\ f.sess[i].ack_list = {} /\ f.sess[i].pending_n = 0
          /\ f.sess[i].create_time = b.sess[i].create_time
          /\ f.sess[i].query_count = b.sess[i].query_count
      BY <1>4, <1>6, <3>1, DropEffect
    <3> HIDE DEF f
    <3> QED
      BY <1>2, <1>4, <3>2, TouchesTwice
  <2> QED
    BY <2>4, <2>5
<1>9. start(w, i, outcome) =
        IF is_idle(after.sess[i]) /\ is_retire(after, i) THEN free(after, i) ELSE after
  BY DEF start, b
<1> HIDE DEF c, f
<1>10. /\ Sound(after) /\ Touches(w, after, i) /\ Settled(after.sess[i])
       /\ after.sess[i].sender \in {"none", "connect"}
       /\ after.sess[i].sender = "connect" => /\ after.sess[i].send_list = s.send_list
                                              /\ after.sess[i].pending_n = s.pending_n
       /\ after.cur = w.cur /\ after.sess[i].create_time = w.now
       /\ after.sess[i].query_count = s.query_count /\ ~after.sess[i].freed
  <2>1. Settled(c.sess[i])
    BY <1>2, <1>7 DEF Settled, Counted
  <2>2. Settled(f.sess[i])
    <3>1. Cardinality({}) = 0 /\ Len(<<>>) = 0
      BY FS_EmptySet
    <3> QED
      BY <1>8, <3>1, TcpAssumption DEF Settled, Counted
  <2> QED
    BY <1>2, <1>7, <1>8, <2>1, <2>2
<1> HIDE DEF after
<1>11. i \in DOMAIN after.sess /\ after \in World
  BY <1>10 DEF Touches, Sound
<1>14. HasRoom(w, i) => ~is_retire(after, i)
  <2>1. s.up \in Upstreams /\ after.sess[i].up = s.up /\ after.now = w.now
    BY <1>1, <1>10, SessionFields DEF Touches
  <2>2. Life[s.up] \in Nat
    BY <2>1, TcpAssumption
  <2>3. ~(Life[s.up] > 0 /\ w.now >= w.now + Life[s.up])
    BY <1>1, <2>2
  <2> QED
    BY <1>10, <2>1, <2>3 DEF HasRoom, is_retire
<1>12. CASE is_idle(after.sess[i]) /\ is_retire(after, i)
  <2> DEFINE v == free(after, i)
  <2>1. start(w, i, outcome) = v
    BY <1>9, <1>12
  <2>2. /\ Sound(v) /\ Touches(after, v, i)
        /\ v.sess[i].freed /\ v.sess[i].pending_n = 0 /\ v.sess[i].sender = "none"
        /\ v.sess[i].send_list = <<>> /\ v.sess[i].ack_list = {}
    BY <1>10, <1>11, FreeEffect
  <2> HIDE DEF v
  <2>3. Settled(v.sess[i]) /\ Gone(v, i)
    <3>1. Cardinality({}) = 0 /\ Len(<<>>) = 0
      BY FS_EmptySet
    <3> QED
      BY <2>2, <3>1, TcpAssumption DEF Settled, Counted, Gone
  <2> QED
    BY <1>10, <1>12, <1>14, <2>1, <2>2, <2>3, TouchesTwice
<1>13. CASE ~(is_idle(after.sess[i]) /\ is_retire(after, i))
  <2>1. start(w, i, outcome) = after
    BY <1>9, <1>13
  <2>2. Gone(after, i)
    BY <1>13 DEF Gone, is_idle, is_retire
  <2> QED
    BY <1>10, <2>1, <2>2
<1> QED
  BY <1>12, <1>13

(* stop: the session connects again, with all its queries, or has none.     *)
LEMMA StopEffect ==
  ASSUME NEW w, Sound(w), NEW i \in DOMAIN w.sess, NEW outcome \in Outcomes,
         ~w.sess[i].freed, Counted(w.sess[i])
  PROVE  LET v == stop(w, i, outcome)
         IN  /\ Sound(v) /\ Touches(w, v, i) /\ Settled(v.sess[i]) /\ Gone(v, i)
             /\ v.sess[i].sender \in {"none", "connect"}
             /\ v.sess[i].sender = "connect" =>
                  Outstanding(w.sess[i]) \subseteq ToSet(v.sess[i].send_list)
             /\ w.sess[i].pending_n # 0 /\ HasRoom(w, i) =>
                  ~v.sess[i].freed /\ v.sess[i].query_count = w.sess[i].query_count
<1> DEFINE s == w.sess[i]
           r == [s EXCEPT !.sender = "none"]
           c == [w EXCEPT !.sess[i].sender = "none"]
           v == stop(w, i, outcome)
<1>1. w \in World /\ s \in Session /\ s.up \in Upstreams
  BY WorldFields, SessionFields DEF Sound
<1>2. /\ r \in Session /\ r.up = s.up /\ r.freed = s.freed /\ r.sender = "none"
      /\ r.pending_n = s.pending_n /\ r.send_list = s.send_list /\ r.ack_list = s.ack_list
      /\ r.query_count = s.query_count
  BY <1>1 DEF Session, Places
<1>3. c = [w EXCEPT !.sess[i] = r]
  BY <1>1 DEF World
<1>4. /\ Sound(c) /\ Touches(w, c, i) /\ c.sess[i] = r /\ c.cur = w.cur /\ c.now = w.now
      /\ i \in DOMAIN c.sess /\ c \in World
  <2> HIDE DEF r, c
  <2>1. r.pending_n = 0 <=> s.pending_n = 0
    BY <1>2
  <2>2. /\ Sound(c) /\ Touches(w, c, i) /\ c.sess[i] = r /\ c.cur = w.cur /\ c.now = w.now
    BY <1>2, <1>3, <2>1, PutSession
  <2> QED
    BY <2>2 DEF Touches, Sound
<1>5. Cardinality({}) = 0 /\ Len(<<>>) = 0
  BY FS_EmptySet
<1>6. CASE ~is_idle(s) /\ Proxied[s.up] /\ ~proxy_can_try(w)
  <2>1. v = Drop(c, i)
    BY <1>6 DEF stop
  <2> HIDE DEF v, c, r
  <2>2. /\ Sound(v) /\ Touches(c, v, i) /\ v.sess[i].freed = r.freed
        /\ v.sess[i].sender = "none" /\ v.sess[i].send_list = <<>>
        /\ v.sess[i].ack_list = {} /\ v.sess[i].pending_n = 0
        /\ v.sess[i].query_count = s.query_count
    BY <1>2, <1>4, <2>1, DropEffect
  <2>3. v.sess[i].up = s.up
    BY <1>2, <1>4, <2>2 DEF Touches
  <2>4. Settled(v.sess[i]) /\ Gone(v, i)
    BY <1>2, <1>5, <1>6, <2>2, <2>3, TcpAssumption DEF Settled, Counted, Gone
  <2> QED
    BY <1>2, <1>4, <2>2, <2>4, TouchesTwice DEF v
<1>7. CASE ~is_idle(s) /\ (Proxied[s.up] => proxy_can_try(w))
  <2> DEFINE d == [c EXCEPT !.sess[i] = resend(r)]
  <2>1. v = start(d, i, outcome)
    <3>1. [c EXCEPT !.sess[i] = resend(@)] = d
      <4> HIDE DEF c, r
      <4> QED
        BY <1>4 DEF World
    <3> QED
      BY <1>7, <3>1 DEF stop
  <2>2. Counted(r)
    BY <1>2 DEF Counted
  <2> HIDE DEF v, c, r
  <2>3. /\ resend(r) \in Session /\ Counted(resend(r)) /\ resend(r).ack_list = {}
        /\ resend(r).up = r.up /\ resend(r).freed = r.freed /\ resend(r).sender = "none"
        /\ resend(r).pending_n = r.pending_n /\ resend(r).query_count = s.query_count
        /\ ToSet(resend(r).send_list) = Outstanding(r)
    BY <1>2, <2>2, ResendEffect
  <2>4. Sound(d) /\ Touches(c, d, i) /\ d.sess[i] = resend(r) /\ d.cur = w.cur
    <3>1. resend(r).pending_n = 0 <=> c.sess[i].pending_n = 0
      BY <1>4, <2>3
    <3> QED
      BY <1>4, <2>3, <3>1, PutSession
  <2> HIDE DEF d
  <2>5. i \in DOMAIN d.sess /\ ~d.sess[i].freed
    BY <1>2, <1>4, <2>3, <2>4 DEF Touches
  <2>6. /\ Sound(v) /\ Touches(d, v, i) /\ Settled(v.sess[i]) /\ Gone(v, i)
        /\ v.sess[i].sender \in {"none", "connect"}
        /\ v.sess[i].sender = "connect" => v.sess[i].send_list = d.sess[i].send_list
        /\ ~v.sess[i].freed => v.sess[i].query_count = d.sess[i].query_count
        /\ HasRoom(d, i) => ~v.sess[i].freed
    BY <2>1, <2>3, <2>4, <2>5, StartEffect
  <2>7. Touches(w, v, i)
    BY <1>4, <2>4, <2>6, TouchesTwice
  <2>8. Outstanding(s) = Outstanding(r)
    BY <1>2 DEF Outstanding
  <2>9. HasRoom(w, i) => HasRoom(d, i)
    BY <1>2, <2>3, <2>4 DEF HasRoom
  <2> QED
    BY <2>3, <2>4, <2>6, <2>7, <2>8, <2>9 DEF v
<1>8. CASE is_idle(s)
  <2>1. v = IF is_retire(w, i) THEN free(c, i) ELSE c
    BY <1>8 DEF stop
  <2> HIDE DEF v, c, r
  <2>2. CASE is_retire(w, i)
    <3>1. /\ Sound(v) /\ Touches(c, v, i)
          /\ v.sess[i].freed /\ v.sess[i].pending_n = 0 /\ v.sess[i].sender = "none"
          /\ v.sess[i].send_list = <<>> /\ v.sess[i].ack_list = {}
      BY <1>4, <2>1, <2>2, FreeEffect
    <3>2. Settled(v.sess[i]) /\ Gone(v, i)
      BY <1>5, <3>1, TcpAssumption DEF Settled, Counted, Gone
    <3> QED
      BY <1>4, <1>8, <3>1, <3>2, TouchesTwice DEF v, is_idle
  <2>3. CASE ~is_retire(w, i)
    <3>1. v = c /\ w.cur[s.up] = i
      BY <2>1, <2>3 DEF is_retire
    <3>2. Gone(c, i)
      BY <1>2, <1>4, <3>1 DEF Gone
    <3>3. Settled(c.sess[i])
      <4>1. Counted(r) /\ r.pending_n = 0 /\ ~r.freed
        BY <1>2, <1>8 DEF Counted, is_idle
      <4>2. r.send_list = <<>> /\ r.ack_list = {}
        BY <1>2, <4>1, IdleIsEmpty
      <4> QED
        BY <1>2, <1>4, <4>1, <4>2 DEF Settled
    <3> QED
      BY <1>2, <1>4, <1>8, <3>1, <3>2, <3>3 DEF v, is_idle
  <2> QED
    BY <2>2, <2>3
<1> QED
  BY <1>6, <1>7, <1>8

(* A session without queries does not connect again. *)
LEMMA StopIdle ==
  ASSUME NEW w, Sound(w), NEW i \in DOMAIN w.sess, NEW outcome \in Outcomes,
         w.sess[i].pending_n = 0
  PROVE  stop(w, i, outcome).sess[i].sender # "connect"
<1> DEFINE r == [w.sess[i] EXCEPT !.sender = "none"]
           c == [w EXCEPT !.sess[i].sender = "none"]
<1>1. w \in World /\ w.sess[i] \in Session
  BY WorldFields DEF Sound
<1>2. /\ r \in Session /\ r.up = w.sess[i].up /\ r.freed = w.sess[i].freed
      /\ r.sender = "none" /\ r.pending_n = w.sess[i].pending_n
  BY <1>1 DEF Session, Places
<1>3. c = [w EXCEPT !.sess[i] = r]
  BY <1>1 DEF World
<1>4. stop(w, i, outcome) = IF is_retire(w, i) THEN free(c, i) ELSE c
  BY DEF stop, is_idle
<1> HIDE DEF r, c
<1>5. r.pending_n = 0 <=> w.sess[i].pending_n = 0
  BY <1>2
<1>6. Sound(c) /\ Touches(w, c, i) /\ c.sess[i] = r
  BY <1>2, <1>3, <1>5, PutSession
<1>7. i \in DOMAIN c.sess
  BY <1>6 DEF Touches
<1>8. free(c, i).sess[i].sender = "none"
  BY <1>6, <1>7, FreeEffect
<1> QED
  BY <1>2, <1>4, <1>6, <1>8

(* The loop of query_sender, when the sender is not waiting for messages. *)
LEMMA NextMessageEffect ==
  ASSUME NEW s \in Session, Counted(s), ~s.freed
  PROVE  LET t == NextMessage(s)
         IN  /\ t \in Session /\ Settled(t) /\ t.up = s.up /\ t.freed = s.freed
             /\ t.pending_n = 0 <=> s.pending_n = 0
             /\ connected(t) /\ Outstanding(t) = Outstanding(s)
<1>1. CASE s.send_list = <<>>
  <2> DEFINE t == [s EXCEPT !.sender = "wait"]
  <2>1. NextMessage(s) = t
    BY <1>1 DEF NextMessage
  <2>2. /\ t \in Session /\ t.up = s.up /\ t.freed = s.freed /\ t.pending_n = s.pending_n
        /\ t.send_list = s.send_list /\ t.ack_list = s.ack_list /\ t.sender = "wait"
    BY DEF Session, Places
  <2> HIDE DEF t
  <2> QED
    BY <1>1, <2>1, <2>2 DEF Settled, Counted, connected, Outstanding
<1>2. CASE s.send_list # <<>>
  <2> DEFINE t == on_send_msg(s)
  <2>1. NextMessage(s) = t
    BY <1>2 DEF NextMessage
  <2>2. /\ t \in Session /\ Counted(t) /\ t.sender = "write" /\ t.pending_n # 0
        /\ t.up = s.up /\ t.freed = s.freed /\ Outstanding(t) = Outstanding(s)
    BY <1>2, OnSendMsgEffect
  <2>3. s.pending_n # 0
    BY <1>2, IdleIsEmpty
  <2> HIDE DEF t
  <2> QED
    BY <2>1, <2>2, <2>3 DEF Settled, connected
<1> QED
  BY <1>1, <1>2

(* on_recv_msg: at most this query is done. *)
LEMMA OnRecvMsgEffect ==
  ASSUME NEW w, Sound(w), NEW i \in DOMAIN w.sess, NEW q \in Qids, Settled(w.sess[i]),
         connected(w.sess[i])
  PROVE  LET v == on_recv_msg(w, i, q)
         IN  /\ Sound(v) /\ Touches(w, v, i) /\ Settled(v.sess[i]) /\ v.cur = w.cur
             /\ connected(v.sess[i])
             /\ v.sess[i].send_list = w.sess[i].send_list
             /\ v.sess[i].freed = w.sess[i].freed
             /\ v.sess[i].ack_list = w.sess[i].ack_list \ {q}
<1> DEFINE s == w.sess[i]
           r == [s EXCEPT !.ack_list = @ \ {q}, !.pending_n = @ - 1]
           got == [w EXCEPT !.sess[i].ack_list = @ \ {q}, !.sess[i].pending_n = @ - 1]
           v == on_recv_msg(w, i, q)
<1>1. w \in World /\ Listed(w) /\ s \in Session /\ Counted(s)
  BY WorldFields DEF Sound, Settled
<1>2. CASE q \notin s.ack_list
  <2>1. v = w /\ s.ack_list \ {q} = s.ack_list
    BY <1>2 DEF on_recv_msg
  <2> QED
    BY <2>1 DEF Touches
<1>3. CASE q \in s.ack_list
  <2>1. /\ s.pending_n \in Nat /\ IsFiniteSet(s.ack_list) /\ Cardinality(s.ack_list) \in Nat
        /\ s.ack_list \in SUBSET Qids /\ Len(s.send_list) \in Nat
        /\ s.pending_n = Len(s.send_list) + Cardinality(s.ack_list)
        /\ s.pending_n <= PendingMax /\ PendingMax \in Nat
    BY <1>1, SessionFields, TcpAssumption DEF Counted
  <2>2. Cardinality(s.ack_list) # 0 /\ Cardinality(s.ack_list \ {q}) = Cardinality(s.ack_list) - 1
    BY <1>3, <2>1, FS_EmptySet, FS_RemoveElement
  <2>3. /\ r \in Session /\ r.up = s.up /\ r.freed = s.freed /\ r.sender = s.sender
        /\ r.send_list = s.send_list /\ r.ack_list = s.ack_list \ {q}
        /\ r.pending_n = s.pending_n - 1
    <3>1. s.pending_n - 1 \in Nat
      BY <2>1, <2>2
    <3> QED
      BY <1>1, <2>1, <3>1 DEF Session
  <2>4. Settled(r) /\ connected(r)
    BY <2>1, <2>2, <2>3 DEF Settled, Counted, connected
  <2>5. got = [w EXCEPT !.sess[i] = r]
    BY <1>1 DEF World, Session
  <2>6. [w.sess EXCEPT ![i] = r] \in Seq(Session) /\ [w.sess EXCEPT ![i] = r][i] = r
    BY <1>1, <2>3, WorldFields, ExceptSeq
  <2>7. /\ got \in World /\ got.sess = [w.sess EXCEPT ![i] = r] /\ got.cur = w.cur
        /\ got.now = w.now /\ got.list = w.list
    <3> HIDE DEF r, got
    <3>1. got = [w EXCEPT !.sess = [w.sess EXCEPT ![i] = r]]
      BY <1>1, <2>5 DEF World
    <3> QED
      BY <1>1, <2>6, <3>1 DEF World
  <2>8. v = IF is_idle(got.sess[i]) THEN on_idle(got, i) ELSE got
    BY <1>3 DEF on_recv_msg
  <2> HIDE DEF r, got, v
  <2>9. CASE is_idle(got.sess[i])
    <3>1. /\ v \in World /\ IsInjective(v.list) /\ ToSet(v.list) = ToSet(w.list) \ {i}
          /\ v.sess = got.sess /\ v.cur = w.cur /\ v.now = w.now
      <4>1. v = on_idle(got, i) /\ IsInjective(got.list)
        BY <1>1, <2>7, <2>8, <2>9 DEF Listed
      <4> QED
        BY <2>7, <4>1, OnIdleEffect
    <3>2. v.sess[i] = r /\ v.sess[i].pending_n = 0
      BY <2>6, <2>7, <2>9, <3>1 DEF is_idle
    <3>3. Sound(v) /\ Touches(w, v, i)
      BY <2>3, <2>7, <3>1, <3>2, ReplaceSession
    <3> QED
      BY <2>3, <2>4, <3>1, <3>2, <3>3 DEF v
  <2>10. CASE ~is_idle(got.sess[i])
    <3>1. v = got /\ v.sess[i] = r /\ r.pending_n # 0
      BY <2>6, <2>7, <2>8, <2>10 DEF is_idle
    <3>2. i \in ToSet(v.list)
      <4>1. s.pending_n # 0
        BY <2>1, <2>2
      <4> QED
        BY <1>1, <2>7, <3>1, <4>1 DEF Listed
    <3>3. Sound(v) /\ Touches(w, v, i)
      BY <1>1, <2>3, <2>7, <3>1, <3>2, ReplaceSession DEF Listed
    <3> QED
      BY <2>3, <2>4, <2>7, <3>1, <3>3 DEF v
  <2> QED
    BY <2>9, <2>10
<1> QED
  BY <1>2, <1>3

(* A query is queued, or handed to the sender that waits for it. *)
Pushed(w, i, q) ==
  LET s == w.sess[i]
      r == [s EXCEPT !.pending_n = @ + 1, !.send_list = Append(@, q)]
  IN [on_work(w, i) EXCEPT
        !.sess[i] = IF s.sender = "wait" THEN on_send_msg(r) ELSE r]

(* The session then has one query more, and its place in the list. *)
LEMMA PushedEffect ==
  ASSUME NEW w, Sound(w), NEW i \in DOMAIN w.sess, NEW q \in Qids,
         Counted(w.sess[i]), w.sess[i].pending_n < PendingMax
  PROVE  LET v == Pushed(w, i, q)
         IN  /\ Sound(v) /\ Touches(w, v, i) /\ v.cur = w.cur
             /\ v.sess[i].freed = w.sess[i].freed /\ v.sess[i].pending_n # 0
             /\ v.sess[i].query_count = w.sess[i].query_count
             /\ Counted(v.sess[i]) /\ Outstanding(w.sess[i]) \subseteq Outstanding(v.sess[i])
             /\ v.sess[i].sender = IF w.sess[i].sender = "wait" THEN "write"
                                   ELSE w.sess[i].sender
             /\ w.sess[i].sender # "wait" => v.sess[i].ack_list = w.sess[i].ack_list
<1> DEFINE s == w.sess[i]
           pushed == [s EXCEPT !.pending_n = @ + 1, !.send_list = Append(@, q)]
           r == IF s.sender = "wait" THEN on_send_msg(pushed) ELSE pushed
           v == [on_work(w, i) EXCEPT !.sess[i] = r]
<1>1. w \in World /\ Listed(w) /\ s \in Session
  BY WorldFields DEF Sound
<1>2. /\ s.send_list \in Seq(Qids) /\ s.pending_n \in Nat
      /\ Len(s.send_list) \in Nat /\ Cardinality(s.ack_list) \in Nat
  BY <1>1, SessionFields
<1>3. Append(s.send_list, q) \in Seq(Qids) /\ Len(Append(s.send_list, q)) = Len(s.send_list) + 1
      /\ Append(s.send_list, q) # <<>> /\ ToSet(Append(s.send_list, q)) = ToSet(s.send_list) \cup {q}
  BY <1>2, AppendProperties, AppendToSet
<1>4. /\ pushed \in Session /\ pushed.up = s.up /\ pushed.freed = s.freed
      /\ pushed.sender = s.sender /\ pushed.pending_n = s.pending_n + 1
      /\ pushed.send_list = Append(s.send_list, q) /\ pushed.ack_list = s.ack_list
      /\ pushed.query_count = s.query_count
  <2> DEFINE l == Append(s.send_list, q)
  <2>1. l \in Seq(Qids) /\ s.pending_n + 1 \in Nat
    BY <1>2, <1>3
  <2>2. pushed = [s EXCEPT !.pending_n = s.pending_n + 1, !.send_list = l]
    BY <1>1 DEF Session
  <2> HIDE DEF l, pushed
  <2>3. /\ pushed \in Session /\ pushed.up = s.up /\ pushed.freed = s.freed
        /\ pushed.sender = s.sender /\ pushed.pending_n = s.pending_n + 1
        /\ pushed.send_list = l /\ pushed.ack_list = s.ack_list
        /\ pushed.query_count = s.query_count
    BY <1>1, <2>1, <2>2 DEF Session
  <2> QED
    BY <2>3 DEF l
<1> HIDE DEF pushed
<1>5. Counted(pushed)
  <2>1. /\ s.pending_n = Len(s.send_list) + Cardinality(s.ack_list)
        /\ PendingMax \in Nat /\ s.pending_n + 1 <= PendingMax
    BY <1>1, <1>2, TcpAssumption DEF Counted
  <2>2. s.pending_n + 1 = (Len(s.send_list) + 1) + Cardinality(s.ack_list)
    BY <1>2, <2>1
  <2> QED
    BY <1>3, <1>4, <2>1, <2>2 DEF Counted
<1>6. Outstanding(s) \subseteq Outstanding(pushed)
  BY <1>3, <1>4 DEF Outstanding
<1>7. /\ r \in Session /\ r.up = s.up /\ r.freed = s.freed /\ r.pending_n # 0 /\ Counted(r)
      /\ r.query_count = s.query_count /\ Outstanding(s) \subseteq Outstanding(r)
      /\ r.sender = IF s.sender = "wait" THEN "write" ELSE s.sender
      /\ s.sender # "wait" => r.ack_list = s.ack_list
  <2>1. CASE s.sender = "wait"
    BY <1>3, <1>4, <1>5, <1>6, <2>1, OnSendMsgEffect
  <2>2. CASE s.sender # "wait"
    BY <1>2, <1>4, <1>5, <1>6, <2>2
  <2> QED
    BY <2>1, <2>2
<1>8. Pushed(w, i, q) = v
  BY DEF Pushed, pushed
<1> HIDE DEF r
<1>9. /\ v \in World /\ v.sess = [w.sess EXCEPT ![i] = r]
      /\ v.sess[i] = r /\ v.cur = w.cur /\ v.now = w.now
      /\ IsInjective(v.list) /\ ToSet(v.list) = ToSet(w.list) \cup {i}
  <2> DEFINE a == on_idle(w, i)
             b == on_work(w, i)
  <2>1. /\ a \in World /\ IsInjective(a.list) /\ ToSet(a.list) = ToSet(w.list) \ {i}
        /\ a.sess = w.sess /\ a.cur = w.cur /\ a.now = w.now /\ a.backoff = w.backoff
    BY <1>1, OnIdleEffect DEF Listed
  <2>2. b = [a EXCEPT !.list = Append(a.list, i)]
    BY DEF on_work
  <2> HIDE DEF a, b
  <2>3. a.list \in Seq(Nat) /\ i \in Nat
    BY <1>1, <2>1, WorldFields
  <2>4. /\ Append(a.list, i) \in Seq(Nat) /\ IsInjective(Append(a.list, i))
        /\ ToSet(Append(a.list, i)) = ToSet(a.list) \cup {i}
    BY <2>1, <2>3, AppendNew
  <2>5. /\ b \in World /\ b.list = Append(a.list, i) /\ b.sess = w.sess /\ b.cur = w.cur
        /\ b.now = w.now
    BY <2>1, <2>2, <2>4 DEF World
  <2>6. [w.sess EXCEPT ![i] = r] \in Seq(Session) /\ [w.sess EXCEPT ![i] = r][i] = r
    BY <1>1, <1>7, WorldFields, ExceptSeq
  <2>7. v = [b EXCEPT !.sess = [w.sess EXCEPT ![i] = r]]
    BY <2>5 DEF World, b
  <2> HIDE DEF v
  <2> QED
    BY <2>1, <2>4, <2>5, <2>6, <2>7 DEF World
<1> HIDE DEF v
<1>10. Sound(v) /\ Touches(w, v, i)
  <2>1. /\ ToSet(v.list) \ {i} = ToSet(w.list) \ {i}
        /\ i \in ToSet(v.list) <=> v.sess[i].pending_n # 0
    BY <1>7, <1>9
  <2> QED
    BY <1>7, <1>9, <2>1, ReplaceSession
<1> QED
  BY <1>7, <1>8, <1>9, <1>10

(* push on a session that may take the query.  With a sender afterwards it  *)
(* has all it had; without one it had no sender before, or the write and    *)
(* the new connection have failed and it has given everything up.           *)
LEMMA PushEffect ==
  ASSUME NEW w, Sound(w), NEW i \in DOMAIN w.sess, NEW q \in Qids, NEW write \in Writes,
         ~w.sess[i].freed, Settled(w.sess[i]), w.sess[i].pending_n < PendingMax,
         w.sess[i].sender = "wait" => HasRoom(w, i)
  PROVE  LET v == push(w, i, q, write)
         IN  /\ Sound(v) /\ Touches(w, v, i) /\ ~v.sess[i].freed /\ Counted(v.sess[i])
             /\ v.sess[i].query_count = w.sess[i].query_count
             /\ v.sess[i].sender # "none" =>
                  /\ Settled(v.sess[i]) /\ Gone(v, i)
                  /\ Outstanding(w.sess[i]) \subseteq Outstanding(v.sess[i])
             /\ v.sess[i].sender = "none" =>
                  /\ v.sess[i].ack_list = {}
                  /\ w.sess[i].sender = "none" \/ v.sess[i].pending_n = 0
<1> DEFINE s == w.sess[i]
           p == Pushed(w, i, q)
           v == push(w, i, q, write)
<1>1. w \in World /\ s \in Session /\ Counted(s)
  BY WorldFields DEF Sound, Settled
<1>2. /\ Sound(p) /\ Touches(w, p, i) /\ p.cur = w.cur
      /\ p.sess[i].freed = s.freed /\ p.sess[i].pending_n # 0
      /\ p.sess[i].query_count = s.query_count
      /\ Counted(p.sess[i]) /\ Outstanding(s) \subseteq Outstanding(p.sess[i])
      /\ p.sess[i].sender = IF s.sender = "wait" THEN "write" ELSE s.sender
      /\ s.sender # "wait" => p.sess[i].ack_list = s.ack_list
  BY <1>1, PushedEffect
<1>3. v = IF s.sender = "wait" /\ write \in Outcomes THEN stop(p, i, write) ELSE p
  BY DEF push, Pushed
<1> HIDE DEF p, v
<1>4. i \in DOMAIN p.sess /\ p.sess[i].up = s.up
  BY <1>2 DEF Touches
<1>5. CASE s.sender = "wait" /\ write \in Outcomes
  <2>1. HasRoom(p, i)
    BY <1>2, <1>4, <1>5 DEF HasRoom
  <2>2. v = stop(p, i, write)
    BY <1>3, <1>5
  <2>3. /\ Sound(v) /\ Touches(p, v, i) /\ Settled(v.sess[i]) /\ Gone(v, i)
        /\ v.sess[i].sender \in {"none", "connect"}
        /\ v.sess[i].sender = "connect" =>
             Outstanding(p.sess[i]) \subseteq ToSet(v.sess[i].send_list)
        /\ ~v.sess[i].freed /\ v.sess[i].query_count = p.sess[i].query_count
    BY <1>2, <1>4, <1>5, <2>1, <2>2, StopEffect
  <2>4. Touches(w, v, i)
    BY <1>2, <2>3, TouchesTwice
  <2>5. v.sess[i].sender = "connect" => Outstanding(s) \subseteq Outstanding(v.sess[i])
    BY <1>2, <2>3 DEF Outstanding
  <2>6. v.sess[i].sender = "none" => v.sess[i].ack_list = {} /\ v.sess[i].pending_n = 0
    BY <2>3 DEF Settled, connected
  <2>7. Counted(v.sess[i])
    BY <2>3 DEF Settled
  <2> QED
    BY <1>2, <2>3, <2>4, <2>5, <2>6, <2>7 DEF v
<1>6. CASE ~(s.sender = "wait" /\ write \in Outcomes)
  <2>1. v = p
    BY <1>3, <1>6
  <2>2. s.sender # "none" => Settled(p.sess[i])
    BY <1>2 DEF Settled, connected
  <2>3. Gone(p, i)
    BY <1>2 DEF Gone
  <2>4. s.sender = "none" => s.ack_list = {}
    BY DEF Settled, connected
  <2> QED
    BY <1>2, <2>1, <2>2, <2>3, <2>4 DEF v
<1> QED
  BY <1>5, <1>6

(* send_query on a session that is not retired: the query is refused, or    *)
(* queued, or written, or all queries are given up.                         *)
LEMMA SendQueryEffect ==
  ASSUME NEW w, Sound(w), NEW i \in DOMAIN w.sess, NEW q \in Qids, NEW write \in Writes,
         NEW outcome \in Outcomes, ~w.sess[i].freed, Settled(w.sess[i]),
         w.cur[w.sess[i].up] = i, w.sess[i].sender = "wait" => HasRoom(w, i)
  PROVE  LET v == send_query(w, i, q, write, outcome)
         IN  /\ Sound(v) /\ Touches(w, v, i) /\ Settled(v.sess[i]) /\ Gone(v, i)
             /\ LosesNothing(w.sess[i], v.sess[i])
<1> DEFINE s == w.sess[i]
           p == push(w, i, q, write)
           r == [p.sess[i] EXCEPT !.query_time = w.now, !.query_count = @ + 1]
           queued == [p EXCEPT !.sess[i].query_time = w.now, !.sess[i].query_count = @ + 1]
           v == send_query(w, i, q, write, outcome)
<1>1. w \in World /\ s \in Session /\ Counted(s) /\ w.now \in Nat
  BY WorldFields DEF Sound, Settled
<1>2. s.up \in Upstreams /\ s.pending_n \in Nat /\ s.query_count \in Nat
  BY <1>1, SessionFields
<1>3. LosesNothing(s, s)
  BY KeptIsNotLost
<1>4. s.sender = "none" => /\ s.pending_n = 0 /\ s.ack_list = {} /\ Outstanding(s) = {}
  <2>1. s.sender = "none" => s.pending_n = 0 /\ s.send_list = <<>> /\ s.ack_list = {}
    BY <1>1, IdleIsEmpty DEF Settled
  <2> QED
    BY <2>1 DEF Outstanding, ToSet
<1>5. CASE v = w
  <2>1. Gone(w, i) /\ Touches(w, w, i)
    BY DEF Gone, Touches
  <2> QED
    BY <1>3, <1>5, <2>1
<1>6. CASE v = start(w, i, outcome) /\ s.sender = "none"
  <2>1. /\ Sound(v) /\ Touches(w, v, i) /\ Settled(v.sess[i]) /\ Gone(v, i)
    BY <1>1, <1>4, <1>6, StartEffect
  <2> HIDE DEF v
  <2>2. LosesNothing(s, v.sess[i])
    BY <1>4, <1>6, <2>1, KeptIsNotLost
  <2> QED
    BY <2>1, <2>2 DEF v
<1>7. CASE /\ s.pending_n < PendingMax
           /\ v = IF queued.sess[i].sender = "none" THEN start(queued, i, outcome)
                  ELSE queued
  <2>1. /\ Sound(p) /\ Touches(w, p, i) /\ ~p.sess[i].freed /\ Counted(p.sess[i])
        /\ p.sess[i].query_count = s.query_count
        /\ p.sess[i].sender # "none" =>
             /\ Settled(p.sess[i]) /\ Gone(p, i)
             /\ Outstanding(s) \subseteq Outstanding(p.sess[i])
        /\ p.sess[i].sender = "none" =>
             p.sess[i].ack_list = {} /\ (s.sender = "none" \/ p.sess[i].pending_n = 0)
    BY <1>7, PushEffect
  <2> HIDE DEF p
  <2>2. p \in World /\ i \in DOMAIN p.sess /\ p.sess[i] \in Session
    <3>1. p \in World /\ i \in DOMAIN p.sess
      BY <2>1 DEF Sound, Touches
    <3> QED
      BY <3>1, WorldFields
  <2>3. /\ r \in Session /\ r.up = p.sess[i].up /\ r.freed = p.sess[i].freed
        /\ r.sender = p.sess[i].sender /\ r.send_list = p.sess[i].send_list
        /\ r.ack_list = p.sess[i].ack_list /\ r.pending_n = p.sess[i].pending_n
        /\ r.query_count = s.query_count + 1
    <3> DEFINE x == p.sess[i]
               n == s.query_count + 1
    <3>1. n \in Nat
      BY <1>2
    <3>2. r = [x EXCEPT !.query_time = w.now, !.query_count = n]
      BY <2>1, <2>2 DEF Session
    <3> HIDE DEF x, n, r
    <3>3. x \in Session
      BY <2>2 DEF x
    <3>4. /\ r \in Session /\ r.up = x.up /\ r.freed = x.freed /\ r.sender = x.sender
          /\ r.send_list = x.send_list /\ r.ack_list = x.ack_list
          /\ r.pending_n = x.pending_n /\ r.query_count = n
      BY <1>1, <3>1, <3>2, <3>3 DEF Session
    <3> QED
      BY <3>4 DEF x, n
  <2>4. queued = [p EXCEPT !.sess[i] = r]
    BY <2>2 DEF World, Session
  <2> HIDE DEF r, queued
  <2>5. Sound(queued) /\ Touches(p, queued, i) /\ queued.sess[i] = r /\ queued.cur = p.cur
    <3>1. r.pending_n = 0 <=> p.sess[i].pending_n = 0
      BY <2>3
    <3> QED
      BY <2>1, <2>2, <2>3, <2>4, <3>1, PutSession
  <2>6. i \in DOMAIN queued.sess /\ Counted(r) /\ ~r.freed
    BY <2>1, <2>2, <2>3, <2>5 DEF Touches, Counted
  <2>7. Touches(w, queued, i)
    BY <2>1, <2>5, TouchesTwice
  <2>8. CASE r.sender = "none"
    <3>1. v = start(queued, i, outcome)
      BY <1>7, <2>5, <2>8
    <3>2. r.ack_list = {} /\ (s.sender = "none" \/ r.pending_n = 0)
      BY <2>1, <2>3, <2>8
    <3> HIDE DEF v
    <3>3. /\ Sound(v) /\ Touches(queued, v, i) /\ Settled(v.sess[i]) /\ Gone(v, i)
          /\ v.sess[i].sender \in {"none", "connect"}
          /\ v.sess[i].sender = "connect" => v.sess[i].pending_n = r.pending_n
          /\ ~v.sess[i].freed => v.sess[i].query_count = r.query_count
      BY <2>5, <2>6, <2>8, <3>1, <3>2, StartEffect
    <3>4. LosesNothing(s, v.sess[i])
      <4>1. CASE s.sender = "none"
        BY <1>4, <3>3, <4>1, KeptIsNotLost
      <4>2. CASE r.pending_n = 0
        <5>1. v.sess[i].sender = "connect" => ~v.sess[i].freed
          BY <3>3 DEF Settled
        <5>2. v.sess[i].sender = "connect" => GivenUp(s, v.sess[i])
          BY <1>2, <2>3, <3>3, <4>2, <5>1 DEF GivenUp, is_idle
        <5> QED
          BY <3>3, <5>2 DEF LosesNothing, connected
      <4> QED
        BY <3>2, <4>1, <4>2
    <3>5. Touches(w, v, i)
      BY <2>7, <3>3, TouchesTwice
    <3> QED
      BY <3>3, <3>4, <3>5 DEF v
  <2>9. CASE r.sender # "none"
    <3>1. v = queued
      BY <1>7, <2>5, <2>9
    <3> HIDE DEF v
    <3>2. Settled(r)
      BY <2>1, <2>3, <2>9 DEF Settled, Counted, connected
    <3>3. Gone(queued, i)
      BY <2>1, <2>3, <2>5, <2>9 DEF Gone
    <3>4. LosesNothing(s, r)
      <4>1. Outstanding(s) \subseteq Outstanding(r)
        BY <2>1, <2>3, <2>9 DEF Outstanding
      <4> QED
        BY <3>2, <4>1, KeptIsNotLost
    <3> QED
      BY <2>5, <2>7, <3>1, <3>2, <3>3, <3>4 DEF v
  <2> QED
    BY <2>8, <2>9
<1>8. Proxied[s.up] \in BOOLEAN /\ PendingMax \in Nat
  BY <1>2, TcpAssumption
<1>9. \/ v = w
      \/ v = start(w, i, outcome) /\ s.sender = "none"
      \/ /\ s.pending_n < PendingMax
         /\ v = IF queued.sess[i].sender = "none" THEN start(queued, i, outcome)
                ELSE queued
  <2>1. CASE Proxied[s.up] /\ ~proxy_can_try(w)
    <3>1. v = w
      BY <2>1 DEF send_query
    <3> QED
      BY <3>1
  <2>2. CASE Proxied[s.up] /\ proxy_can_try(w) /\ s.sender = "none"
    <3>1. v = start(w, i, outcome)
      BY <2>2 DEF send_query
    <3> QED
      BY <2>2, <3>1
  <2>3. CASE (Proxied[s.up] => proxy_can_try(w) /\ s.sender # "none")
    <3>1. v = IF s.pending_n >= PendingMax THEN w
              ELSE IF queued.sess[i].sender = "none" THEN start(queued, i, outcome)
              ELSE queued
      BY <2>3 DEF send_query
    <3> HIDE DEF v, queued
    <3>2. s.pending_n >= PendingMax \/ s.pending_n < PendingMax
      BY <1>2, <1>8
    <3> QED
      BY <1>2, <1>8, <3>1, <3>2
  <2> QED
    BY <1>8, <2>1, <2>2, <2>3
<1> QED
  BY <1>5, <1>6, <1>7, <1>9

-----------------------------------------------------------------------------
(* Steps *)

(* What a step from w to v must do: keep the invariant, and lose no query   *)
(* of a session that has a connection.                                      *)
Kept(w, v) ==
  TcpInv(v) /\ \A j \in DOMAIN w.sess : LosesNothing(w.sess[j], v.sess[j])

(* A session that a step leaves alone loses nothing. *)
LEMMA UntouchedLosesNothing ==
  ASSUME NEW s, Settled(s)
  PROVE  LosesNothing(s, s)
BY KeptIsNotLost

(* It is enough to look at the session whose method is called. *)
LEMMA TouchedInv ==
  ASSUME NEW w, TcpInv(w), NEW v, NEW i \in DOMAIN w.sess, Sound(v), Touches(w, v, i),
         Settled(v.sess[i]), Gone(v, i)
  PROVE  /\ TcpInv(v)
         /\ \A j \in DOMAIN w.sess : j # i => LosesNothing(w.sess[j], v.sess[j])
<1>1. ASSUME NEW j \in DOMAIN w.sess, j # i
      PROVE  Settled(v.sess[j]) /\ Gone(v, j) /\ LosesNothing(w.sess[j], v.sess[j])
  <2>1. v.sess[j] = w.sess[j] /\ Settled(w.sess[j]) /\ Gone(w, j)
    BY <1>1 DEF Touches, TcpInv
  <2>2. w.sess[j].up \in Upstreams
    BY WorldFields, SessionFields DEF TcpInv, Sound
  <2>3. v.cur[w.sess[j].up] # j => w.cur[w.sess[j].up] # j
    BY <1>1, <2>2 DEF Touches
  <2>4. Gone(v, j)
    BY <2>1, <2>3 DEF Gone
  <2> QED
    BY <2>1, <2>4, UntouchedLosesNothing
<1>2. DOMAIN v.sess = DOMAIN w.sess
  BY DEF Touches
<1> QED
  BY <1>1, <1>2 DEF TcpInv

(* The same for a method that loses nothing. *)
LEMMA TouchedKept ==
  ASSUME NEW w, TcpInv(w), NEW v, NEW i \in DOMAIN w.sess, Sound(v), Touches(w, v, i),
         Settled(v.sess[i]), Gone(v, i), LosesNothing(w.sess[i], v.sess[i])
  PROVE  Kept(w, v)
BY TouchedInv DEF Kept

(* The current session of an upstream. *)
LEMMA CurrentSession ==
  ASSUME NEW w, Sound(w), NEW u \in Upstreams, w.cur[u] # 0
  PROVE  /\ w.cur[u] \in DOMAIN w.sess /\ w.sess[w.cur[u]].up = u
         /\ ~w.sess[w.cur[u]].freed
BY DEF Sound, Owned

(* A world with a new session, which is its upstream's. *)
LEMMA FreshWorld ==
  ASSUME NEW w, TcpInv(w), NEW u \in Upstreams
  PROVE  LET i == Len(w.sess) + 1
             f == [w EXCEPT !.sess = Append(@, new(w, u)), !.cur[u] = i]
         IN  /\ Sound(f) /\ DOMAIN f.sess = DOMAIN w.sess \cup {i} /\ i \notin DOMAIN w.sess
             /\ f.sess[i] = new(w, u) /\ f.cur[u] = i
             /\ \A j \in DOMAIN w.sess : f.sess[j] = w.sess[j]
             /\ \A x \in Upstreams : x # u => f.cur[x] = w.cur[x]
<1> DEFINE i == Len(w.sess) + 1
           n == new(w, u)
           f == [w EXCEPT !.sess = Append(@, n), !.cur[u] = i]
<1>1. w \in World /\ Owned(w) /\ Listed(w)
  BY DEF TcpInv, Sound
<1>2. /\ w.sess \in Seq(Session) /\ DOMAIN w.sess = 1..Len(w.sess) /\ Len(w.sess) \in Nat
      /\ w.cur \in [Upstreams -> Nat]
  BY <1>1, WorldFields
<1>3. n \in Session /\ n.up = u /\ ~n.freed /\ n.pending_n = 0
  BY <1>1, NewType
<1> HIDE DEF n
<1>4. /\ Append(w.sess, n) \in Seq(Session) /\ Len(Append(w.sess, n)) = i
      /\ \A j \in 1..Len(w.sess) : Append(w.sess, n)[j] = w.sess[j]
      /\ Append(w.sess, n)[i] = n
  BY <1>2, <1>3, AppendProperties
<1>5. DOMAIN Append(w.sess, n) = 1..i
  BY <1>4, LenProperties
<1>6. i \in Nat /\ i # 0 /\ 1..i = DOMAIN w.sess \cup {i} /\ i \notin DOMAIN w.sess
  BY <1>2
<1>7. [w.cur EXCEPT ![u] = i] \in [Upstreams -> Nat]
  BY <1>2, <1>6
<1>8. f = [w EXCEPT !.sess = Append(w.sess, n), !.cur = [w.cur EXCEPT ![u] = i]]
  BY <1>1 DEF World
<1> HIDE DEF f, i
<1>9. /\ f \in World /\ f.sess = Append(w.sess, n) /\ f.cur = [w.cur EXCEPT ![u] = i]
      /\ f.list = w.list
  BY <1>1, <1>4, <1>7, <1>8 DEF World
<1>10. /\ DOMAIN f.sess = DOMAIN w.sess \cup {i} /\ f.sess[i] = n /\ f.cur[u] = i
       /\ \A j \in DOMAIN w.sess : f.sess[j] = w.sess[j]
       /\ \A x \in Upstreams : x # u => f.cur[x] = w.cur[x]
  BY <1>2, <1>4, <1>5, <1>6, <1>9
<1>11. Owned(f)
  BY <1>1, <1>3, <1>10 DEF Owned
<1>12. Listed(f)
  <2>1. {j \in DOMAIN w.sess : w.sess[j].pending_n # 0}
          = {j \in DOMAIN f.sess : f.sess[j].pending_n # 0}
    BY <1>3, <1>6, <1>10
  <2> QED
    BY <1>1, <1>9, <2>1 DEF Listed
<1> QED
  BY <1>6, <1>9, <1>10, <1>11, <1>12 DEF Sound, f, i, n

(* Upstream.send. *)
LEMMA SendKept ==
  ASSUME TcpInv(world), NEW u \in Upstreams, NEW q \in Qids, Send(u, q)
  PROVE  Kept(world, world')
<1> DEFINE old == world.cur[u]
           i == Len(world.sess) + 1
           fresh == [world EXCEPT !.sess = Append(@, new(world, u)), !.cur[u] = i]
<1>1. Sound(world)
  BY DEF TcpInv
<1>2. PICK write \in Writes, outcome \in Outcomes :
        \/ /\ old # 0 /\ ~is_retire(world, old)
           /\ world' = send_query(world, old, q, write, outcome)
        \/ LET sent == send_query(fresh, i, q, write, outcome)
           IN world' = IF old # 0 /\ is_idle(world.sess[old]) THEN free(sent, old) ELSE sent
  BY DEF Send
<1>3. CASE /\ old # 0 /\ ~is_retire(world, old)
           /\ world' = send_query(world, old, q, write, outcome)
  <2>1. /\ old \in DOMAIN world.sess /\ world.sess[old].up = u /\ ~world.sess[old].freed
        /\ Settled(world.sess[old]) /\ HasRoom(world, old)
    BY <1>1, <1>3, CurrentSession DEF TcpInv, HasRoom, is_retire
  <2>2. /\ Sound(world') /\ Touches(world, world', old) /\ Settled(world'.sess[old])
        /\ Gone(world', old) /\ LosesNothing(world.sess[old], world'.sess[old])
    BY <1>1, <1>3, <2>1, SendQueryEffect
  <2> QED
    BY <2>1, <2>2, TouchedKept
<1>4. CASE LET sent == send_query(fresh, i, q, write, outcome)
           IN world' = IF old # 0 /\ is_idle(world.sess[old]) THEN free(sent, old) ELSE sent
  <2> DEFINE sent == send_query(fresh, i, q, write, outcome)
  <2>1. /\ Sound(fresh) /\ DOMAIN fresh.sess = DOMAIN world.sess \cup {i}
        /\ i \notin DOMAIN world.sess
        /\ fresh.sess[i] = new(world, u) /\ fresh.cur[u] = i
        /\ \A j \in DOMAIN world.sess : fresh.sess[j] = world.sess[j]
        /\ \A x \in Upstreams : x # u => fresh.cur[x] = world.cur[x]
    BY FreshWorld
  <2>2. world \in World
    BY <1>1 DEF Sound
  <2>3. /\ fresh.sess[i].up = u /\ ~fresh.sess[i].freed /\ Settled(fresh.sess[i])
        /\ fresh.sess[i].sender = "none"
    <3>1. /\ new(world, u).up = u /\ ~new(world, u).freed
          /\ new(world, u).pending_n = 0 /\ new(world, u).send_list = <<>>
          /\ new(world, u).ack_list = {} /\ new(world, u).sender = "none"
      BY <2>2, NewType
    <3>2. Cardinality({}) = 0 /\ Len(<<>>) = 0
      BY FS_EmptySet
    <3>3. Settled(new(world, u))
      BY <3>1, <3>2, TcpAssumption DEF Settled, Counted
    <3> HIDE DEF fresh, i
    <3> QED
      BY <2>1, <3>1, <3>3
  <2>4. world' = IF old # 0 /\ is_idle(world.sess[old]) THEN free(sent, old) ELSE sent
    BY <1>4
  <2> HIDE DEF fresh, i
  <2>5. Sound(sent) /\ Touches(fresh, sent, i) /\ Settled(sent.sess[i]) /\ Gone(sent, i)
    BY <2>1, <2>3, SendQueryEffect
  <2> HIDE DEF sent
  <2>6. /\ DOMAIN sent.sess = DOMAIN world.sess \cup {i}
        /\ \A j \in DOMAIN world.sess : sent.sess[j] = world.sess[j]
    BY <2>1, <2>5 DEF Touches
  <2>7. ASSUME NEW j \in DOMAIN world.sess
        PROVE  /\ Settled(sent.sess[j])
               /\ j # old \/ ~is_idle(world.sess[old]) => Gone(sent, j)
    <3>1. Settled(world.sess[j]) /\ Gone(world, j) /\ sent.sess[j] = world.sess[j]
      BY <2>6 DEF TcpInv
    <3>2. world.sess[j].up \in Upstreams
      BY <2>2, WorldFields, SessionFields
    <3>3. j # old /\ sent.cur[world.sess[j].up] # j => world.cur[world.sess[j].up] # j
      BY <2>1, <2>5, <3>2 DEF Touches
    <3> QED
      BY <3>1, <3>3 DEF Gone, is_idle
  <2>8. CASE old # 0 /\ is_idle(world.sess[old])
    <3>1. world' = free(sent, old) /\ old \in DOMAIN world.sess
      BY <1>1, <2>4, <2>8, CurrentSession
    <3>2. /\ Sound(world') /\ Touches(sent, world', old)
          /\ world'.sess[old].freed /\ world'.sess[old].pending_n = 0
          /\ world'.sess[old].sender = "none"
          /\ world'.sess[old].send_list = <<>> /\ world'.sess[old].ack_list = {}
      BY <2>5, <2>6, <3>1, FreeEffect
    <3>3. /\ Settled(world'.sess[old]) /\ Gone(world', old)
          /\ LosesNothing(world.sess[old], world'.sess[old])
      <4>1. Cardinality({}) = 0 /\ Len(<<>>) = 0
        BY FS_EmptySet
      <4> QED
        BY <3>2, <4>1, TcpAssumption DEF Settled, Counted, Gone, LosesNothing, connected
    <3>4. ASSUME NEW j \in DOMAIN sent.sess, j # old
          PROVE  Settled(world'.sess[j]) /\ Gone(world', j)
      <4>1. Settled(sent.sess[j]) /\ Gone(sent, j)
        BY <2>5, <2>6, <2>7, <3>4
      <4>2. sent.sess[j].up \in Upstreams /\ world'.sess[j] = sent.sess[j]
        BY <2>5, <3>2, <3>4, WorldFields, SessionFields DEF Sound, Touches
      <4>3. world'.cur[sent.sess[j].up] # j => sent.cur[sent.sess[j].up] # j
        BY <3>2, <3>4, <4>2 DEF Touches
      <4> QED
        BY <4>1, <4>2, <4>3 DEF Gone
    <3>5. TcpInv(world')
      BY <3>2, <3>3, <3>4 DEF TcpInv, Touches
    <3>6. ASSUME NEW j \in DOMAIN world.sess, j # old
          PROVE  LosesNothing(world.sess[j], world'.sess[j])
      <4>1. world'.sess[j] = world.sess[j] /\ Settled(world.sess[j])
        BY <2>6, <3>2, <3>6 DEF Touches, TcpInv
      <4> QED
        BY <4>1, UntouchedLosesNothing
    <3> QED
      BY <3>3, <3>5, <3>6 DEF Kept
  <2>9. CASE ~(old # 0 /\ is_idle(world.sess[old]))
    <3>1. world' = sent
      BY <2>4, <2>9
    <3>2. \A j \in DOMAIN world.sess : Gone(sent, j)
      <4>1. 0 \notin DOMAIN world.sess
        BY <2>2, WorldFields
      <4> QED
        BY <2>7, <2>9, <4>1
    <3>3. TcpInv(world')
      BY <2>5, <2>6, <2>7, <3>1, <3>2 DEF TcpInv
    <3>4. ASSUME NEW j \in DOMAIN world.sess
          PROVE  LosesNothing(world.sess[j], world'.sess[j])
      <4>1. world'.sess[j] = world.sess[j] /\ Settled(world.sess[j])
        BY <2>6, <3>1 DEF TcpInv
      <4> QED
        BY <4>1, UntouchedLosesNothing
    <3> QED
      BY <3>3, <3>4 DEF Kept
  <2> QED
    BY <2>8, <2>9
<1> QED
  BY <1>2, <1>3, <1>4

(* The connection is made. *)
LEMMA ConnectDoneKept ==
  ASSUME TcpInv(world), NEW i \in Sessions, ConnectDone(i)
  PROVE  Kept(world, world')
<1> DEFINE s == world.sess[i]
           w == IF Proxied[s.up] THEN proxy_note_success(world) ELSE world
           r == IF Tls[s.up] THEN [s EXCEPT !.sender = "tls"] ELSE NextMessage(s)
<1>1. /\ Sound(world) /\ world \in World /\ i \in DOMAIN world.sess /\ s \in Session
      /\ Settled(s) /\ Gone(world, i) /\ s.sender = "connect"
  BY WorldFields DEF TcpInv, Sound, Sessions, ConnectDone
<1>2. /\ w \in World /\ w.sess = world.sess /\ w.cur = world.cur /\ w.list = world.list
      /\ w.now = world.now
  BY <1>1, NoteSuccessEffect
<1>3. world' = [w EXCEPT !.sess[i] = r]
  <2>1. world' = [w EXCEPT !.sess[i] = IF Tls[s.up] THEN [@ EXCEPT !.sender = "tls"]
                                       ELSE NextMessage(@)]
    BY DEF ConnectDone
  <2>2. w.sess[i] = s
    BY <1>2
  <2> HIDE DEF w
  <2> QED
    BY <1>2, <2>1, <2>2 DEF World
<1> HIDE DEF w
<1>4. Sound(w) /\ i \in DOMAIN w.sess /\ Touches(world, w, i)
  BY <1>1, <1>2 DEF Sound, Owned, Listed, Touches
<1>5. s.ack_list = {} /\ ~s.freed /\ Counted(s)
  BY <1>1 DEF Settled, connected
<1>6. /\ r \in Session /\ Settled(r) /\ r.up = s.up /\ r.freed = s.freed
      /\ r.pending_n = 0 <=> s.pending_n = 0
      /\ Outstanding(r) = Outstanding(s)
  <2>1. CASE Tls[s.up]
    <3> DEFINE t == [s EXCEPT !.sender = "tls"]
    <3>1. /\ t \in Session /\ t.up = s.up /\ t.freed = s.freed /\ t.pending_n = s.pending_n
          /\ t.send_list = s.send_list /\ t.ack_list = s.ack_list /\ t.sender = "tls"
      BY <1>1 DEF Session, Places
    <3>2. r = t
      BY <2>1
    <3> HIDE DEF r, t
    <3> QED
      BY <1>5, <3>1, <3>2 DEF Settled, Counted, connected, Outstanding
  <2>2. CASE ~Tls[s.up]
    BY <1>1, <1>5, <2>2, NextMessageEffect
  <2> QED
    BY <2>1, <2>2
<1> HIDE DEF r
<1>7. /\ Sound(world') /\ Touches(w, world', i) /\ world'.sess[i] = r /\ world'.cur = w.cur
  BY <1>2, <1>3, <1>4, <1>6, PutSession
<1>8. Gone(world', i)
  BY <1>1, <1>2, <1>6, <1>7 DEF Gone
<1>9. LosesNothing(s, r)
  BY <1>6, KeptIsNotLost
<1> QED
  BY <1>1, <1>4, <1>6, <1>7, <1>8, <1>9, TouchedKept, TouchesTwice

(* A method that ends with stop. *)
LEMMA StopKept ==
  ASSUME TcpInv(world), NEW i \in DOMAIN world.sess, NEW w, Sound(w),
         Touches(world, w, i), ~w.sess[i].freed, Counted(w.sess[i]),
         Outstanding(world.sess[i]) \subseteq Outstanding(w.sess[i])
           \/ w.sess[i].pending_n = 0,
         NEW outcome \in Outcomes, world' = stop(w, i, outcome)
  PROVE  Kept(world, world')
<1>1. i \in DOMAIN w.sess
  BY DEF Touches
<1>2. /\ Sound(world') /\ Touches(w, world', i) /\ Settled(world'.sess[i]) /\ Gone(world', i)
      /\ world'.sess[i].sender \in {"none", "connect"}
      /\ world'.sess[i].sender = "connect" =>
           Outstanding(w.sess[i]) \subseteq ToSet(world'.sess[i].send_list)
  BY <1>1, StopEffect
<1>3. LosesNothing(world.sess[i], world'.sess[i])
  <2>1. ~connected(world'.sess[i])
    BY <1>2 DEF connected
  <2>2. CASE Outstanding(world.sess[i]) \subseteq Outstanding(w.sess[i])
    BY <1>2, <2>1, <2>2 DEF LosesNothing
  <2>3. CASE w.sess[i].pending_n = 0
    <3>1. world'.sess[i].sender # "connect"
      BY <1>1, <2>3, StopIdle
    <3> QED
      BY <2>1, <3>1 DEF LosesNothing
  <2> QED
    BY <2>2, <2>3
<1> QED
  BY <1>2, <1>3, TouchesTwice, TouchedKept

(* connect() fails. *)
LEMMA ConnectFailsKept ==
  ASSUME TcpInv(world), NEW i \in Sessions, ConnectFails(i)
  PROVE  Kept(world, world')
<1> DEFINE w == IF Proxied[world.sess[i].up] THEN proxy_note_fail(world) ELSE world
<1>1. /\ Sound(world) /\ world \in World /\ i \in DOMAIN world.sess
      /\ Settled(world.sess[i]) /\ world.sess[i].sender = "connect"
  BY DEF TcpInv, Sound, Sessions, ConnectFails
<1>2. /\ w \in World /\ w.sess = world.sess /\ w.cur = world.cur /\ w.list = world.list
      /\ w.now = world.now
  BY <1>1, NoteFailEffect
<1>3. PICK outcome \in Outcomes : world' = stop(w, i, outcome)
  BY DEF ConnectFails
<1> HIDE DEF w
<1>4. Sound(w) /\ Touches(world, w, i)
  BY <1>1, <1>2 DEF Sound, Owned, Listed, Touches
<1>5. ~w.sess[i].freed /\ Counted(w.sess[i]) /\ w.sess[i] = world.sess[i]
  BY <1>1, <1>2 DEF Settled
<1> QED
  BY <1>1, <1>3, <1>4, <1>5, StopKept

(* The handshake or a write is done. *)
LEMMA UnblockedKept ==
  ASSUME TcpInv(world), NEW i \in Sessions, Unblocked(i)
  PROVE  Kept(world, world')
<1> DEFINE s == world.sess[i]
           r == NextMessage(s)
<1>1. /\ Sound(world) /\ world \in World /\ i \in DOMAIN world.sess /\ s \in Session
      /\ Settled(s) /\ Gone(world, i) /\ s.sender \in {"tls", "write"}
  BY WorldFields DEF TcpInv, Sound, Sessions, Unblocked
<1>2. world' = [world EXCEPT !.sess[i] = r]
  BY <1>1 DEF Unblocked, World
<1>3. ~s.freed /\ Counted(s)
  BY <1>1 DEF Settled
<1>4. /\ r \in Session /\ Settled(r) /\ r.up = s.up /\ r.freed = s.freed
      /\ r.pending_n = 0 <=> s.pending_n = 0
      /\ Outstanding(r) = Outstanding(s)
  BY <1>1, <1>3, NextMessageEffect
<1> HIDE DEF r
<1>5. /\ Sound(world') /\ Touches(world, world', i) /\ world'.sess[i] = r
      /\ world'.cur = world.cur
  BY <1>1, <1>2, <1>4, PutSession
<1>6. Gone(world', i)
  BY <1>1, <1>4, <1>5 DEF Gone
<1>7. LosesNothing(s, r)
  BY <1>4, KeptIsNotLost
<1> QED
  BY <1>1, <1>4, <1>5, <1>6, <1>7, TouchedKept

(* The connection ends. *)
LEMMA ConnectionEndsKept ==
  ASSUME TcpInv(world), NEW i \in Sessions, ConnectionEnds(i)
  PROVE  Kept(world, world')
<1>1. /\ Sound(world) /\ i \in DOMAIN world.sess /\ Settled(world.sess[i])
      /\ world.sess[i].sender # "none"
  BY DEF TcpInv, Sessions, ConnectionEnds, connected
<1>2. PICK outcome \in Outcomes : world' = stop(world, i, outcome)
  BY DEF ConnectionEnds
<1>3. ~world.sess[i].freed /\ Counted(world.sess[i]) /\ Touches(world, world, i)
  BY <1>1 DEF Settled, Touches
<1> QED
  BY <1>1, <1>2, <1>3, StopKept

(* What the reply q for session i must do: keep the invariant, and lose no  *)
(* query but its own.                                                       *)
Answered(w, v, i, q) ==
  /\ TcpInv(v)
  /\ \A j \in DOMAIN w.sess :
       \/ LosesNothing(w.sess[j], v.sess[j])
       \/ j = i /\ LosesOnly(w.sess[j], v.sess[j], q)

(* A reply arrives. *)
LEMMA OnReplyAnswers ==
  ASSUME TcpInv(world), NEW i \in Sessions, NEW q \in Qids, OnReply(i, q)
  PROVE  Answered(world, world', i, q)
<1> DEFINE w == on_recv_msg(world, i, q)
           s == world.sess[i]
<1>1. /\ Sound(world) /\ i \in DOMAIN world.sess /\ Settled(s) /\ Gone(world, i)
      /\ connected(s)
  BY DEF TcpInv, Sessions, OnReply
<1>2. ~s.freed
  BY <1>1 DEF Settled, connected
<1>3. /\ Sound(w) /\ Touches(world, w, i) /\ Settled(w.sess[i]) /\ w.cur = world.cur
      /\ connected(w.sess[i])
      /\ w.sess[i].send_list = s.send_list /\ w.sess[i].freed = s.freed
      /\ w.sess[i].ack_list = s.ack_list \ {q}
  BY <1>1, OnRecvMsgEffect
<1>4. \/ ~(is_idle(w.sess[i]) /\ is_retire(w, i)) /\ world' = w
      \/ is_idle(w.sess[i]) /\ \E outcome \in Outcomes : world' = stop(w, i, outcome)
  BY DEF OnReply
<1> HIDE DEF w
<1>5. CASE ~(is_idle(w.sess[i]) /\ is_retire(w, i)) /\ world' = w
  <2>1. Gone(w, i)
    BY <1>5 DEF Gone, is_idle, is_retire
  <2>2. LosesOnly(s, w.sess[i], q)
    BY <1>3 DEF LosesOnly, Outstanding, connected
  <2>3. /\ TcpInv(w)
        /\ \A j \in DOMAIN world.sess : j # i => LosesNothing(world.sess[j], w.sess[j])
    BY <1>1, <1>3, <2>1, TouchedInv
  <2> QED
    BY <1>5, <2>2, <2>3 DEF Answered
<1>6. CASE is_idle(w.sess[i]) /\ \E outcome \in Outcomes : world' = stop(w, i, outcome)
  <2>1. PICK outcome \in Outcomes : world' = stop(w, i, outcome)
    BY <1>6
  <2>2. ~w.sess[i].freed /\ Counted(w.sess[i]) /\ w.sess[i].pending_n = 0
    BY <1>2, <1>3, <1>6 DEF Settled, is_idle
  <2>3. Kept(world, world')
    BY <1>1, <1>3, <2>1, <2>2, StopKept
  <2> QED
    BY <2>3 DEF Kept, Answered
<1> QED
  BY <1>4, <1>5, <1>6

-----------------------------------------------------------------------------
(* check_timeout *)

(* The function that frees one session after the other is what it says. *)
LEMMA FreedOneByOne ==
  ASSUME NEW w, NEW f,
         f = CHOOSE g : g = [k \in Nat |-> IF k = 0 THEN w ELSE free(g[k - 1], w.list[k])]
  PROVE  f[0] = w /\ \A k \in Nat \ {0} : f[k] = free(f[k - 1], w.list[k])
<1>1. NatInductiveDefHypothesis(f, w, LAMBDA v, k : free(v, w.list[k]))
  BY DEF NatInductiveDefHypothesis
<1>2. NatInductiveDefConclusion(f, w, LAMBDA v, k : free(v, w.list[k]))
  BY <1>1, NatInductiveDef
<1>3. f = [k \in Nat |-> IF k = 0 THEN w ELSE free(f[k - 1], w.list[k])]
  BY <1>2 DEF NatInductiveDefConclusion
<1> QED
  BY <1>3

(* The walk has a place where it stops. *)
LEMMA StopsAtExists ==
  ASSUME NEW w \in World
  PROVE  StopsAt(w) \in 1..(Len(w.list) + 1)
<1>1. Len(w.list) \in Nat
  BY WorldFields
<1> DEFINE P(k) == /\ \A j \in 1..(k - 1) : OverdueAt(w, j)
                   /\ k <= Len(w.list) => ~OverdueAt(w, k)
           T == {k \in 1..(Len(w.list) + 1) : k <= Len(w.list) => ~OverdueAt(w, k)}
<1>2. T \in SUBSET Nat /\ Len(w.list) + 1 \in T
  BY <1>1
<1>3. PICK x \in T : \A y \in T : x <= y
  BY <1>2, Least
<1>4. x \in 1..(Len(w.list) + 1) /\ P(x)
  <2>1. ASSUME NEW j \in 1..(x - 1) PROVE OverdueAt(w, j)
    <3>1. j \in 1..(Len(w.list) + 1) /\ ~(x <= j) /\ x \in Nat
      BY <1>1, <1>2
    <3>2. j \notin T
      BY <1>3, <3>1
    <3> QED
      BY <3>1, <3>2
  <2> QED
    BY <2>1
<1>5. StopsAt(w) = CHOOSE k \in 1..(Len(w.list) + 1) : P(k)
  BY DEF StopsAt
<1> HIDE DEF P
<1> QED
  BY <1>4, <1>5

(* Freeing a session keeps the invariant. *)
LEMMA FreeKept ==
  ASSUME NEW w, TcpInv(w), NEW i \in DOMAIN w.sess
  PROVE  /\ TcpInv(free(w, i)) /\ DOMAIN free(w, i).sess = DOMAIN w.sess
         /\ free(w, i).sess[i].sender = "none"
         /\ \A j \in DOMAIN w.sess : j # i => free(w, i).sess[j] = w.sess[j]
<1> DEFINE v == free(w, i)
<1>1. Sound(w)
  BY DEF TcpInv
<1>2. /\ Sound(v) /\ Touches(w, v, i)
      /\ v.sess[i].freed /\ v.sess[i].pending_n = 0 /\ v.sess[i].sender = "none"
      /\ v.sess[i].send_list = <<>> /\ v.sess[i].ack_list = {}
  BY <1>1, FreeEffect
<1> HIDE DEF v
<1>3. Cardinality({}) = 0 /\ Len(<<>>) = 0
  BY FS_EmptySet
<1>4. Settled(v.sess[i]) /\ Gone(v, i) /\ LosesNothing(w.sess[i], v.sess[i])
  BY <1>2, <1>3, TcpAssumption DEF Settled, Counted, Gone, LosesNothing, connected
<1>5. TcpInv(v)
  BY <1>2, <1>4, TouchedKept DEF Kept
<1> QED
  BY <1>2, <1>5 DEF Touches, v

(* check_timeout frees sessions, and does nothing else. *)
LEMMA CheckTimeoutKept ==
  ASSUME NEW w, TcpInv(w)
  PROVE  Kept(w, check_timeout(w))
<1> DEFINE f[k \in Nat] == IF k = 0 THEN w ELSE free(f[k - 1], w.list[k])
           n == StopsAt(w) - 1
           P(k) == /\ TcpInv(f[k]) /\ DOMAIN f[k].sess = DOMAIN w.sess
                   /\ \A j \in DOMAIN w.sess :
                        f[k].sess[j] = w.sess[j] \/ f[k].sess[j].sender = "none"
<1>1. check_timeout(w) = f[n]
  BY DEF check_timeout
<1>2. f[0] = w /\ \A k \in Nat \ {0} : f[k] = free(f[k - 1], w.list[k])
  BY FreedOneByOne
<1> HIDE DEF f
<1>3. w \in World /\ Listed(w) /\ w.list \in Seq(Nat) /\ Len(w.list) \in Nat
  BY WorldFields DEF TcpInv, Sound
<1>4. n \in 0..Len(w.list)
  BY <1>3, StopsAtExists
<1>5. \A k \in 1..Len(w.list) : w.list[k] \in DOMAIN w.sess
  BY <1>3, ToSetMembers DEF Listed
<1> HIDE DEF n
<1>6. P(0)
  BY <1>2
<1>7. ASSUME NEW k \in 1..Len(w.list), P(k - 1) PROVE P(k)
  <2> DEFINE i == w.list[k]
             v == f[k - 1]
  <2>1. f[k] = free(v, i) /\ i \in DOMAIN v.sess /\ TcpInv(v)
    BY <1>2, <1>3, <1>5, <1>7
  <2> HIDE DEF v, i
  <2>2. /\ TcpInv(f[k]) /\ DOMAIN f[k].sess = DOMAIN v.sess
        /\ f[k].sess[i].sender = "none"
        /\ \A j \in DOMAIN v.sess : j # i => f[k].sess[j] = v.sess[j]
    BY <2>1, FreeKept
  <2> QED
    BY <1>7, <2>2 DEF v
<1> HIDE DEF P
<1>8. P(n)
  <2> SUFFICES ASSUME ~P(n) PROVE FALSE
    OBVIOUS
  <2> DEFINE T == {k \in 0..Len(w.list) : ~P(k)}
  <2>1. T \in SUBSET Nat /\ T # {}
    BY <1>3, <1>4
  <2>2. PICK x \in T : \A y \in T : x <= y
    BY <2>1, Least
  <2>3. x \in 1..Len(w.list) /\ ~P(x)
    BY <1>3, <1>6
  <2>4. x - 1 \in 0..Len(w.list) /\ ~(x <= x - 1)
    BY <1>3, <2>3
  <2>5. P(x - 1)
    BY <2>2, <2>4
  <2> QED
    BY <1>7, <2>3, <2>5
<1>9. ASSUME NEW j \in DOMAIN w.sess PROVE LosesNothing(w.sess[j], f[n].sess[j])
  <2>1. CASE f[n].sess[j] = w.sess[j]
    BY <2>1, UntouchedLosesNothing DEF TcpInv
  <2>2. CASE f[n].sess[j].sender = "none"
    BY <2>2 DEF LosesNothing, connected
  <2> QED
    BY <1>8, <2>1, <2>2 DEF P
<1> QED
  BY <1>1, <1>8, <1>9 DEF Kept, P

(* The invariant does not depend on the clock. *)
LEMMA ClockKept ==
  ASSUME NEW w, TcpInv(w), NEW d \in Nat
  PROVE  LET v == [w EXCEPT !.now = @ + d]
         IN  TcpInv(v) /\ v.sess = w.sess
<1> DEFINE v == [w EXCEPT !.now = @ + d]
<1>1. w \in World /\ Owned(w) /\ Listed(w)
  BY DEF TcpInv, Sound
<1>2. w.now + d \in Nat
  BY <1>1, WorldFields
<1>3. v \in World /\ v.sess = w.sess /\ v.cur = w.cur /\ v.list = w.list
  BY <1>1, <1>2 DEF World
<1> HIDE DEF v
<1>4. Owned(v) /\ Listed(v)
  BY <1>1, <1>3 DEF Owned, Listed
<1>5. \A i \in DOMAIN w.sess : Settled(w.sess[i]) /\ Gone(v, i)
  BY <1>3 DEF TcpInv, Gone
<1> QED
  BY <1>3, <1>4, <1>5 DEF TcpInv, Sound, v

(* The loop looks at the clock and walks the list. *)
LEMMA LoopTopKept ==
  ASSUME TcpInv(world), NEW d \in {0, 1}, LoopTop(d)
  PROVE  Kept(world, world')
<1> DEFINE w == [world EXCEPT !.now = @ + d]
<1>1. TcpInv(w) /\ w.sess = world.sess
  <2>1. d \in Nat
    OBVIOUS
  <2> QED
    BY <2>1, ClockKept
<1>2. world' = check_timeout(w)
  BY DEF LoopTop
<1> HIDE DEF w
<1>3. Kept(w, world')
  BY <1>1, <1>2, CheckTimeoutKept
<1> QED
  BY <1>1, <1>3 DEF Kept

-----------------------------------------------------------------------------
(* The invariant *)

(* It holds at the start, when there are no sessions. *)
LEMMA TcpInvInit == Init => TcpInv(world)
<1> SUFFICES ASSUME Init PROVE TcpInv(world)
  OBVIOUS
<1>1. /\ world.sess = <<>> /\ world.list = <<>> /\ world.cur = [u \in Upstreams |-> 0]
      /\ DOMAIN world.sess = {}
  BY DEF Init
<1>2. world \in World
  <2>1. <<>> \in Seq(Session) /\ <<>> \in Seq(Nat)
    OBVIOUS
  <2>2. [u \in Upstreams |-> 0] \in [Upstreams -> Nat]
    OBVIOUS
  <2> QED
    BY <2>1, <2>2 DEF Init, World
<1>3. Owned(world)
  BY <1>1 DEF Owned
<1>4. Listed(world)
  BY <1>1 DEF Listed, IsInjective, ToSet
<1> QED
  BY <1>1, <1>2, <1>3, <1>4 DEF TcpInv, Sound

(* Every step of the program keeps it, and loses nothing but what it        *)
(* answers.                                                                 *)
LEMMA TcpStep ==
  ASSUME TcpInv(world), [Next]_vars
  PROVE  \/ Kept(world, world')
         \/ \E i \in Sessions, q \in Qids : OnReply(i, q) /\ Answered(world, world', i, q)
<1>1. ASSUME NEW u \in Upstreams, NEW q \in Qids, Send(u, q) PROVE Kept(world, world')
  BY <1>1, SendKept
<1>2. ASSUME NEW i \in Sessions, ConnectDone(i) PROVE Kept(world, world')
  BY <1>2, ConnectDoneKept
<1>3. ASSUME NEW i \in Sessions, ConnectFails(i) PROVE Kept(world, world')
  BY <1>3, ConnectFailsKept
<1>4. ASSUME NEW i \in Sessions, Unblocked(i) PROVE Kept(world, world')
  BY <1>4, UnblockedKept
<1>5. ASSUME NEW i \in Sessions, ConnectionEnds(i) PROVE Kept(world, world')
  BY <1>5, ConnectionEndsKept
<1>6. ASSUME NEW i \in Sessions, NEW q \in Qids, OnReply(i, q)
      PROVE  Answered(world, world', i, q)
  BY <1>6, OnReplyAnswers
<1>7. ASSUME NEW d \in {0, 1}, LoopTop(d) PROVE Kept(world, world')
  BY <1>7, LoopTopKept
<1>8. CASE ClockInBatch
  <2>1. world' = [world EXCEPT !.now = @ + 1] /\ 1 \in Nat
    BY <1>8 DEF ClockInBatch
  <2>2. TcpInv(world') /\ world'.sess = world.sess
    BY <2>1, ClockKept
  <2> QED
    BY <2>2, UntouchedLosesNothing DEF Kept, TcpInv
<1>9. CASE UNCHANGED vars
  BY <1>9, UntouchedLosesNothing DEF vars, Kept, TcpInv
<1> QED
  BY <1>1, <1>2, <1>3, <1>4, <1>5, <1>6, <1>7, <1>8, <1>9 DEF Next

(* Together. *)
LEMMA TcpInvariant == Spec => []TcpInv(world)
<1>1. TcpInv(world) /\ [Next]_vars => TcpInv(world)'
  BY TcpStep DEF Kept, Answered
<1> QED
  BY <1>1, TcpInvInit, PTL DEF Spec

-----------------------------------------------------------------------------
(* Theorems *)

(* pending_n, the two queues, the sender's place and the timeout list agree *)
(* about every session, through duplicated ids, restarts and drops.         *)
THEOREM TcpSessionsAreAccountedFor == Spec => []SessionsAreAccountedFor
<1>1. ASSUME TcpInv(world) PROVE SessionsAreAccountedFor
  <2>1. world \in World /\ Owned(world) /\ Listed(world)
    BY <1>1 DEF TcpInv, Sound
  <2>2. /\ ToSet(world.list) = {i \in Sessions : Busy(i)}
        /\ Len(world.list) = Cardinality(ToSet(world.list))
    BY <2>1, WorldFields, InjectiveLen DEF Listed, Sessions, Busy, is_idle
  <2>3. ASSUME NEW i \in Sessions
        PROVE  /\ world.sess[i] \in Session /\ Settled(world.sess[i])
               /\ world.sess[i].freed => world.cur[world.sess[i].up] # i
    <3>1. world.sess[i] \in Session /\ Settled(world.sess[i])
      BY <1>1, <2>1, WorldFields DEF TcpInv, Sessions
    <3>2. world.sess[i].up \in Upstreams /\ i # 0
      BY <2>1, <3>1, WorldFields, SessionFields DEF Sessions
    <3> QED
      BY <2>1, <3>1, <3>2 DEF Owned
  <2> QED
    BY <2>2, <2>3 DEF SessionsAreAccountedFor, Settled, Counted, Busy, is_idle
<1>2. TcpInv(world) => SessionsAreAccountedFor
  BY <1>1
<1> QED
  BY <1>2, TcpInvariant, PTL

(* A session without a proxy that its upstream has left is freed as soon as *)
(* it waits for nothing.                                                    *)
THEOREM TcpRetiredSessionIsFreed == Spec => []RetiredTcpSessionIsFreed
<1>1. TcpInv(world) => RetiredTcpSessionIsFreed
  BY DEF TcpInv, Gone, RetiredTcpSessionIsFreed, Sessions, is_idle
<1> QED
  BY <1>1, TcpInvariant, PTL

(* A query that was taken leaves a session that has or makes a connection   *)
(* only by its reply, however often connections end and are made again;     *)
(* only a send whose write and new connection both fail at once gives the   *)
(* queries up and connects with none.                                       *)
THEOREM TcpReconnectLosesNothing == Spec => ReconnectLosesNothing
<1> DEFINE Step(i) ==
             LET s == world.sess[i]
                 t == world'.sess[i]
             IN /\ t.sender = "connect" =>
                      Outstanding(s) \subseteq ToSet(t.send_list) \/ GivenUp(s, t)
                /\ connected(t) =>
                      /\ ToSet(s.send_list) \subseteq Outstanding(t)
                      /\ \A q \in Outstanding(s) \ Outstanding(t) : OnReply(i, q)
<1>1. ASSUME TcpInv(world), [Next]_vars, NEW i \in Sessions PROVE Step(i)
  <2> DEFINE s == world.sess[i]
             t == world'.sess[i]
  <2>1. ASSUME LosesNothing(s, t) PROVE Step(i)
    BY <2>1 DEF LosesNothing, Outstanding
  <2>2. ASSUME NEW q \in Qids, OnReply(i, q), LosesOnly(s, t, q) PROVE Step(i)
    <3>1. \A x \in Outstanding(s) \ Outstanding(t) : x = q
      BY <2>2 DEF LosesOnly
    <3>2. t.sender # "connect" /\ ToSet(s.send_list) \subseteq Outstanding(t)
      BY <2>2 DEF LosesOnly
    <3> QED
      BY <2>2, <3>1, <3>2
  <2>3. i \in DOMAIN world.sess
    BY DEF Sessions
  <2>4. LosesNothing(s, t) \/ \E q \in Qids : OnReply(i, q) /\ LosesOnly(s, t, q)
    <3>1. CASE Kept(world, world')
      BY <2>3, <3>1 DEF Kept
    <3>2. ASSUME NEW j \in Sessions, NEW q \in Qids, OnReply(j, q),
                 Answered(world, world', j, q)
          PROVE  LosesNothing(s, t) \/ (OnReply(i, q) /\ LosesOnly(s, t, q))
      <4>1. LosesNothing(s, t) \/ (i = j /\ LosesOnly(s, t, q))
        BY <2>3, <3>2 DEF Answered
      <4> QED
        BY <3>2, <4>1
    <3> QED
      BY <1>1, <3>1, <3>2, TcpStep
  <2> HIDE DEF s, t
  <2> QED
    BY <2>1, <2>2, <2>4
<1>2. TcpInv(world) /\ [Next]_vars => [\A i \in Sessions : Step(i)]_vars
  BY <1>1
<1> QED
  BY <1>2, TcpInvariant, PTL DEF Spec, ReconnectLosesNothing

=============================================================================
