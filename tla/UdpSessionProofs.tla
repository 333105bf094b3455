-------------------------- MODULE UdpSessionProofs --------------------------
(***************************************************************************)
(* Theorems about UdpSession, for every value of its constants.            *)
(***************************************************************************)
EXTENDS UdpSession, SequenceLemmas

-----------------------------------------------------------------------------
(* The inductive invariant, in parts. *)

(* The list has every busy session once, and nothing else. *)
Listed ==
  /\ IsInjective(session_list)
  /\ ToSet(session_list) = {i \in Sessions : Busy(i)}

(* The list is in the order of the last query, and no query is from the     *)
(* future.                                                                  *)
Sorted ==
  /\ \A a, b \in DOMAIN session_list :
       a <= b => sess[session_list[a]].query_time <= sess[session_list[b]].query_time
  /\ \A i \in Sessions : sess[i].query_time <= now

(* A session that waits for replies, or ever sent a query, reads as long as *)
(* it lives; one that reads is alive and has a proxy to read from, if it    *)
(* needs one; a freed one holds no query.                                   *)
Reading ==
  \A i \in Sessions :
    /\ Busy(i) => sess[i].receiving
    /\ sess[i].query_count # 0 /\ ~sess[i].freed => sess[i].receiving
    /\ sess[i].receiving => ~sess[i].freed /\ sess[i].proxy \in {"off", "ready"}
    /\ sess[i].freed => sess[i].query_list = {}

(* An upstream's session is its own, and alive. *)
Current ==
  \A u \in Upstreams :
    cur[u] # 0 => sess[cur[u]].up = u /\ ~sess[cur[u]].freed

(* A session whose proxy is not up has sent nothing. *)
Unsent ==
  \A i \in Sessions :
    sess[i].proxy \in {"down", "starting"} => Proxied[sess[i].up] /\ sess[i].query_count = 0

(* A session that has sent its share waits for a reply, or is gone. *)
SpentIsBusy ==
  \A i \in Sessions :
    /\ CountMax[sess[i].up] > 0
    /\ sess[i].query_count >= CountMax[sess[i].up]
    /\ ~sess[i].freed
    => sess[i].query_list # {}

UdpInv ==
  /\ TypeOK /\ Listed /\ Sorted /\ Reading /\ Current /\ Unsent /\ SpentIsBusy
  /\ RetiredByCountIsFreed

-----------------------------------------------------------------------------
(* Sessions and their records *)

(* A session that is made now is a session, alive and idle. *)
LEMMA NewType ==
  ASSUME TypeOK, NEW u \in Upstreams
  PROVE  /\ new(u) \in Session
         /\ new(u).up = u /\ ~new(u).freed /\ new(u).query_list = {}
         /\ new(u).query_time = 0 /\ new(u).query_count = 0 /\ ~new(u).receiving
         /\ new(u).proxy = IF Proxied[u] THEN "down" ELSE "off"
BY UdpAssumption DEF TypeOK, new, Session

(* The table with the new session behind the others. *)
LEMMA NewTable ==
  ASSUME TypeOK, NEW u \in Upstreams
  PROVE  LET table == Append(sess, new(u))
         IN  /\ table \in [1..(nsess + 1) -> Session] /\ table[nsess + 1] = new(u)
             /\ \A j \in Sessions : table[j] = sess[j]
<1> DEFINE table == Append(sess, new(u))
<1>1. new(u) \in Session
  BY NewType
<1>2. sess \in Seq(Session) /\ Len(sess) = nsess
  BY UdpAssumption, SeqDef DEF TypeOK, Sessions
<1>3. /\ table \in Seq(Session) /\ Len(table) = nsess + 1
      /\ \A j \in 1..nsess : table[j] = sess[j]
      /\ table[nsess + 1] = new(u)
  BY <1>1, <1>2, AppendProperties
<1> HIDE DEF table
<1>4. table \in [1..(nsess + 1) -> Session]
  BY <1>3, LenProperties
<1> QED
  BY <1>3, <1>4 DEF Sessions, table

(* A freed session keeps its times, its counter and its proxy. *)
LEMMA FreedType ==
  ASSUME NEW s \in Session
  PROVE  /\ Freed(s) \in Session
         /\ Freed(s).freed /\ Freed(s).query_list = {} /\ ~Freed(s).receiving
         /\ Freed(s).up = s.up /\ Freed(s).query_time = s.query_time
         /\ Freed(s).query_count = s.query_count /\ Freed(s).proxy = s.proxy
BY DEF Freed, Session

(* The backoff stays a point in time and a step. *)
LEMMA BackoffType ==
  ASSUME TypeOK
  PROVE  /\ proxy_note_fail \in [until : Nat, step : 0..10]
         /\ proxy_note_success \in [until : Nat, step : 0..10]
<1> DEFINE step == IF backoff.step < 10 THEN backoff.step + 1 ELSE backoff.step
<1>1. step \in 1..10
  BY DEF TypeOK
<1>2. now \in Nat /\ DelayMax \in Nat
  BY UdpAssumption DEF TypeOK
<1> HIDE DEF step
<1>3. 2 ^ (step - 1) \in Nat
  <2>1. step - 1 \in Nat
    BY <1>1
  <2> QED
    BY <2>1, PowerOfTwo
<1>4. Delay(step) \in Nat
  BY <1>2, <1>3 DEF Delay
<1>5. proxy_note_fail = [until |-> now + Delay(step), step |-> step]
  BY DEF proxy_note_fail, step
<1> QED
  BY <1>1, <1>2, <1>4, <1>5 DEF proxy_note_success

-----------------------------------------------------------------------------
(* Sending *)

(* What SendOn does to the records, given that the table it starts from has *)
(* session i: a session is worked on, is starting its proxy, or is as it    *)
(* was; no other session changes.                                           *)
LEMMA SendOnEffect ==
  ASSUME TypeOK, NEW n \in Nat, NEW table \in [1..n -> Session],
         NEW i \in 1..n, NEW q \in Qids, SendOn(i, table[i], table, q)
  PROVE  /\ sess' \in [1..n -> Session]
         /\ \A j \in 1..n : j # i => sess'[j] = table[j]
         /\ sess'[i].up = table[i].up /\ sess'[i].freed = table[i].freed
         /\ \/ /\ UNCHANGED session_list
               /\ table[i].proxy \in {"down", "starting"}
               /\ sess'[i].proxy \in {"down", "starting"}
               /\ sess'[i].query_list = table[i].query_list
               /\ sess'[i].query_time = table[i].query_time
               /\ sess'[i].query_count = table[i].query_count
               /\ sess'[i].receiving = table[i].receiving
            \/ /\ session_list' = on_work(session_list, i, is_idle(table[i]))
               /\ table[i].proxy \in {"off", "ready"}
               /\ sess'[i].proxy = table[i].proxy
               /\ sess'[i].query_list # {}
               /\ sess'[i].query_time = now
               /\ table[i].receiving \/ table[i].query_count = 0 => sess'[i].receiving
<1>1. table[i] \in Session /\ now \in Nat
  BY UdpAssumption DEF TypeOK
<1>2. CASE sess' = table /\ UNCHANGED session_list /\ table[i].proxy \in {"down", "starting"}
  BY <1>2
<1>3. CASE /\ sess' = [table EXCEPT ![i].proxy = "starting"]
           /\ UNCHANGED session_list /\ table[i].proxy \in {"down", "starting"}
  BY <1>1, <1>3 DEF Session
<1>4. CASE /\ table[i].proxy \in {"off", "ready"}
           /\ session_list' = on_work(session_list, i, is_idle(table[i]))
           /\ sess' = [table EXCEPT ![i].query_list = @ \cup {q},
                                    ![i].query_time = now,
                                    ![i].query_count = @ + 1,
                                    ![i].receiving = @ \/ table[i].query_count = 0]
  <2>1. sess' = [table EXCEPT ![i] = [table[i] EXCEPT
                     !.query_list = @ \cup {q}, !.query_time = now,
                     !.query_count = @ + 1, !.receiving = @ \/ table[i].query_count = 0]]
    BY <1>1, <1>4 DEF Session
  <2> QED
    BY <1>1, <1>4, <2>1 DEF Session
<1> QED
  BY <1>2, <1>3, <1>4 DEF SendOn

(* The parts of the invariant about the list and the records, for a table   *)
(* of sessions with a new one or without.                                   *)
LEMMA SendOnKeeps ==
  ASSUME UdpInv, NEW n \in Nat, NEW table \in [1..n -> Session],
         NEW i \in 1..n, NEW q \in Qids, SendOn(i, table[i], table, q),
         nsess' = n, now' = now,
         nsess <= n, \A j \in 1..n : j \notin Sessions => j = i,
         \A j \in Sessions : table[j] = sess[j],
         ~table[i].freed,
         i \notin Sessions => /\ table[i].query_list = {} /\ ~table[i].receiving
                              /\ table[i].query_time = 0 /\ table[i].query_count = 0
                              /\ table[i].proxy = "down" => Proxied[table[i].up]
                              /\ table[i].proxy # "starting"
  PROVE  /\ sess' \in [1..n -> Session] /\ session_list' \in Seq(1..n)
         /\ Listed' /\ Sorted' /\ Reading' /\ Unsent' /\ SpentIsBusy'
<1>1. /\ sess' \in [1..n -> Session]
      /\ \A j \in 1..n : j # i => sess'[j] = table[j]
      /\ sess'[i].up = table[i].up /\ sess'[i].freed = table[i].freed
  BY SendOnEffect DEF UdpInv
<1> DEFINE Refused ==
             /\ session_list' = session_list
             /\ table[i].proxy \in {"down", "starting"}
             /\ sess'[i].proxy \in {"down", "starting"}
             /\ sess'[i].query_list = table[i].query_list
             /\ sess'[i].query_time = table[i].query_time
             /\ sess'[i].query_count = table[i].query_count
             /\ sess'[i].receiving = table[i].receiving
           Worked ==
             /\ session_list' = on_work(session_list, i, is_idle(table[i]))
             /\ table[i].proxy \in {"off", "ready"}
             /\ sess'[i].proxy = table[i].proxy
             /\ sess'[i].query_list # {}
             /\ sess'[i].query_time = now
             /\ table[i].receiving \/ table[i].query_count = 0 => sess'[i].receiving
<1>2. Refused \/ Worked
  BY SendOnEffect DEF UdpInv
<1>3. /\ nsess \in Nat /\ now \in Nat /\ Sessions \subseteq 1..n /\ Sessions' = 1..n
      /\ session_list \in Seq(Sessions) /\ session_list \in Seq(1..n)
      /\ \A j \in 1..n : table[j].query_time \in Nat
      /\ \A j \in Sessions : sess[j] \in Session
      /\ sess' = [j \in 1..n |-> sess'[j]]
  <2>1. nsess \in Nat /\ now \in Nat /\ Sessions \subseteq 1..n /\ Sessions' = 1..n
    BY UdpAssumption DEF UdpInv, TypeOK, Sessions
  <2>2. session_list \in Seq(Sessions) /\ session_list \in Seq(1..n)
    BY <2>1, SeqMonotonic DEF UdpInv, TypeOK
  <2> QED
    BY <1>1, <2>1, <2>2 DEF UdpInv, TypeOK, Session
<1>4. /\ IsInjective(session_list)
      /\ ToSet(session_list) = {j \in Sessions : ~table[j].freed /\ table[j].query_list # {}}
  BY DEF UdpInv, Listed, Busy, is_idle
<1>5. \A j \in 1..n : /\ table[j].query_time <= now
                      /\ table[j].query_list # {} /\ ~table[j].freed => j \in Sessions
  BY <1>3 DEF UdpInv, Sorted
<1>6. \A a, b \in DOMAIN session_list : a <= b =>
         table[session_list[a]].query_time <= table[session_list[b]].query_time
  <2>1. \A a \in DOMAIN session_list : session_list[a] \in Sessions
    BY <1>3
  <2> QED
    BY <2>1 DEF UdpInv, Sorted
<1>7. \A j \in 1..n :
        /\ ~table[j].freed /\ table[j].query_list # {} => table[j].receiving
        /\ table[j].query_count # 0 /\ ~table[j].freed => table[j].receiving
        /\ table[j].receiving => ~table[j].freed /\ table[j].proxy \in {"off", "ready"}
        /\ table[j].freed => table[j].query_list = {}
        /\ table[j].proxy \in {"down", "starting"} =>
             Proxied[table[j].up] /\ table[j].query_count = 0
  BY DEF UdpInv, Reading, Unsent, Busy, is_idle
<1>8. \A j \in 1..n : /\ CountMax[table[j].up] > 0
                      /\ table[j].query_count >= CountMax[table[j].up]
                      /\ ~table[j].freed
                      => table[j].query_list # {}
  <2> TAKE j \in 1..n
  <2>1. CASE j \in Sessions
    BY <2>1 DEF UdpInv, SpentIsBusy
  <2>2. CASE j \notin Sessions
    <3>1. table[j].query_count = 0 /\ table[j].up \in Upstreams
      BY <2>2 DEF Session
    <3>2. CountMax[table[j].up] \in Nat
      BY <3>1, UdpAssumption
    <3> QED
      BY <3>1, <3>2
  <2> QED
    BY <2>1, <2>2
<1> HIDE DEF Refused, Worked
<1>9. CASE Refused
  <2>1. \A j \in 1..n :
          /\ sess'[j].freed = table[j].freed /\ sess'[j].query_list = table[j].query_list
          /\ sess'[j].query_time = table[j].query_time /\ sess'[j].up = table[j].up
          /\ sess'[j].query_count = table[j].query_count
          /\ sess'[j].receiving = table[j].receiving
          /\ sess'[j].proxy \in {"down", "starting"} => table[j].proxy \in {"down", "starting"}
          /\ table[j].proxy \in {"off", "ready"} => sess'[j].proxy \in {"off", "ready"}
    BY <1>1, <1>9 DEF Refused
  <2>2. session_list' = session_list
    BY <1>9 DEF Refused
  <2>3. Listed'
    <3>1. ToSet(session_list') = {j \in 1..n : ~sess'[j].freed /\ sess'[j].query_list # {}}
      BY <1>3, <1>4, <1>5, <2>1, <2>2
    <3> QED
      BY <1>3, <1>4, <2>2, <3>1 DEF Listed, Busy, is_idle
  <2>4. Sorted'
    <3>1. \A a \in DOMAIN session_list : session_list[a] \in 1..n
      BY <1>3
    <3>2. \A j \in 1..n : sess'[j].query_time <= now'
      BY <1>5, <2>1
    <3>3. \A a, b \in DOMAIN session_list : a <= b =>
            sess'[session_list[a]].query_time <= sess'[session_list[b]].query_time
      BY <1>6, <2>1, <3>1
    <3> QED
      BY <1>3, <2>2, <3>2, <3>3 DEF Sorted
  <2>5. Reading'
    BY <1>3, <1>7, <2>1 DEF Reading, Busy, is_idle
  <2>6. Unsent' /\ SpentIsBusy'
    <3>1. Unsent'
      BY <1>3, <1>7, <2>1 DEF Unsent
    <3>2. SpentIsBusy'
      BY <1>3, <1>8, <2>1 DEF SpentIsBusy
    <3> QED
      BY <3>1, <3>2
  <2> QED
    BY <1>1, <1>3, <2>2, <2>3, <2>4, <2>5, <2>6
<1>10. CASE Worked
  <2> DEFINE l == IF table[i].query_list = {} THEN session_list ELSE Unlist(session_list, i)
  <2>1. /\ l \in Seq(1..n) /\ IsInjective(l) /\ i \notin ToSet(l)
        /\ ToSet(l) = ToSet(session_list) \ {i}
    <3>1. CASE table[i].query_list = {}
      <4>1. i \notin ToSet(session_list)
        BY <1>4, <3>1
      <4> QED
        BY <1>3, <1>4, <3>1, <4>1
    <3>2. CASE table[i].query_list # {}
      BY <1>3, <1>4, <3>2, UnlistElements
    <3> QED
      BY <3>1, <3>2
  <2>2. session_list' = Append(l, i)
    BY <1>10 DEF Worked, on_work, is_idle
  <2>3. ASSUME NEW R, \A a, b \in DOMAIN session_list :
                         a <= b => <<session_list[a], session_list[b]>> \in R
         PROVE  \A a, b \in DOMAIN l : a <= b => <<l[a], l[b]>> \in R
    BY <1>3, <2>3, UnlistOrder
  <2> HIDE DEF l
  <2>4. /\ session_list' \in Seq(1..n) /\ IsInjective(session_list')
        /\ ToSet(session_list') = ToSet(session_list) \cup {i}
    <3>1. /\ session_list' \in Seq(1..n) /\ IsInjective(session_list')
          /\ ToSet(session_list') = ToSet(l) \cup {i}
      BY <2>1, <2>2, AppendNew
    <3> QED
      BY <2>1, <3>1
  <2>5. Listed'
    <3>1. ToSet(session_list') = {j \in 1..n : ~sess'[j].freed /\ sess'[j].query_list # {}}
      BY <1>1, <1>3, <1>4, <1>5, <1>10, <2>4 DEF Worked
    <3> QED
      BY <1>3, <2>4, <3>1 DEF Listed, Busy, is_idle
  <2>6. Sorted'
    <3>1. \A j \in Sessions' : sess'[j].query_time <= now'
      <4> TAKE j \in Sessions'
      <4>1. Sessions' = 1..n /\ now' = now /\ now <= now
        BY <1>1, <1>3
      <4>2. CASE j = i
        <5>1. sess'[i].query_time = now
          BY <1>10 DEF Worked
        <5> QED
          BY <4>1, <4>2, <5>1
      <4>3. CASE j # i
        <5>1. sess'[j].query_time = table[j].query_time
          BY <1>1, <4>1, <4>3
        <5> QED
          BY <1>5, <4>1, <5>1
      <4> QED
        BY <4>2, <4>3
    <3>2. \A a, b \in DOMAIN session_list' : a <= b =>
            sess'[session_list'[a]].query_time <= sess'[session_list'[b]].query_time
      <4> DEFINE R == {p \in (1..n) \X (1..n) : table[p[1]].query_time <= table[p[2]].query_time}
      <4>2. \A a, b \in DOMAIN session_list : a <= b => <<session_list[a], session_list[b]>> \in R
        BY <1>3, <1>6
      <4> HIDE DEF R
      <4>3. \A a, b \in DOMAIN l : a <= b => <<l[a], l[b]>> \in R
        BY <2>3, <4>2
      <4>5. /\ DOMAIN session_list' = 1..(Len(l) + 1) /\ Len(l) \in Nat
            /\ session_list'[Len(l) + 1] = i
            /\ \A a \in 1..Len(l) : session_list'[a] = l[a] /\ l[a] # i /\ l[a] \in 1..n
        BY <2>1, <2>2 DEF ToSet
      <4> SUFFICES ASSUME NEW a \in 1..(Len(l) + 1), NEW b \in 1..(Len(l) + 1), a <= b
                   PROVE  sess'[session_list'[a]].query_time
                            <= sess'[session_list'[b]].query_time
        BY <4>5
      <4>6. CASE b = Len(l) + 1
        <5>1. session_list'[a] \in 1..n
          BY <4>5
        <5> QED
          BY <1>3, <1>10, <3>1, <4>5, <4>6, <5>1 DEF Worked
      <4>7. CASE b # Len(l) + 1
        <5>1. a \in 1..Len(l) /\ b \in 1..Len(l)
          BY <4>5, <4>7
        <5>2. <<l[a], l[b]>> \in R
          BY <2>1, <4>3, <5>1
        <5> QED
          BY <1>1, <4>5, <5>1, <5>2 DEF R
      <4> QED
        BY <4>6, <4>7
    <3> QED
      BY <3>1, <3>2 DEF Sorted
  <2>7. Reading' /\ Unsent' /\ SpentIsBusy'
    BY <1>1, <1>3, <1>7, <1>8, <1>10 DEF Reading, Unsent, SpentIsBusy, Busy, is_idle, Worked
  <2> QED
    BY <1>1, <2>4, <2>5, <2>6, <2>7
<1> QED
  BY <1>2, <1>9, <1>10

(* Upstream.send, with a socket. *)
LEMMA SendKeeps ==
  ASSUME UdpInv, NEW u \in Upstreams, NEW q \in Qids, Send(u, q)
  PROVE  UdpInv'
<1>1. /\ nsess \in Nat /\ nsend' \in 0..MaxSend /\ now' = now /\ backoff' = backoff
      /\ sess \in [Sessions -> Session] /\ cur \in [Upstreams -> 0..nsess]
  BY UdpAssumption DEF UdpInv, TypeOK, Send
<1>2. CASE ~NeedsNew(u) /\ SendOn(cur[u], sess[cur[u]], sess, q) /\ UNCHANGED <<nsess, cur>>
  <2> DEFINE i == cur[u]
  <2>1. i \in 1..nsess /\ sess[i].up = u /\ ~sess[i].freed
    BY <1>1, <1>2 DEF NeedsNew, UdpInv, Current
  <2>2. /\ sess' \in [1..nsess -> Session] /\ session_list' \in Seq(1..nsess)
        /\ Listed' /\ Sorted' /\ Reading' /\ Unsent' /\ SpentIsBusy'
    BY <1>1, <1>2, <2>1, SendOnKeeps DEF Sessions
  <2>3. /\ \A j \in 1..nsess : j # i => sess'[j] = sess[j]
        /\ sess'[i].up = sess[i].up /\ sess'[i].freed = sess[i].freed
    BY <1>1, <1>2, <2>1, SendOnEffect DEF Sessions, UdpInv
  <2>4. TypeOK'
    BY <1>1, <1>2, <2>2 DEF TypeOK, UdpInv, Sessions
  <2>5. Current'
    BY <1>1, <1>2, <2>1, <2>3 DEF UdpInv, Current, Sessions
  <2>6. RetiredByCountIsFreed'
    BY <1>1, <1>2, <2>1, <2>3 DEF UdpInv, RetiredByCountIsFreed, is_idle, Sessions
  <2> QED
    BY <2>2, <2>4, <2>5, <2>6 DEF UdpInv
<1>3. CASE /\ NeedsNew(u) /\ nsess < MaxSess /\ nsess' = nsess + 1
           /\ cur' = [cur EXCEPT ![u] = nsess + 1]
           /\ SendOn(nsess + 1, new(u), Append(sess, new(u)), q)
  <2> DEFINE n == nsess + 1
             table == Append(sess, new(u))
  <2>1. /\ table \in [1..n -> Session] /\ table[n] = new(u)
        /\ \A j \in Sessions : table[j] = sess[j]
    BY NewTable DEF UdpInv
  <2>2. /\ table[n].up = u /\ ~table[n].freed /\ table[n].query_list = {}
        /\ ~table[n].receiving /\ table[n].query_time = 0 /\ table[n].query_count = 0
        /\ table[n].proxy = "down" => Proxied[table[n].up]
        /\ table[n].proxy # "starting"
    BY <2>1, NewType DEF UdpInv
  <2>3. SendOn(n, table[n], table, q)
    BY <1>3, <2>1
  <2>4. /\ n \in Nat /\ n \in 1..n /\ Sessions' = 1..n /\ nsess <= n
        /\ \A j \in 1..n : j \notin Sessions => j = n
        /\ n \notin Sessions /\ nsess' = n /\ Sessions \subseteq 1..n
        /\ \A j \in 1..n : j # n => j \in Sessions
    BY <1>1, <1>3 DEF Sessions
  <2> HIDE DEF n, table
  <2>5. /\ sess' \in [1..n -> Session] /\ session_list' \in Seq(1..n)
        /\ Listed' /\ Sorted' /\ Reading' /\ Unsent' /\ SpentIsBusy'
    BY <1>1, <2>1, <2>2, <2>3, <2>4, SendOnKeeps
  <2>6. /\ \A j \in 1..n : j # n => sess'[j] = table[j]
        /\ sess'[n].up = u /\ ~sess'[n].freed
    BY <2>1, <2>2, <2>3, <2>4, SendOnEffect DEF UdpInv
  <2>7. cur' \in [Upstreams -> 0..n] /\ cur'[u] = n /\ \A v \in Upstreams : v # u => cur'[v] = cur[v]
    BY <1>1, <1>3 DEF n
  <2>8. TypeOK'
    BY <1>1, <1>3, <2>4, <2>5, <2>7, UdpAssumption DEF TypeOK, UdpInv, n
  <2>9. Current'
    <3> SUFFICES ASSUME NEW v \in Upstreams, cur'[v] # 0
                 PROVE  sess'[cur'[v]].up = v /\ ~sess'[cur'[v]].freed
      BY DEF Current
    <3>1. CASE v = u
      BY <2>6, <2>7, <3>1
    <3>2. CASE v # u
      <4>1. cur'[v] = cur[v] /\ cur[v] \in Sessions
        BY <1>1, <2>7, <3>2 DEF Sessions
      <4>2. sess'[cur[v]] = sess[cur[v]]
        BY <2>1, <2>4, <2>6, <4>1
      <4> QED
        BY <4>1, <4>2 DEF UdpInv, Current
    <3> QED
      BY <3>1, <3>2
  <2>10. RetiredByCountIsFreed'
    <3> SUFFICES ASSUME NEW j \in 1..n, Life[sess'[j].up] = 0, cur'[sess'[j].up] # j,
                        sess'[j].query_list = {}
                 PROVE  sess'[j].freed
      BY <2>4 DEF RetiredByCountIsFreed, is_idle
    <3>1. j \in Sessions /\ sess'[j] = sess[j]
      BY <2>1, <2>4, <2>6, <2>7
    <3>2. sess[j].up \in Upstreams
      BY <1>1, <3>1 DEF Session
    <3>3. CASE cur[sess[j].up] # j
      BY <3>1, <3>3 DEF UdpInv, RetiredByCountIsFreed, is_idle
    <3>4. CASE cur[sess[j].up] = j
      <4>1. sess[j].up = u
        BY <2>7, <3>1, <3>2, <3>4
      <4>2. is_retire(j)
        BY <1>3, <3>1, <3>4, <4>1 DEF NeedsNew, Sessions
      <4>3. CountMax[u] > 0 /\ sess[j].query_count >= CountMax[u]
        BY <3>1, <3>4, <4>1, <4>2 DEF is_retire, Worn
      <4> QED
        BY <3>1, <4>1, <4>3 DEF UdpInv, SpentIsBusy
    <3> QED
      BY <3>3, <3>4
  <2> QED
    BY <2>5, <2>8, <2>9, <2>10 DEF UdpInv
<1> QED
  BY <1>2, <1>3 DEF Send

(* Upstream.send, without. *)
LEMMA SendNoSocketKeeps ==
  ASSUME UdpInv, NEW u \in Upstreams, SendNoSocket(u)
  PROVE  UdpInv'
<1>1. /\ nsess' = nsess /\ Sessions' = Sessions /\ nsend' \in 0..MaxSend /\ now' = now
      /\ backoff' = backoff /\ session_list' = session_list
      /\ sess \in [Sessions -> Session] /\ cur \in [Upstreams -> 0..nsess]
      /\ nsess \in Nat /\ session_list \in Seq(Sessions)
      /\ cur' = [cur EXCEPT ![u] = 0]
      /\ NeedsNew(u)
  BY UdpAssumption DEF UdpInv, TypeOK, SendNoSocket, Sessions
<1>2. cur' \in [Upstreams -> 0..nsess] /\ \A v \in Upstreams : cur'[v] = IF v = u THEN 0 ELSE cur[v]
  BY <1>1
<1>3. CASE sess' = sess /\ (cur[u] # 0 => sess[cur[u]].query_list # {})
  <2>1. TypeOK'
    BY <1>1, <1>2, <1>3 DEF UdpInv, TypeOK
  <2>2. Listed' /\ Sorted' /\ Reading' /\ Unsent' /\ SpentIsBusy'
    BY <1>1, <1>3 DEF UdpInv, Listed, Sorted, Reading, Unsent, SpentIsBusy, Busy, is_idle
  <2>3. Current'
    BY <1>2, <1>3 DEF UdpInv, Current
  <2>4. RetiredByCountIsFreed'
    <3> SUFFICES ASSUME NEW j \in Sessions, Life[sess[j].up] = 0, cur'[sess[j].up] # j,
                        sess[j].query_list = {}
                 PROVE  sess[j].freed
      BY <1>1, <1>3 DEF RetiredByCountIsFreed, is_idle
    <3>1. sess[j].up \in Upstreams /\ j # 0
      BY <1>1 DEF Session, Sessions
    <3>2. cur[sess[j].up] # j
      BY <1>2, <1>3, <3>1
    <3> QED
      BY <3>2 DEF UdpInv, RetiredByCountIsFreed, is_idle
  <2> QED
    BY <2>1, <2>2, <2>3, <2>4 DEF UdpInv
<1>4. CASE cur[u] # 0 /\ sess[cur[u]].query_list = {} /\ sess' = [sess EXCEPT ![cur[u]] = Freed(@)]
  <2> DEFINE i == cur[u]
  <2>1. i \in Sessions /\ sess[i] \in Session
    BY <1>1, <1>4 DEF Sessions
  <2>2. /\ sess' \in [Sessions -> Session]
        /\ \A j \in Sessions : j # i => sess'[j] = sess[j]
        /\ sess'[i] = Freed(sess[i])
    BY <1>1, <1>4, <2>1, FreedType
  <2>3. /\ sess'[i].freed /\ sess'[i].query_list = {} /\ ~sess'[i].receiving
        /\ sess'[i].up = sess[i].up /\ sess'[i].query_time = sess[i].query_time
        /\ sess'[i].query_count = sess[i].query_count /\ sess'[i].proxy = sess[i].proxy
    BY <2>1, <2>2, FreedType
  <2>4. sess[i].up = u /\ sess[i].query_list = {} /\ ~sess[i].freed
    BY <1>4 DEF UdpInv, Current
  <2> HIDE DEF i
  <2>5. \A j \in Sessions : sess'[j].query_time = sess[j].query_time
    BY <2>2, <2>3
  <2>6. TypeOK'
    BY <1>1, <1>2, <2>2 DEF UdpInv, TypeOK
  <2>7. Listed'
    <3>1. ToSet(session_list) = {j \in Sessions : ~sess'[j].freed /\ sess'[j].query_list # {}}
      BY <2>1, <2>2, <2>3, <2>4 DEF UdpInv, Listed, Busy, is_idle
    <3> QED
      BY <1>1, <3>1 DEF UdpInv, Listed, Busy, is_idle
  <2>8. Sorted'
    <3>1. \A a \in DOMAIN session_list : session_list[a] \in Sessions
      BY <1>1
    <3> QED
      BY <1>1, <2>5, <3>1 DEF UdpInv, Sorted
  <2>9. Reading' /\ Unsent' /\ SpentIsBusy'
    BY <1>1, <2>2, <2>3 DEF UdpInv, Reading, Unsent, SpentIsBusy, Busy, is_idle
  <2>10. Current'
    <3> SUFFICES ASSUME NEW v \in Upstreams, v # u, cur[v] # 0
                 PROVE  sess'[cur[v]].up = v /\ ~sess'[cur[v]].freed
      BY <1>2 DEF Current
    <3>1. cur[v] \in Sessions /\ sess[cur[v]].up = v /\ ~sess[cur[v]].freed
      BY <1>1 DEF Sessions, UdpInv, Current
    <3> QED
      BY <2>2, <2>4, <3>1
  <2>11. RetiredByCountIsFreed'
    <3> SUFFICES ASSUME NEW j \in Sessions, j # i, Life[sess'[j].up] = 0, cur'[sess'[j].up] # j,
                        sess'[j].query_list = {}
                 PROVE  sess'[j].freed
      BY <1>1, <2>3 DEF RetiredByCountIsFreed, is_idle
    <3>1. sess'[j] = sess[j] /\ sess[j].up \in Upstreams /\ j # 0
      <4>1. sess[j] \in Session /\ j # 0
        BY <1>1 DEF Sessions
      <4> QED
        BY <2>2, <4>1 DEF Session
    <3>2. cur[sess[j].up] # j
      BY <1>2, <3>1 DEF i
    <3> QED
      BY <3>1, <3>2 DEF UdpInv, RetiredByCountIsFreed, is_idle
  <2> QED
    BY <2>6, <2>7, <2>8, <2>9, <2>10, <2>11 DEF UdpInv
<1> QED
  BY <1>3, <1>4 DEF SendNoSocket, is_idle

-----------------------------------------------------------------------------
(* Freeing *)

(* free of a set of sessions that read replies, with a list that loses them *)
(* and keeps the order of the others.                                       *)
LEMMA FreeAllKeeps ==
  ASSUME UdpInv, NEW S \in SUBSET Sessions, FreeAll(S),
         now' \in 0..MaxTime, now <= now',
         nsess' = nsess, nsend' = nsend, backoff' = backoff,
         session_list' \in Seq(Sessions), IsInjective(session_list'),
         ToSet(session_list') = ToSet(session_list) \ S,
         \A a, b \in DOMAIN session_list' : a <= b =>
           sess[session_list'[a]].query_time <= sess[session_list'[b]].query_time
  PROVE  UdpInv'
<1>1. /\ Sessions' = Sessions /\ now \in Nat /\ now' \in Nat /\ nsess \in Nat
      /\ sess \in [Sessions -> Session] /\ cur \in [Upstreams -> 0..nsess]
  BY UdpAssumption DEF UdpInv, TypeOK, Sessions
<1>2. /\ sess' \in [Sessions -> Session]
      /\ \A j \in Sessions : j \notin S => sess'[j] = sess[j]
      /\ \A j \in S : sess'[j] = Freed(sess[j])
  BY <1>1, FreedType DEF FreeAll
<1>3. \A j \in S : /\ sess'[j].freed /\ sess'[j].query_list = {} /\ ~sess'[j].receiving
                   /\ sess'[j].up = sess[j].up /\ sess'[j].query_time = sess[j].query_time
                   /\ sess'[j].query_count = sess[j].query_count
                   /\ sess'[j].proxy = sess[j].proxy
  BY <1>1, <1>2, FreedType
<1>4. \A j \in Sessions : /\ sess'[j].query_time = sess[j].query_time
                          /\ sess[j].query_time \in Nat /\ sess[j].up \in Upstreams
                          /\ sess'[j].up = sess[j].up
  <2>1. \A j \in Sessions : sess[j].query_time \in Nat /\ sess[j].up \in Upstreams
    BY <1>1 DEF Session
  <2> QED
    BY <1>2, <1>3, <2>1
<1>5. /\ cur' \in [Upstreams -> 0..nsess]
      /\ \A u \in Upstreams : cur'[u] = IF cur[u] \in S THEN 0 ELSE cur[u]
  BY <1>1 DEF FreeAll, Leave
<1>6. TypeOK'
  BY <1>1, <1>2, <1>5 DEF UdpInv, TypeOK
<1>7. Listed'
  <2>1. ToSet(session_list') = {j \in Sessions : ~sess'[j].freed /\ sess'[j].query_list # {}}
    BY <1>2, <1>3 DEF UdpInv, Listed, Busy, is_idle
  <2> QED
    BY <1>1, <2>1 DEF Listed, Busy, is_idle
<1>8. Sorted'
  <2>1. \A a \in DOMAIN session_list' : session_list'[a] \in Sessions
    OBVIOUS
  <2>2. \A j \in Sessions : sess'[j].query_time <= now'
    BY <1>1, <1>4 DEF UdpInv, Sorted
  <2>3. \A a, b \in DOMAIN session_list' : a <= b =>
          sess'[session_list'[a]].query_time <= sess'[session_list'[b]].query_time
    BY <1>4, <2>1
  <2> QED
    BY <1>1, <2>2, <2>3 DEF Sorted
<1>9. Reading' /\ Unsent' /\ SpentIsBusy'
  BY <1>1, <1>2, <1>3 DEF UdpInv, Reading, Unsent, SpentIsBusy, Busy, is_idle
<1>10. Current'
  <2> SUFFICES ASSUME NEW v \in Upstreams, cur'[v] # 0
               PROVE  sess'[cur'[v]].up = v /\ ~sess'[cur'[v]].freed
    BY DEF Current
  <2>1. cur[v] \in Sessions /\ cur[v] \notin S /\ cur'[v] = cur[v]
    BY <1>1, <1>5 DEF Sessions
  <2> QED
    BY <1>2, <2>1 DEF UdpInv, Current
<1>11. RetiredByCountIsFreed'
  <2> SUFFICES ASSUME NEW j \in Sessions, j \notin S, Life[sess'[j].up] = 0,
                      cur'[sess'[j].up] # j, sess'[j].query_list = {}
               PROVE  sess'[j].freed
    BY <1>1, <1>3 DEF RetiredByCountIsFreed, is_idle
  <2>1. sess'[j] = sess[j] /\ cur[sess[j].up] # j
    BY <1>2, <1>4, <1>5
  <2> QED
    BY <2>1 DEF UdpInv, RetiredByCountIsFreed, is_idle
<1> QED
  BY <1>6, <1>7, <1>8, <1>9, <1>10, <1>11 DEF UdpInv

(* free of one session, which unlinks its node. *)
LEMMA FreeOneKeeps ==
  ASSUME UdpInv, NEW i \in Sessions, FreeAll({i}),
         session_list' = Unlist(session_list, i),
         UNCHANGED <<now, nsess, nsend, backoff>>
  PROVE  UdpInv'
<1>1. /\ session_list \in Seq(Sessions) /\ IsInjective(session_list)
      /\ now \in 0..MaxTime /\ \A j \in Sessions : sess[j] \in Session
  BY DEF UdpInv, TypeOK, Listed
<1>2. /\ session_list' \in Seq(Sessions) /\ IsInjective(session_list')
      /\ ToSet(session_list') = ToSet(session_list) \ {i}
  BY <1>1, UnlistElements
<1> DEFINE R == {p \in Sessions \X Sessions : sess[p[1]].query_time <= sess[p[2]].query_time}
<1>3. \A a, b \in DOMAIN session_list : a <= b => <<session_list[a], session_list[b]>> \in R
  BY <1>1 DEF UdpInv, Sorted
<1> HIDE DEF R
<1>4. \A a, b \in DOMAIN session_list' : a <= b => <<session_list'[a], session_list'[b]>> \in R
  BY <1>1, <1>3, UnlistOrder
<1>5. \A a, b \in DOMAIN session_list' : a <= b =>
        sess[session_list'[a]].query_time <= sess[session_list'[b]].query_time
  BY <1>4 DEF R
<1>6. now <= now' /\ now' \in 0..MaxTime
  BY <1>1
<1> QED
  BY <1>2, <1>5, <1>6, FreeAllKeeps

(* A datagram arrives. *)
LEMMA OnReplyKeeps ==
  ASSUME UdpInv, NEW i \in Sessions, NEW q \in Qids, OnReply(i, q)
  PROVE  UdpInv'
<1> DEFINE rest == sess[i].query_list \ {q}
<1>1. CASE FreeAll({i}) /\ session_list' = Unlist(session_list, i)
  BY <1>1, FreeOneKeeps DEF OnReply
<1>2. CASE /\ ~ReplyEnds(i, rest)
           /\ sess' = [sess EXCEPT ![i].query_list = rest]
           /\ session_list' = IF rest = {} /\ ~is_idle(sess[i])
                              THEN Unlist(session_list, i) ELSE session_list
           /\ UNCHANGED cur
  <2>1. /\ UNCHANGED <<now, nsess, nsend, cur, backoff>> /\ Sessions' = Sessions
        /\ sess \in [Sessions -> Session] /\ sess[i] \in Session
        /\ session_list \in Seq(Sessions) /\ IsInjective(session_list)
        /\ sess[i].receiving /\ ~sess[i].freed
    BY <1>2 DEF OnReply, UdpInv, TypeOK, Sessions, Listed, Reading
  <2>2. /\ sess' \in [Sessions -> Session]
        /\ \A j \in Sessions : j # i => sess'[j] = sess[j]
        /\ sess'[i] = [sess[i] EXCEPT !.query_list = rest]
    BY <1>2, <2>1 DEF Session
  <2>3. /\ sess'[i].query_list = rest
        /\ sess'[i].up = sess[i].up /\ sess'[i].freed = sess[i].freed
        /\ sess'[i].query_time = sess[i].query_time /\ sess'[i].proxy = sess[i].proxy
        /\ sess'[i].query_count = sess[i].query_count /\ sess'[i].receiving = sess[i].receiving
    BY <2>1, <2>2 DEF Session
  <2>4. sess[i].query_list = {} => rest = {}
    OBVIOUS
  <2>5. ~(rest = {} /\ (cur[sess[i].up] # i \/ Worn(sess[i])))
    BY <1>2 DEF ReplyEnds, is_retire
  <2> HIDE DEF rest
  <2>6. TypeOK' /\ Listed'
    <3>1. CASE rest = {} /\ ~is_idle(sess[i])
      <4>1. session_list' = Unlist(session_list, i)
        BY <1>2, <3>1
      <4>2. /\ session_list' \in Seq(Sessions) /\ IsInjective(session_list')
            /\ ToSet(session_list') = ToSet(session_list) \ {i}
        BY <2>1, <4>1, UnlistElements
      <4>3. ToSet(session_list') = {j \in Sessions : ~sess'[j].freed /\ sess'[j].query_list # {}}
        BY <2>2, <2>3, <3>1, <4>2 DEF UdpInv, Listed, Busy, is_idle
      <4> QED
        BY <2>1, <2>2, <4>2, <4>3 DEF UdpInv, TypeOK, Listed, Busy, is_idle
    <3>2. CASE ~(rest = {} /\ ~is_idle(sess[i]))
      <4>1. session_list' = session_list
        BY <1>2, <3>2
      <4>2. ToSet(session_list) = {j \in Sessions : ~sess'[j].freed /\ sess'[j].query_list # {}}
        BY <2>1, <2>2, <2>3, <2>4, <3>2 DEF UdpInv, Listed, Busy, is_idle
      <4> QED
        BY <2>1, <2>2, <4>1, <4>2 DEF UdpInv, TypeOK, Listed, Busy, is_idle
    <3> QED
      BY <3>1, <3>2
  <2>7. Sorted'
    <3> DEFINE R == {p \in Sessions \X Sessions : sess[p[1]].query_time <= sess[p[2]].query_time}
    <3>1. \A a, b \in DOMAIN session_list : a <= b => <<session_list[a], session_list[b]>> \in R
      BY <2>1 DEF UdpInv, Sorted
    <3> HIDE DEF R
    <3>2. \A a, b \in DOMAIN session_list' : a <= b => <<session_list'[a], session_list'[b]>> \in R
      BY <1>2, <2>1, <3>1, UnlistOrder
    <3>3. \A j \in Sessions : sess'[j].query_time = sess[j].query_time
      BY <2>2, <2>3
    <3>4. \A a, b \in DOMAIN session_list' : a <= b =>
            sess'[session_list'[a]].query_time <= sess'[session_list'[b]].query_time
      BY <3>2, <3>3 DEF R
    <3> QED
      BY <2>1, <3>3, <3>4 DEF UdpInv, Sorted
  <2>8. Reading' /\ Unsent'
    BY <2>1, <2>2, <2>3 DEF UdpInv, Reading, Unsent, Busy, is_idle
  <2>9. SpentIsBusy'
    BY <2>1, <2>2, <2>3, <2>5 DEF UdpInv, SpentIsBusy, Worn
  <2>10. Current'
    <3>1. \A u \in Upstreams : cur[u] # 0 => cur[u] \in Sessions
      BY DEF UdpInv, TypeOK, Sessions
    <3> QED
      BY <2>1, <2>2, <2>3, <3>1 DEF UdpInv, Current
  <2>11. RetiredByCountIsFreed'
    BY <2>1, <2>2, <2>3, <2>5 DEF UdpInv, RetiredByCountIsFreed, is_idle
  <2> QED
    BY <2>6, <2>7, <2>8, <2>9, <2>10, <2>11 DEF UdpInv
<1> QED
  BY <1>1, <1>2 DEF OnReply

(* proxy_init ends, one way or the other. *)
LEMMA ProxyKeeps ==
  ASSUME UdpInv, NEW i \in Sessions, ProxyUp(i) \/ ProxyFails(i)
  PROVE  UdpInv'
<1>1. /\ UNCHANGED <<now, nsess, nsend, cur, session_list>> /\ Sessions' = Sessions
      /\ sess \in [Sessions -> Session] /\ sess[i] \in Session
      /\ session_list \in Seq(Sessions)
      /\ backoff' \in [until : Nat, step : 0..10]
  BY BackoffType DEF ProxyUp, ProxyFails, UdpInv, TypeOK, Sessions
<1>2. PICK p \in {"ready", "down"} : sess' = [sess EXCEPT ![i].proxy = p]
  BY DEF ProxyUp, ProxyFails
<1>3. /\ sess' \in [Sessions -> Session]
      /\ \A j \in Sessions : j # i => sess'[j] = sess[j]
      /\ sess'[i].proxy = p
      /\ sess'[i].query_list = sess[i].query_list
      /\ sess'[i].up = sess[i].up /\ sess'[i].freed = sess[i].freed
      /\ sess'[i].query_time = sess[i].query_time
      /\ sess'[i].query_count = sess[i].query_count /\ sess'[i].receiving = sess[i].receiving
  BY <1>1, <1>2 DEF Session
<1>4. sess[i].proxy = "starting" /\ ~sess[i].receiving
  BY DEF ProxyUp, ProxyFails, UdpInv, Reading
<1>5. TypeOK'
  BY <1>1, <1>3 DEF UdpInv, TypeOK
<1>6. Listed'
  <2>1. ToSet(session_list) = {j \in Sessions : ~sess'[j].freed /\ sess'[j].query_list # {}}
    BY <1>3 DEF UdpInv, Listed, Busy, is_idle
  <2> QED
    BY <1>1, <2>1 DEF UdpInv, Listed, Busy, is_idle
<1>7. Sorted'
  <2>1. \A j \in Sessions : sess'[j].query_time = sess[j].query_time
    BY <1>3
  <2>2. \A a \in DOMAIN session_list : session_list[a] \in Sessions
    BY <1>1
  <2> QED
    BY <1>1, <2>1, <2>2 DEF UdpInv, Sorted
<1>8. Reading' /\ Unsent' /\ SpentIsBusy'
  BY <1>1, <1>3, <1>4 DEF UdpInv, Reading, Unsent, SpentIsBusy, Busy, is_idle
<1>9. Current'
  <2>1. \A u \in Upstreams : cur[u] # 0 => cur[u] \in Sessions
    BY DEF UdpInv, TypeOK, Sessions
  <2> QED
    BY <1>1, <1>3, <2>1 DEF UdpInv, Current
<1>10. RetiredByCountIsFreed'
  BY <1>1, <1>3 DEF UdpInv, RetiredByCountIsFreed, is_idle
<1> QED
  BY <1>5, <1>6, <1>7, <1>8, <1>9, <1>10 DEF UdpInv

-----------------------------------------------------------------------------
(* check_timeout *)

(* The walk has a place where it stops: all before it is overdue, and it is *)
(* not, unless the list ends there.                                         *)
LEMMA StopsAtExists ==
  ASSUME UdpInv, NEW t \in Nat
  PROVE  /\ StopsAt(t) \in 1..(Len(session_list) + 1)
         /\ \A j \in 1..(StopsAt(t) - 1) : OverdueAt(t, j)
         /\ StopsAt(t) <= Len(session_list) => ~OverdueAt(t, StopsAt(t))
<1>1. Len(session_list) \in Nat
  BY DEF UdpInv, TypeOK
<1> DEFINE P(k) == /\ \A j \in 1..(k - 1) : OverdueAt(t, j)
                   /\ k <= Len(session_list) => ~OverdueAt(t, k)
           T == {k \in 1..(Len(session_list) + 1) :
                   k <= Len(session_list) => ~OverdueAt(t, k)}
<1>2. T \in SUBSET Nat /\ Len(session_list) + 1 \in T
  BY <1>1
<1>3. PICK x \in T : \A y \in T : x <= y
  BY <1>2, Least
<1>4. x \in 1..(Len(session_list) + 1) /\ P(x)
  <2>1. ASSUME NEW j \in 1..(x - 1) PROVE OverdueAt(t, j)
    <3>1. j \in 1..(Len(session_list) + 1) /\ ~(x <= j) /\ x \in Nat
      BY <1>1, <1>2
    <3>2. j \notin T
      BY <1>3, <3>1
    <3> QED
      BY <3>1, <3>2
  <2> QED
    BY <2>1
<1>5. StopsAt(t) = CHOOSE k \in 1..(Len(session_list) + 1) : P(k)
  BY DEF StopsAt
<1> HIDE DEF P
<1>6. StopsAt(t) \in 1..(Len(session_list) + 1) /\ P(StopsAt(t))
  BY <1>4, <1>5
<1> QED
  BY <1>6 DEF P

(* The sessions behind the place where the walk stops are not overdue, the  *)
(* list being in order.                                                     *)
LEMMA RestIsOnTime ==
  ASSUME UdpInv, NEW t \in Nat, NEW k \in StopsAt(t)..Len(session_list)
  PROVE  t < deadline(sess[session_list[k]])
<1> DEFINE s == StopsAt(t)
<1>1. Len(session_list) \in Nat /\ session_list \in Seq(Sessions)
  BY DEF UdpInv, TypeOK
<1>2. s \in 1..(Len(session_list) + 1) /\ (s <= Len(session_list) => ~OverdueAt(t, s))
  BY StopsAtExists
<1> HIDE DEF s
<1>3. s \in DOMAIN session_list /\ k \in DOMAIN session_list /\ s <= k /\ ~OverdueAt(t, s)
  BY <1>1, <1>2 DEF s
<1>4. sess[session_list[s]].query_time <= sess[session_list[k]].query_time
  BY <1>3 DEF UdpInv, Sorted
<1>5. session_list[s] \in Sessions /\ session_list[k] \in Sessions
  BY <1>1, <1>3
<1>6. sess[session_list[s]].query_time \in Nat /\ sess[session_list[k]].query_time \in Nat
  BY <1>5 DEF UdpInv, TypeOK, Session
<1> QED
  BY <1>3, <1>4, <1>6, UdpAssumption DEF OverdueAt, deadline

(* The loop looks at the clock and walks the list. *)
LEMMA LoopTopKeeps ==
  ASSUME UdpInv, NEW d \in {0, 1}, LoopTop(d)
  PROVE  UdpInv'
<1> DEFINE t == now + d
           k == StopsAt(t)
           S == {session_list[j] : j \in 1..(k - 1)}
<1>1. /\ now \in Nat /\ t \in Nat /\ now <= t /\ t \in 0..MaxTime /\ now' = t
      /\ session_list \in Seq(Sessions) /\ IsInjective(session_list)
      /\ \A j \in Sessions : sess[j] \in Session
  BY UdpAssumption DEF UdpInv, TypeOK, LoopTop, Listed
<1>2. k \in 1..(Len(session_list) + 1)
  BY <1>1, StopsAtExists
<1>3. /\ session_list' = SubSeq(session_list, k, Len(session_list))
      /\ FreeAll(S) /\ UNCHANGED <<nsess, nsend, backoff>>
  BY DEF LoopTop, Overdue
<1> HIDE DEF t, k
<1>4. /\ session_list' \in Seq(Sessions) /\ IsInjective(session_list')
      /\ DOMAIN session_list' = 1..(Len(session_list) + 1 - k)
      /\ \A j \in 1..(Len(session_list) + 1 - k) : session_list'[j] = session_list[k + j - 1]
      /\ ToSet(session_list') = ToSet(session_list) \ S
  BY <1>1, <1>2, <1>3, SuffixElements
<1>5. S \in SUBSET Sessions
  BY <1>1, <1>2
<1> HIDE DEF S
<1>6. ASSUME NEW a \in DOMAIN session_list', NEW b \in DOMAIN session_list', a <= b
      PROVE  sess[session_list'[a]].query_time <= sess[session_list'[b]].query_time
  <2>1. /\ k + a - 1 \in DOMAIN session_list /\ k + b - 1 \in DOMAIN session_list
        /\ k + a - 1 <= k + b - 1
    BY <1>1, <1>2, <1>4, <1>6
  <2> QED
    BY <1>4, <2>1 DEF UdpInv, Sorted
<1> QED
  BY <1>1, <1>3, <1>4, <1>5, <1>6, FreeAllKeeps

-----------------------------------------------------------------------------
(* The invariant *)

(* It holds at the start, when there are no sessions. *)
LEMMA UdpInvInit == Init => UdpInv
<1> SUFFICES ASSUME Init PROVE UdpInv
  OBVIOUS
<1>1. Sessions = {} /\ nsess = 0
  BY DEF Init, Sessions
<1>2. TypeOK
  <2>1. sess \in [Sessions -> Session]
    BY <1>1 DEF Init
  <2>2. session_list \in Seq(Sessions)
    BY DEF Init
  <2>3. cur \in [Upstreams -> 0..nsess]
    BY <1>1 DEF Init
  <2> QED
    BY <2>1, <2>2, <2>3, UdpAssumption DEF Init, TypeOK
<1>3. Listed
  BY <1>1 DEF Init, Listed, IsInjective, ToSet
<1>4. Sorted
  BY <1>1 DEF Init, Sorted
<1>5. Current
  BY DEF Init, Current
<1> QED
  BY <1>1, <1>2, <1>3, <1>4, <1>5
  DEF UdpInv, Reading, Unsent, SpentIsBusy, RetiredByCountIsFreed

(* Every step of the program keeps it. *)
LEMMA UdpInvStep == UdpInv /\ [Next]_vars => UdpInv'
<1> SUFFICES ASSUME UdpInv, [Next]_vars PROVE UdpInv'
  OBVIOUS
<1>1. ASSUME NEW u \in Upstreams, NEW q \in Qids, Send(u, q) PROVE UdpInv'
  BY <1>1, SendKeeps
<1>2. ASSUME NEW u \in Upstreams, SendNoSocket(u) PROVE UdpInv'
  BY <1>2, SendNoSocketKeeps
<1>3. ASSUME NEW i \in Sessions, NEW q \in Qids, OnReply(i, q) PROVE UdpInv'
  BY <1>3, OnReplyKeeps
<1>4. ASSUME NEW i \in Sessions, OnRecvError(i) PROVE UdpInv'
  BY <1>4, FreeOneKeeps DEF OnRecvError
<1>5. ASSUME NEW i \in Sessions, ProxyUp(i) \/ ProxyFails(i) PROVE UdpInv'
  BY <1>5, ProxyKeeps
<1>6. ASSUME NEW d \in {0, 1}, LoopTop(d) PROVE UdpInv'
  BY <1>6, LoopTopKeeps
<1>7. CASE ClockInBatch
  <2>1. /\ now' = now + 1 /\ now \in Nat /\ now' \in 0..MaxTime
        /\ UNCHANGED <<nsess, nsend, sess, cur, session_list, backoff>>
        /\ Sessions' = Sessions
    BY <1>7, UdpAssumption DEF ClockInBatch, UdpInv, TypeOK, Sessions
  <2>2. TypeOK'
    BY <2>1 DEF UdpInv, TypeOK
  <2>3. Sorted'
    <3>1. \A j \in Sessions : sess[j].query_time \in Nat
      BY DEF UdpInv, TypeOK, Session
    <3> QED
      BY <2>1, <3>1 DEF UdpInv, Sorted
  <2> QED
    BY <2>1, <2>2, <2>3
    DEF UdpInv, Listed, Reading, Current, Unsent, SpentIsBusy, RetiredByCountIsFreed,
        Busy, is_idle
<1>8. CASE UNCHANGED vars
  BY <1>8 DEF vars, UdpInv, TypeOK, Listed, Sorted, Reading, Current, Unsent, SpentIsBusy,
              RetiredByCountIsFreed, Busy, is_idle, Sessions
<1> QED
  BY <1>1, <1>2, <1>3, <1>4, <1>5, <1>6, <1>7, <1>8 DEF Next

(* Together. *)
LEMMA UdpInvariant == Spec => []UdpInv
BY UdpInvInit, UdpInvStep, PTL DEF Spec

-----------------------------------------------------------------------------
(* Theorems *)

(* Sessions, the list and the backoff keep their types: no id outside the   *)
(* sessions made so far is ever in the list or an upstream's current one.   *)
THEOREM UdpTypeCorrect == Spec => []TypeOK
<1>1. UdpInv => TypeOK
  BY DEF UdpInv
<1> QED
  BY <1>1, UdpInvariant, PTL

(* on_work, on_idle, free and check_timeout agree about who is linked: the  *)
(* timeout list holds exactly the sessions with outstanding queries, once   *)
(* each, and each of them has its reply_receiver.                           *)
THEOREM UdpBusySessionsAreWatched == Spec => []BusySessionsAreWatched
<1>1. UdpInv => BusySessionsAreWatched
  BY InjectiveLen DEF UdpInv, TypeOK, Listed, Reading, BusySessionsAreWatched
<1> QED
  BY <1>1, UdpInvariant, PTL

(* A session of an upstream without ?life that its upstream has left, and   *)
(* that waits for nothing, is freed.                                        *)
THEOREM UdpRetiredByCountIsFreed == Spec => []RetiredByCountIsFreed
<1>1. UdpInv => RetiredByCountIsFreed
  BY DEF UdpInv
<1> QED
  BY <1>1, UdpInvariant, PTL

(* check_timeout, which stops at the first session that is on time, leaves  *)
(* no overdue one in the list.                                              *)
THEOREM UdpNoOverdueSession == Spec => NoOverdueSessionAfterCheck
<1>1. ASSUME UdpInv, NEW d \in {0, 1}, LoopTop(d), NEW k \in DOMAIN session_list'
      PROVE  now' < deadline(sess[session_list'[k]])
  <2> DEFINE t == now + d
             p == StopsAt(t)
  <2>1. t \in Nat /\ now' = t /\ session_list \in Seq(Sessions) /\ IsInjective(session_list)
    BY <1>1, UdpAssumption DEF UdpInv, TypeOK, LoopTop, Listed
  <2>2. p \in 1..(Len(session_list) + 1)
    BY <1>1, <2>1, StopsAtExists
  <2>3. session_list' = SubSeq(session_list, p, Len(session_list))
    BY <1>1 DEF LoopTop
  <2> HIDE DEF t, p
  <2>4. /\ DOMAIN session_list' = 1..(Len(session_list) + 1 - p)
        /\ \A j \in 1..(Len(session_list) + 1 - p) : session_list'[j] = session_list[p + j - 1]
    BY <2>1, <2>2, <2>3, SuffixElements
  <2>5. p + k - 1 \in p..Len(session_list)
    BY <1>1, <2>1, <2>2, <2>4
  <2>6. t < deadline(sess[session_list[p + k - 1]])
    BY <1>1, <2>1, <2>5, RestIsOnTime DEF p
  <2> QED
    BY <1>1, <2>1, <2>4, <2>6
<1>2. UdpInv /\ [Next]_vars =>
        [\A d \in {0, 1} : LoopTop(d) =>
           \A k \in DOMAIN session_list' : now' < deadline(sess[session_list'[k]])]_vars
  BY <1>1
<1> QED
  BY <1>2, UdpInvariant, PTL DEF Spec, NoOverdueSessionAfterCheck

-----------------------------------------------------------------------------
(* Use after free *)

(* No step frees a session under its proxy_init, if no proxied session can  *)
(* outlive its ?life or socket() does not fail.                             *)
LEMMA FreedStep ==
  ASSUME \A u \in Upstreams : Proxied[u] => Life[u] = 0 \/ ~NewMayFail,
         UdpInv, NoUseAfterFree, [Next]_vars
  PROVE  NoUseAfterFree'
<1>1. UdpInv'
  BY UdpInvStep
<1>2. \A i \in Sessions' : sess'[i].freed => ~sess'[i].receiving
  BY <1>1 DEF UdpInv, Reading
<1>3. /\ nsess \in Nat /\ sess \in [Sessions -> Session] /\ cur \in [Upstreams -> 0..nsess]
  BY UdpAssumption DEF UdpInv, TypeOK
<1>4. ASSUME NEW S \in SUBSET Sessions, \A j \in S : sess[j].receiving,
             FreeAll(S), nsess' = nsess
      PROVE  \A j \in Sessions' : sess'[j].freed => sess'[j].proxy # "starting"
  <2>1. Sessions' = Sessions /\ \A j \in S : sess[j].proxy # "starting"
    BY <1>4 DEF Sessions, UdpInv, Reading
  <2>2. /\ \A j \in Sessions : j \notin S => sess'[j] = sess[j]
        /\ \A j \in S : sess'[j].proxy = sess[j].proxy
    BY <1>3, <1>4, FreedType DEF FreeAll
  <2> QED
    BY <2>1, <2>2 DEF NoUseAfterFree
<1>5. ASSUME NEW u \in Upstreams, NEW q \in Qids, Send(u, q)
      PROVE  \A j \in Sessions' : sess'[j].freed => sess'[j].proxy # "starting"
  <2>1. CASE ~NeedsNew(u) /\ SendOn(cur[u], sess[cur[u]], sess, q) /\ UNCHANGED <<nsess, cur>>
    <3>1. cur[u] \in 1..nsess /\ ~sess[cur[u]].freed
      BY <1>3, <2>1 DEF NeedsNew, UdpInv, Current
    <3>2. /\ \A j \in 1..nsess : j # cur[u] => sess'[j] = sess[j]
          /\ sess'[cur[u]].freed = sess[cur[u]].freed
      BY <1>3, <2>1, <3>1, SendOnEffect DEF Sessions, UdpInv
    <3> QED
      BY <2>1, <3>1, <3>2 DEF NoUseAfterFree, Sessions
  <2>2. CASE /\ NeedsNew(u) /\ nsess < MaxSess /\ nsess' = nsess + 1
             /\ SendOn(nsess + 1, new(u), Append(sess, new(u)), q)
    <3> DEFINE n == nsess + 1
               table == Append(sess, new(u))
    <3>1. /\ table \in [1..n -> Session] /\ table[n] = new(u)
          /\ \A j \in Sessions : table[j] = sess[j]
      BY NewTable DEF UdpInv
    <3>2. ~table[n].freed /\ SendOn(n, table[n], table, q)
      BY <2>2, <3>1, NewType DEF UdpInv
    <3>3. n \in Nat /\ n \in 1..n /\ Sessions' = 1..n /\ \A j \in 1..n : j # n => j \in Sessions
      BY <1>3, <2>2 DEF Sessions
    <3> HIDE DEF n, table
    <3>4. (\A j \in 1..n : j # n => sess'[j] = table[j]) /\ ~sess'[n].freed
      BY <3>1, <3>2, <3>3, SendOnEffect DEF UdpInv
    <3> QED
      BY <3>1, <3>3, <3>4 DEF NoUseAfterFree
  <2> QED
    BY <1>5, <2>1, <2>2 DEF Send
<1>6. ASSUME NEW u \in Upstreams, SendNoSocket(u)
      PROVE  \A j \in Sessions' : sess'[j].freed => sess'[j].proxy # "starting"
  <2>1. Sessions' = Sessions /\ NewMayFail /\ NeedsNew(u)
    BY <1>6 DEF SendNoSocket, Sessions
  <2>2. CASE sess' = sess
    BY <2>1, <2>2 DEF NoUseAfterFree
  <2>3. CASE cur[u] # 0 /\ sess' = [sess EXCEPT ![cur[u]] = Freed(@)]
    <3> DEFINE i == cur[u]
    <3>1. i \in Sessions /\ sess[i] \in Session /\ sess[i].up = u
      BY <1>3, <2>3 DEF Sessions, UdpInv, Current
    <3>2. /\ \A j \in Sessions : j # i => sess'[j] = sess[j]
          /\ sess'[i].proxy = sess[i].proxy
      BY <1>3, <2>3, <3>1, FreedType
    <3>3. Worn(sess[i])
      BY <2>1, <2>3, <3>1 DEF NeedsNew, is_retire
    <3>4. ASSUME sess[i].proxy = "starting" PROVE FALSE
      <4>1. Proxied[u] /\ sess[i].query_count = 0
        BY <3>1, <3>4 DEF UdpInv, Unsent
      <4>2. Life[u] = 0
        BY <2>1, <4>1
      <4>3. CountMax[u] \in Nat
        BY UdpAssumption
      <4> QED
        BY <3>1, <3>3, <4>1, <4>2, <4>3 DEF Worn
    <3> QED
      BY <2>1, <3>2, <3>4 DEF NoUseAfterFree
  <2> QED
    BY <1>6, <2>2, <2>3 DEF SendNoSocket
<1>7. ASSUME NEW i \in Sessions, NEW q \in Qids, OnReply(i, q)
      PROVE  \A j \in Sessions' : sess'[j].freed => sess'[j].proxy # "starting"
  <2>1. sess[i].receiving /\ nsess' = nsess
    BY <1>7 DEF OnReply
  <2>2. CASE FreeAll({i})
    BY <1>4, <2>1, <2>2
  <2>3. CASE sess' = [sess EXCEPT ![i].query_list = sess[i].query_list \ {q}]
    <3>1. /\ Sessions' = Sessions /\ \A j \in Sessions : j # i => sess'[j] = sess[j]
          /\ sess'[i].proxy = sess[i].proxy /\ sess'[i].freed = sess[i].freed
      BY <1>3, <2>1, <2>3 DEF Sessions, Session
    <3> QED
      BY <3>1 DEF NoUseAfterFree
  <2> QED
    BY <1>7, <2>2, <2>3 DEF OnReply
<1>8. ASSUME NEW i \in Sessions, OnRecvError(i)
      PROVE  \A j \in Sessions' : sess'[j].freed => sess'[j].proxy # "starting"
  BY <1>4, <1>8 DEF OnRecvError
<1>9. ASSUME NEW i \in Sessions, ProxyUp(i) \/ ProxyFails(i)
      PROVE  \A j \in Sessions' : sess'[j].freed => sess'[j].proxy # "starting"
  <2>1. Sessions' = Sessions /\ \A j \in Sessions : j # i => sess'[j] = sess[j]
    BY <1>3, <1>9 DEF ProxyUp, ProxyFails, Sessions
  <2>2. sess'[i].proxy # "starting"
    BY <1>3, <1>9 DEF ProxyUp, ProxyFails, Session
  <2> QED
    BY <2>1, <2>2 DEF NoUseAfterFree
<1>10. ASSUME NEW d \in {0, 1}, LoopTop(d)
       PROVE  \A j \in Sessions' : sess'[j].freed => sess'[j].proxy # "starting"
  <2>1. now + d \in Nat /\ session_list \in Seq(Sessions)
    BY UdpAssumption DEF UdpInv, TypeOK
  <2>2. StopsAt(now + d) \in 1..(Len(session_list) + 1)
    BY <2>1, StopsAtExists
  <2>3. Overdue(now + d) \subseteq ToSet(session_list)
    BY <2>1, <2>2 DEF Overdue, ToSet
  <2>4. \A j \in Overdue(now + d) : j \in Sessions /\ sess[j].receiving
    BY <2>3 DEF UdpInv, Listed, Reading
  <2> QED
    BY <1>4, <1>10, <2>4 DEF LoopTop
<1>11. CASE UNCHANGED vars \/ ClockInBatch
  BY <1>11 DEF vars, ClockInBatch, NoUseAfterFree, Sessions
<1>12. \A j \in Sessions' : sess'[j].freed => sess'[j].proxy # "starting"
  <2>1. CASE UNCHANGED vars \/ ClockInBatch
    BY <1>11, <2>1 DEF NoUseAfterFree
  <2> QED
    BY <1>5, <1>6, <1>7, <1>8, <1>9, <1>10, <2>1 DEF Next
<1> QED
  BY <1>2, <1>12 DEF NoUseAfterFree

(* No coroutine is left suspended in a freed session, unless a proxied      *)
(* upstream has a ?life and socket() may fail: the one case in which send   *)
(* frees a session whose proxy_init is under way.                           *)
THEOREM UdpNoUseAfterFree ==
  ASSUME \A u \in Upstreams : Proxied[u] => Life[u] = 0 \/ ~NewMayFail
  PROVE  Spec => []NoUseAfterFree
<1>1. Init => NoUseAfterFree
  BY DEF Init, NoUseAfterFree, Sessions
<1>2. UdpInv /\ NoUseAfterFree /\ [Next]_vars => NoUseAfterFree'
  BY FreedStep
<1> QED
  BY <1>1, <1>2, UdpInvariant, PTL DEF Spec

=============================================================================
