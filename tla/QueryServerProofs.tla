-------------------------- MODULE QueryServerProofs --------------------------
(***************************************************************************)
(* Theorems about QueryServer, for every value of its constants: first how *)
(* queries are kept and answered at all, then what clients are told, then  *)
(* where answers go and what the race of the two groups decides, and that  *)
(* the cache is used by its contract.  List.get matches a reply with a     *)
(* query by the id alone, so the theorems about answers and about the race *)
(* assume that ids do not wrap around within a behaviour: MaxReq < NQid.   *)
(***************************************************************************)
EXTENDS QueryServer, FiniteSetTheorems, TLAPS

-----------------------------------------------------------------------------
(* Messages *)

(* The operators of dns.c that rewrite a message keep it a message about    *)
(* the same question, from the same group.                                  *)
LEMMA RewriteType ==
  ASSUME NEW m \in Msg
  PROVE  /\ empty_reply(m) \in Msg /\ servfail_reply(m) \in Msg
         /\ truncate(m) \in Msg
         /\ question(empty_reply(m)) = question(m)
         /\ question(servfail_reply(m)) = question(m)
         /\ question(truncate(m)) = question(m)
<1>1. empty_reply(m) \in Msg /\ question(empty_reply(m)) = question(m)
  BY DEF Msg, empty_reply, question, MinLen, Rcodes, IpKinds
<1>2. /\ servfail_reply(m) \in Msg
      /\ question(servfail_reply(m)) = question(empty_reply(m))
  BY <1>1 DEF Msg, servfail_reply, question, Rcodes
<1>3. [m EXCEPT !.tc = TRUE] \in Msg
  BY DEF Msg
<1>4. truncate(m) \in Msg /\ question(truncate(m)) = question(m)
  BY <1>3 DEF Msg, truncate, empty_reply, question, MinLen, Rcodes, IpKinds
<1> QED
  BY <1>1, <1>2, <1>4

(* The messages this program makes for a query are about its question. *)
LEMMA OwnMsgType ==
  ASSUME NEW a \in Ask
  PROVE  /\ QueryMsg(a) \in Msg /\ LocalMsg(a) \in Msg /\ BadMsg(a) \in Msg
         /\ question(QueryMsg(a)) = <<a.name, a.qtype>>
         /\ question(LocalMsg(a)) = <<a.name, a.qtype>>
         /\ question(BadMsg(a)) = <<a.name, a.qtype>>
<1>1. QueryMsg(a) \in Msg /\ question(QueryMsg(a)) = <<a.name, a.qtype>>
  BY DEF Ask, Msg, QueryMsg, question, MinLen, Rcodes, IpKinds
<1>2. LocalMsg(a) \in Msg /\ question(LocalMsg(a)) = <<a.name, a.qtype>>
  BY <1>1 DEF Msg, LocalMsg, question, MinLen
<1>3. BadMsg(a) \in Msg /\ question(BadMsg(a)) = <<a.name, a.qtype>>
  BY <1>1 DEF Msg, BadMsg, question
<1> QED
  BY <1>1, <1>2, <1>3

(* What send_reply puts on the wire answers the same question. *)
LEMMA SentType ==
  ASSUME NEW m \in Msg, NEW from, NEW bufsz
  PROVE  Sent(m, from, bufsz) \in Msg /\ question(Sent(m, from, bufsz)) = question(m)
BY RewriteType DEF Sent

(* send_reply appends one message to the outbox of one request. *)
LEMMA SendReplyType ==
  ASSUME NEW out \in [Requests -> Seq(Msg)], NEW r \in Requests, NEW m \in Msg,
         NEW from, NEW bufsz
  PROVE  /\ send_reply(out, r, m, from, bufsz) \in [Requests -> Seq(Msg)]
         /\ send_reply(out, r, m, from, bufsz)[r]
              = Append(out[r], Sent(m, from, bufsz))
         /\ \A s \in Requests \ {r} :
              send_reply(out, r, m, from, bufsz)[s] = out[s]
<1>1. Sent(m, from, bufsz) \in Msg
  BY SentType
<1>2. Append(out[r], Sent(m, from, bufsz)) \in Seq(Msg)
  BY <1>1
<1> QED
  BY <1>2 DEF send_reply

-----------------------------------------------------------------------------
(* The maps *)

IsCache(c) ==
  /\ DOMAIN c \subseteq Questions
  /\ \A k \in DOMAIN c : c[k] \in [msg : Msg, added_ip : BOOLEAN]

IsVerdictMap(v) ==
  /\ DOMAIN v \subseteq Names
  /\ \A n \in DOMAIN v : v[n] \in BOOLEAN

IsQueryList(l) ==
  /\ DOMAIN l \subseteq 0..NQid - 1
  /\ \A i \in DOMAIN l : l[i] \in Query

(* A hit, a miss and an add keep the cache well typed, whatever add evicts. *)
LEMMA CacheOpsType ==
  ASSUME NEW c, IsCache(c), NEW k \in Questions, NEW m \in Msg
  PROVE  /\ k \in DOMAIN c => IsCache(cache_hit(c, k))
         /\ IsCache(cache_miss(c, k))
         /\ \A d \in cache_add(c, m) : IsCache(d)
<1>1. \A e : e \in Msg => CacheEntry(e, TRUE) \in [msg : Msg, added_ip : BOOLEAN]
  BY DEF CacheEntry
<1>2. k \in DOMAIN c => IsCache(cache_hit(c, k))
  BY <1>1 DEF IsCache, cache_hit, Put
<1>3. \A x : IsCache(Without(c, x))
  BY DEF IsCache, Without
<1>4. question(m) \in Questions
  BY DEF question, Questions, Msg
<1>5. \A d : IsCache(d) => IsCache(Put(d, question(m), CacheEntry(m, TRUE)))
  BY <1>1, <1>4 DEF IsCache, Put
<1>6. \A d \in cache_add(c, m) : IsCache(d)
  BY <1>3, <1>5 DEF cache_add
<1> QED
  BY <1>2, <1>3, <1>6 DEF cache_miss

(* verdict_add keeps the verdict cache well typed and only adds this name.  *)
LEMMA VerdictAddType ==
  ASSUME NEW vc, IsVerdictMap(vc), NEW name \in Names, NEW b \in BOOLEAN,
         NEW w \in verdict_add(vc, name, b)
  PROVE  /\ IsVerdictMap(w)
         /\ \A n \in DOMAIN w : (n = name /\ w[n] = b) \/ (n \in DOMAIN vc /\ w[n] = vc[n])
<1>1. \/ w = vc
      \/ w = Put(vc, name, b)
      \/ \E old \in DOMAIN vc : w = Without(Put(vc, name, b), old)
  BY DEF verdict_add, new_key, Put
<1>2. CASE w = vc
  BY <1>2
<1>3. CASE w = Put(vc, name, b)
  BY <1>3 DEF IsVerdictMap, Put
<1>4. CASE \E old \in DOMAIN vc : w = Without(Put(vc, name, b), old)
  BY <1>4 DEF IsVerdictMap, Put, Without
<1> QED
  BY <1>1, <1>2, <1>3, <1>4

-----------------------------------------------------------------------------
(* Type correctness *)

(* An id is an id, whether or not the counter has wrapped. *)
LEMMA QidType ==
  ASSUME TypeOK
  PROVE  \A i \in Nat : Qid(i) \in 0..NQid - 1
BY BoundAssumption DEF TypeOK, Qid

(* A query that is not answered by this program goes to groups that exist. *)
LEMMA TargetsType ==
  ASSUME NEW a \in Ask, ~AnswersItself(a)
  PROVE  /\ TagOf[a.name] \in Tags
         /\ VerdictFlag(a) \in Verdicts
         /\ Targets(TagOf[a.name], VerdictFlag(a)) \subseteq Groups
<1>1. TagOf[a.name] \in Tags /\ TagOf[a.name] # "null"
  BY ConfigAssumption DEF AnswersItself, Ask
<1>2. VerdictFlag(a) \in Verdicts
  BY DEF VerdictFlag, Verdicts
<1>3. Targets(TagOf[a.name], VerdictFlag(a)) \subseteq Groups
  <2>1. CASE TagOf[a.name] # "none"
    BY <1>1, <2>1 DEF Targets, Tags, Groups
  <2>2. CASE TagOf[a.name] = "none"
    BY <2>2 DEF Targets, Groups
  <2> QED
    BY <2>1, <2>2
<1> QED
  BY <1>1, <1>2, <1>3

(* What the upstreams will reply carries the id, the request and the        *)
(* question of the query they were sent.                                    *)
LEMMA UpstreamRepliesType ==
  ASSUME NEW qid \in 0..NQid - 1, NEW r \in Requests, NEW a \in Ask,
         NEW sent \in SUBSET Groups, NEW said,
         DOMAIN said = sent, \A grp \in sent : said[grp] \in Says[grp]
  PROVE  /\ UpstreamReplies(qid, r, a, said) \subseteq Reply
         /\ \A x \in UpstreamReplies(qid, r, a, said) :
              /\ x.qid = qid /\ x.req = r /\ x.msg.by = x.grp
              /\ question(x.msg) = <<a.name, a.qtype>>
<1> SUFFICES ASSUME NEW x \in UpstreamReplies(qid, r, a, said)
             PROVE  /\ x \in Reply
                    /\ x.qid = qid /\ x.req = r /\ x.msg.by = x.grp
                    /\ question(x.msg) = <<a.name, a.qtype>>
  OBVIOUS
<1>1. PICK grp \in sent : \E b \in said[grp] :
        x = [qid |-> qid, req |-> r, grp |-> grp,
             msg |-> [name |-> a.name, qtype |-> a.qtype, rcode |-> b.rcode,
                      tc |-> b.tc, ip |-> b.ip, len |-> b.len, by |-> grp]]
  BY DEF UpstreamReplies
<1>2. PICK b \in said[grp] :
        x = [qid |-> qid, req |-> r, grp |-> grp,
             msg |-> [name |-> a.name, qtype |-> a.qtype, rcode |-> b.rcode,
                      tc |-> b.tc, ip |-> b.ip, len |-> b.len, by |-> grp]]
  BY <1>1
<1>3. b \in Body
  BY EnvAssumption
<1>4. x.msg \in Msg
  BY <1>2, <1>3 DEF Body, Ask, Msg
<1> QED
  BY <1>2, <1>4 DEF Reply, question

(* A group that was reached and has something to say is heard of. *)
LEMMA UpstreamRepliesGroups ==
  ASSUME NEW qid, NEW r, NEW a, NEW said
  PROVE  /\ \A x \in UpstreamReplies(qid, r, a, said) : x.grp \in DOMAIN said
         /\ \A grp \in DOMAIN said : said[grp] # {} =>
              \E x \in UpstreamReplies(qid, r, a, said) : x.req = r /\ x.grp = grp
<1> DEFINE rep(grp, b) ==
             [qid |-> qid, req |-> r, grp |-> grp,
              msg |-> [name |-> a.name, qtype |-> a.qtype, rcode |-> b.rcode,
                       tc |-> b.tc, ip |-> b.ip, len |-> b.len, by |-> grp]]
           all == UNION {{rep(grp, b) : b \in said[grp]} : grp \in DOMAIN said}
<1>1. UpstreamReplies(qid, r, a, said) = all
  BY Zenon DEF UpstreamReplies
<1>2. \A grp, b : rep(grp, b).req = r /\ rep(grp, b).grp = grp
  OBVIOUS
<1> HIDE DEF rep
<1>3. \A x \in all : \E grp \in DOMAIN said : \E b \in said[grp] : x = rep(grp, b)
  OBVIOUS
<1>4. \A grp \in DOMAIN said : \A b \in said[grp] : rep(grp, b) \in all
  OBVIOUS
<1> HIDE DEF all
<1>5. ASSUME NEW grp \in DOMAIN said, said[grp] # {}
      PROVE  \E x \in all : x.req = r /\ x.grp = grp
  <2>1. PICK b : b \in said[grp]
    BY <1>5
  <2> QED
    BY <1>2, <1>4, <2>1
<1>6. \A x \in all : x.grp \in DOMAIN said
  BY <1>2, <1>3
<1> QED
  BY <1>1, <1>5, <1>6

\* The groups that query q of request r has reached: the replies that are new
\* come from them, and the trust group is among them or known to have failed.
Reached(r, a, q) ==
  \E sent \in SUBSET Targets(TagOf[a.name], VerdictFlag(a)) :
    /\ sent # {} /\ sent \subseteq Groups
    /\ Targets(TagOf[a.name], VerdictFlag(a)) \ sent \subseteq MayFail
    /\ q.trust_failed = TrustFailed(TagOf[a.name],
                                    Targets(TagOf[a.name], VerdictFlag(a)), sent)
    /\ \A x \in asked' \ asked : x.grp \in sent
    /\ \A grp \in sent : {} \notin Says[grp]
                           => \E x \in asked' : x.req = r /\ x.grp = grp

\* Forward has given up on the query: no id, or no group could be reached.
NotForwarded(r, a, from, out) ==
  /\ query_list' = query_list /\ asked' = asked
  /\ \/ outbox' = out
     \/ /\ from # "local"
        /\ outbox' = send_reply(out, r, servfail_reply(QueryMsg(a)), from, a.bufsz)

\* Forward has put the query q in the list, with a fresh id.
Forwarded(r, a, from, out, qid, q) ==
  /\ qid \notin DOMAIN query_list
  /\ query_list' = Put(query_list, qid, q)
  /\ outbox' = out
  /\ last_qid' = qid
  /\ q.req = r /\ q.from = from /\ q.tag = TagOf[a.name]
  /\ q.verdict = VerdictFlag(a) /\ q.trust_msg = {} /\ q.req_time = now
  /\ asked \subseteq asked' /\ asked' \subseteq Reply
  /\ \A x \in asked' \ asked :
       /\ x.qid = qid /\ x.req = r /\ x.msg.by = x.grp
       /\ question(x.msg) = <<a.name, a.qtype>>
  /\ Reached(r, a, q)

(* The second half of on_query either gives up or adds one typed query. *)
LEMMA ForwardEffect ==
  ASSUME TypeOK, NEW r \in Requests, NEW a \in Ask, ~AnswersItself(a),
         NEW from \in Froms, NEW out, Forward(r, a, from, out)
  PROVE  /\ last_qid' \in 0..NQid - 1
         /\ \/ NotForwarded(r, a, from, out)
            \/ \E qid \in 0..NQid - 1, q \in Query : Forwarded(r, a, from, out, qid, q)
<1> DEFINE tag == TagOf[a.name]
           v == VerdictFlag(a)
           targets == Targets(tag, v)
<1>1. tag \in Tags /\ v \in Verdicts /\ targets \subseteq Groups
  BY TargetsType
<1>2. QidTries \in Nat
  BY BoundAssumption
<1>3. CASE /\ ListFull \/ NoFreeQid
           /\ last_qid' = IF ListFull THEN last_qid ELSE AdvanceQid(QidTries)
           /\ outbox' = out
           /\ UNCHANGED <<query_list, asked>>
  BY <1>2, <1>3, QidType DEF TypeOK, AdvanceQid, NotForwarded
<1>4. ASSUME NEW i \in 1..QidTries, NEW sent \in SUBSET targets,
             FreeQid(i), last_qid' = AdvanceQid(i),
             sent = {}, outbox' = NobodyReached(r, a, from, out),
             UNCHANGED <<query_list, asked>>
      PROVE  last_qid' \in 0..NQid - 1 /\ NotForwarded(r, a, from, out)
  BY <1>2, <1>4, QidType DEF AdvanceQid, NobodyReached, NotForwarded
<1>5. ASSUME NEW i \in 1..QidTries, NEW sent \in SUBSET targets,
             FreeQid(i), last_qid' = AdvanceQid(i), outbox' = out,
             sent # {}, targets \ sent \subseteq MayFail,
             query_list' = Put(query_list, Qid(i),
               NewQuery(r, a, from, v, TrustFailed(tag, targets, sent))),
             NEW said, DOMAIN said = sent,
             \A grp \in sent : said[grp] \in Says[grp],
             asked' = asked \cup UpstreamReplies(Qid(i), r, a, said)
      PROVE  /\ last_qid' \in 0..NQid - 1
             /\ \E qid \in 0..NQid - 1, q \in Query : Forwarded(r, a, from, out, qid, q)
  <2> DEFINE q == NewQuery(r, a, from, v, TrustFailed(tag, targets, sent))
  <2>1. Qid(i) \in 0..NQid - 1
    BY <1>2, QidType
  <2>2. q \in Query
    BY <1>1 DEF NewQuery, Query, TrustFailed, Ask, TypeOK
  <2>3. sent \in SUBSET Groups
    BY <1>1
  <2>4. /\ UpstreamReplies(Qid(i), r, a, said) \subseteq Reply
        /\ \A x \in UpstreamReplies(Qid(i), r, a, said) :
              /\ x.qid = Qid(i) /\ x.req = r /\ x.msg.by = x.grp
              /\ question(x.msg) = <<a.name, a.qtype>>
    BY <1>5, <2>1, <2>3, UpstreamRepliesType
  <2>5. asked \subseteq Reply
    BY DEF TypeOK
  <2>6. Reached(r, a, q)
    <3>1. q.trust_failed = TrustFailed(tag, targets, sent)
      BY DEF NewQuery
    <3>2. /\ \A x \in asked' \ asked : x.grp \in sent
          /\ \A grp \in sent : {} \notin Says[grp]
                                 => \E x \in asked' : x.req = r /\ x.grp = grp
      <4>1. PICK new : new = UpstreamReplies(Qid(i), r, a, said)
        OBVIOUS
      <4>2. asked' = asked \cup new /\ DOMAIN said = sent
        BY <1>5, <4>1
      <4>3. /\ \A x \in new : x.grp \in sent
            /\ \A grp \in sent : said[grp] # {} => \E x \in new : x.req = r /\ x.grp = grp
        BY <4>1, <4>2, UpstreamRepliesGroups
      <4>4. \A grp \in sent : {} \notin Says[grp] => said[grp] # {}
        BY <1>5
      <4> QED
        BY <4>2, <4>3, <4>4
    <3> HIDE DEF q
    <3> QED
      BY <1>5, <2>3, <3>1, <3>2 DEF Reached
  <2>7. Forwarded(r, a, from, out, Qid(i), q)
    BY <1>5, <2>4, <2>5, <2>6 DEF Forwarded, NewQuery, FreeQid, AdvanceQid
  <2> QED
    BY <1>5, <2>1, <2>2, <2>7 DEF AdvanceQid
<1>6. \/ /\ ListFull \/ NoFreeQid
         /\ last_qid' = IF ListFull THEN last_qid ELSE AdvanceQid(QidTries)
         /\ outbox' = out
         /\ UNCHANGED <<query_list, asked>>
      \/ \E i \in 1..QidTries, sent \in SUBSET targets :
           /\ FreeQid(i) /\ last_qid' = AdvanceQid(i)
           /\ sent = {} /\ outbox' = NobodyReached(r, a, from, out)
           /\ UNCHANGED <<query_list, asked>>
      \/ \E i \in 1..QidTries, sent \in SUBSET targets :
           /\ FreeQid(i) /\ last_qid' = AdvanceQid(i)
           /\ outbox' = out
           /\ sent # {} /\ targets \ sent \subseteq MayFail
           /\ query_list' = Put(query_list, Qid(i),
                NewQuery(r, a, from, v, TrustFailed(tag, targets, sent)))
           /\ \E said \in [sent -> UNION {Says[grp] : grp \in sent}] :
                /\ \A grp \in sent : said[grp] \in Says[grp]
                /\ asked' = asked \cup UpstreamReplies(Qid(i), r, a, said)
  BY Zenon DEF Forward
<1> QED
  BY <1>3, <1>4, <1>5, <1>6

\* EndQuery has closed query q: what it sends and caches is chosen or chosen
\* with its records removed.
Ended(a, q, chosen, m) ==
  /\ m \in {chosen, empty_reply(chosen)}
  /\ ipset' \in {ipset, ipset \cup {<<q.tag, m>>}}
  /\ cache' \in cache_add(cache, m)
  /\ outbox' = IF q.from = "local" THEN outbox
               ELSE send_reply(outbox, q.req, m, q.from, q.bufsz)
  /\ query_list' = Without(query_list, a.qid)

(* The end of on_reply. *)
LEMMA EndQueryEffect ==
  ASSUME NEW a, NEW q, NEW chosen, NEW res, EndQuery(a, q, chosen, res)
  PROVE  \E m : Ended(a, q, chosen, m)
BY DEF EndQuery, Ended

(* The initial state is well typed: what cache.load found included. *)
LEMMA InitType == Init => TypeOK
<1> SUFFICES ASSUME Init PROVE TypeOK
  OBVIOUS
<1>1. /\ DOMAIN cache \subseteq Questions
      /\ \A k \in DOMAIN cache : cache[k] \in [msg : Msg, added_ip : BOOLEAN]
  BY DbAssumption DEF Init, DbEntry, CacheEntry
<1> QED
  BY <1>1, BoundAssumption DEF Init, TypeOK

(* Every handler keeps the state well typed. *)
LEMMA NextType == TypeOK /\ [Next]_vars => TypeOK'
<1> SUFFICES ASSUME TypeOK, [Next]_vars PROVE TypeOK'
  OBVIOUS
<1> USE DEF TypeOK
<1>0. ASSUME NEW r, NEW a \in Asks, Arrives(r, a)
      PROVE  reqs' \in Seq(Ask) /\ Len(reqs') <= MaxReq
  BY <1>0, EnvAssumption, BoundAssumption DEF Arrives
<1>1. ASSUME NEW r \in Requests, NEW a \in Asks, OnBadQuery(r, a) PROVE TypeOK'
  <2>1. a \in Ask /\ BadMsg(a) \in Msg
    BY EnvAssumption, OwnMsgType
  <2>2. outbox' \in [Requests -> Seq(Msg)]
    BY <1>1, <2>1 DEF OnBadQuery
  <2> QED
    BY <1>1, <2>1, <2>2, BoundAssumption DEF OnBadQuery, Arrives
<1>2. ASSUME NEW r \in Requests, NEW a \in Asks, OnQueryLocal(r, a) PROVE TypeOK'
  <2>1. a \in Ask /\ QueryMsg(a) \in Msg /\ LocalMsg(a) \in Msg
    BY EnvAssumption, OwnMsgType
  <2>2. outbox' \in [Requests -> Seq(Msg)]
    BY <1>2, <2>1, SendReplyType DEF OnQueryLocal
  <2> QED
    BY <1>2, <2>1, <2>2, BoundAssumption DEF OnQueryLocal, Arrives
<1>3. ASSUME NEW r \in Requests, NEW a \in Ask, NEW from \in Froms,
             NEW out \in [Requests -> Seq(Msg)], ~AnswersItself(a),
             Forward(r, a, from, out)
      PROVE  /\ IsQueryList(query_list') /\ last_qid' \in 0..NQid - 1
             /\ asked' \subseteq Reply /\ asked \subseteq asked'
             /\ outbox' \in [Requests -> Seq(Msg)]
  <2>1. servfail_reply(QueryMsg(a)) \in Msg
    BY OwnMsgType, RewriteType
  <2>2. ASSUME NotForwarded(r, a, from, out)
        PROVE  /\ IsQueryList(query_list') /\ outbox' \in [Requests -> Seq(Msg)]
               /\ asked' \subseteq Reply /\ asked \subseteq asked'
    <3>1. send_reply(out, r, servfail_reply(QueryMsg(a)), from, a.bufsz)
            \in [Requests -> Seq(Msg)]
      BY <2>1, SendReplyType
    <3>2. \/ outbox' = out
          \/ outbox' = send_reply(out, r, servfail_reply(QueryMsg(a)), from, a.bufsz)
      BY <2>2 DEF NotForwarded
    <3>3. outbox' \in [Requests -> Seq(Msg)]
      BY <3>1, <3>2
    <3> QED
      BY <2>2, <3>3 DEF NotForwarded, IsQueryList
  <2>3. ASSUME NEW qid \in 0..NQid - 1, NEW q \in Query,
               Forwarded(r, a, from, out, qid, q)
        PROVE  /\ IsQueryList(query_list') /\ outbox' \in [Requests -> Seq(Msg)]
               /\ asked' \subseteq Reply /\ asked \subseteq asked'
    BY <1>3, <2>3 DEF Forwarded, IsQueryList, Put
  <2> QED
    BY <1>3, <2>2, <2>3, ForwardEffect
<1>4. ASSUME NEW r \in Requests, NEW a \in Asks, OnQueryHit(r, a) PROVE TypeOK'
  <2> DEFINE k == <<a.name, a.qtype>>
             out == send_reply(outbox, r, cache[k].msg, a.from, a.bufsz)
  <2>1. a \in Ask /\ k \in Questions /\ TagOf[a.name] \in Tags
    BY EnvAssumption, ConfigAssumption DEF Ask, Questions
  <2>2. cache[k].msg \in Msg /\ out \in [Requests -> Seq(Msg)]
    BY <1>4, SendReplyType DEF OnQueryHit
  <2>3. IsCache(cache')
    BY <1>4, <2>1, <2>2, CacheOpsType DEF OnQueryHit, IsCache
  <2>4. ipset' \subseteq Tags \X Msg
    BY <1>4, <2>1, <2>2 DEF OnQueryHit
  <2>5. RefreshFrom(a) \in Froms
    BY DEF RefreshFrom, Froms
  <2>6. /\ IsQueryList(query_list') /\ last_qid' \in 0..NQid - 1
        /\ asked' \subseteq Reply /\ asked \subseteq asked'
        /\ outbox' \in [Requests -> Seq(Msg)]
    <3>1. CASE outbox' = out /\ UNCHANGED <<query_list, last_qid, asked>>
      BY <3>1, <2>2 DEF IsQueryList
    <3>2. CASE Forward(r, a, RefreshFrom(a), out)
      BY <1>3, <1>4, <2>1, <2>2, <2>5, <3>2 DEF OnQueryHit
    <3> QED
      BY <1>4, <3>1, <3>2 DEF OnQueryHit
  <2>7. reqs' \in Seq(Ask) /\ Len(reqs') <= MaxReq
    BY <1>0, <1>4 DEF OnQueryHit
  <2>8. UNCHANGED <<now, verdict, seen>>
    BY <1>4 DEF OnQueryHit
  <2> QED
    BY <2>3, <2>4, <2>6, <2>7, <2>8 DEF IsCache, IsQueryList
<1>5. ASSUME NEW r \in Requests, NEW a \in Asks, OnQueryMiss(r, a) PROVE TypeOK'
  <2>1. a \in Ask /\ <<a.name, a.qtype>> \in Questions /\ a.from \in Froms
    BY EnvAssumption DEF Ask, Questions, Froms
  <2>2. QueryMsg(a) \in Msg
    BY <2>1, OwnMsgType
  <2>3. IsCache(cache')
    BY <1>5, <2>1, <2>2, CacheOpsType DEF OnQueryMiss, IsCache
  <2>4. /\ IsQueryList(query_list') /\ last_qid' \in 0..NQid - 1
        /\ asked' \subseteq Reply /\ asked \subseteq asked'
        /\ outbox' \in [Requests -> Seq(Msg)]
    BY <1>3, <1>5, <2>1 DEF OnQueryMiss
  <2>5. reqs' \in Seq(Ask) /\ Len(reqs') <= MaxReq
    BY <1>0, <1>5 DEF OnQueryMiss
  <2>6. UNCHANGED <<now, verdict, ipset, seen>>
    BY <1>5 DEF OnQueryMiss
  <2> QED
    BY <2>3, <2>4, <2>5, <2>6 DEF IsCache, IsQueryList
<1>6. ASSUME NEW a \in asked, IgnoreReply(a) PROVE TypeOK'
  BY <1>6 DEF IgnoreReply
<1>7. ASSUME NEW a \in asked, NEW q \in Query, NEW chosen \in Msg, NEW res,
             EndQuery(a, q, chosen, res)
      PROVE  /\ IsQueryList(query_list') /\ IsCache(cache')
             /\ ipset' \subseteq Tags \X Msg
             /\ outbox' \in [Requests -> Seq(Msg)]
  <2>1. PICK m : Ended(a, q, chosen, m)
    BY <1>7, EndQueryEffect
  <2>2. m \in Msg
    BY <2>1, RewriteType DEF Ended
  <2>3. q.req \in Requests /\ q.tag \in Tags
    BY DEF Query
  <2>4. question(m) \in Questions
    BY <2>2 DEF question, Questions, Msg
  <2>5. IsCache(cache')
    BY <2>1, <2>2, <2>4, CacheOpsType DEF Ended, IsCache
  <2>6. outbox' \in [Requests -> Seq(Msg)]
    BY <2>1, <2>2, <2>3, SendReplyType DEF Ended
  <2>7. ipset' \subseteq Tags \X Msg
    BY <2>1, <2>2, <2>3 DEF Ended
  <2> QED
    BY <2>1, <2>5, <2>6, <2>7 DEF Ended, IsQueryList, Without
<1>8. ASSUME NEW a \in asked, Matches(a)
      PROVE  /\ query_list[a.qid] \in Query /\ a.msg \in Msg /\ a.msg.name \in Names
             /\ seen' \subseteq asked'
  BY <1>8 DEF Matches, Reply, Msg
<1>9. ASSUME NEW a \in asked, OnChinaReply(a) PROVE TypeOK'
  <2> DEFINE q == query_list[a.qid]
             res == IF q.verdict = "is_china" THEN {} ELSE {test_ip(a.msg)}
  <2>1. /\ q \in Query /\ a.msg \in Msg /\ a.msg.name \in Names
        /\ a.qid \in DOMAIN query_list /\ Matches(a)
    BY <1>8, <1>9 DEF OnChinaReply, Matches
  <2>2. IsVerdictMap(verdict')
    <3>1. IsVerdictMap(verdict) /\ (test_ip(a.msg) = "is_china_ip") \in BOOLEAN
      BY DEF IsVerdictMap
    <3>2. \/ verdict' \in verdict_add(verdict, a.msg.name,
                                      test_ip(a.msg) = "is_china_ip")
          \/ UNCHANGED verdict
      BY <1>9 DEF OnChinaReply
    <3> QED
      BY <2>1, <3>1, <3>2, VerdictAddType
  <2>3. /\ IsQueryList(query_list') /\ IsCache(cache')
        /\ ipset' \subseteq Tags \X Msg
        /\ outbox' \in [Requests -> Seq(Msg)]
    <3>1. ASSUME NEW chosen \in Msg, EndQuery(a, q, chosen, res)
          PROVE  /\ IsQueryList(query_list') /\ IsCache(cache')
                 /\ ipset' \subseteq Tags \X Msg
                 /\ outbox' \in [Requests -> Seq(Msg)]
      BY <1>7, <2>1, <3>1
    <3>2. CASE RejectChina(a, q) /\ UNCHANGED <<cache, ipset, outbox>>
      <4>1. [q EXCEPT !.verdict = "non_china"] \in Query
        BY <2>1 DEF Query, Verdicts
      <4> QED
        BY <2>1, <3>2, <4>1 DEF RejectChina, IsQueryList, IsCache, Put
    <3>3. servfail_reply(a.msg) \in Msg /\ q.trust_msg \subseteq Msg
      BY <2>1, RewriteType DEF Query
    <3> QED
      BY <1>9, <2>1, <3>1, <3>2, <3>3 DEF OnChinaReply
  <2> QED
    BY <1>8, <1>9, <2>1, <2>2, <2>3
    DEF OnChinaReply, Matches, IsCache, IsQueryList, IsVerdictMap
<1>10. ASSUME NEW a \in asked, OnTrustReply(a) PROVE TypeOK'
  <2> DEFINE q == query_list[a.qid]
  <2>1. /\ q \in Query /\ a.msg \in Msg
        /\ a.qid \in DOMAIN query_list /\ Matches(a)
    BY <1>8, <1>10 DEF OnTrustReply, Matches
  <2>2. /\ IsQueryList(query_list') /\ IsCache(cache')
        /\ ipset' \subseteq Tags \X Msg
        /\ outbox' \in [Requests -> Seq(Msg)]
    <3>1. CASE EndQuery(a, q, a.msg, {})
      BY <1>7, <2>1, <3>1
    <3>2. CASE /\ query_list' = Put(query_list, a.qid,
                    [q EXCEPT !.trust_msg = IF @ = {} THEN {a.msg} ELSE @])
               /\ UNCHANGED <<cache, ipset, outbox>>
      <4>1. [q EXCEPT !.trust_msg = IF @ = {} THEN {a.msg} ELSE @] \in Query
        BY <2>1 DEF Query
      <4> QED
        BY <2>1, <3>2, <4>1 DEF IsQueryList, IsCache, Put
    <3> QED
      BY <1>10, <3>1, <3>2 DEF OnTrustReply
  <2> QED
    BY <1>8, <1>10, <2>1, <2>2 DEF OnTrustReply, Matches, IsCache, IsQueryList
<1>11. ASSUME NEW a \in asked, OnFirstReply(a) PROVE TypeOK'
  <2> DEFINE q == query_list[a.qid]
  <2>1. q \in Query /\ a.msg \in Msg /\ Matches(a)
    BY <1>8, <1>11 DEF OnFirstReply
  <2>2. /\ IsQueryList(query_list') /\ IsCache(cache')
        /\ ipset' \subseteq Tags \X Msg
        /\ outbox' \in [Requests -> Seq(Msg)]
    BY <1>7, <1>11, <2>1 DEF OnFirstReply
  <2> QED
    BY <1>8, <1>11, <2>1, <2>2 DEF OnFirstReply, Matches, IsCache, IsQueryList
<1>12. ASSUME NEW d \in {0, 1}, LoopTop(d) PROVE TypeOK'
  BY <1>12, BoundAssumption DEF LoopTop
<1>13. CASE ClockInBatch
  BY <1>13, BoundAssumption DEF ClockInBatch
<1>14. CASE UNCHANGED vars
  BY <1>14 DEF vars
<1> QED
  BY <1>1, <1>2, <1>4, <1>5, <1>6, <1>9, <1>10, <1>11, <1>12, <1>13, <1>14
  DEF Next, ClientStep, UpstreamStep

(* The state of the query server has its type, whatever clients ask and     *)
(* upstreams reply (server.zig).                                            *)
THEOREM TypeCorrect == Spec => []TypeOK
BY InitType, NextType, PTL DEF Spec

-----------------------------------------------------------------------------
(* At most one reply *)

(* The inductive strengthening of AtMostOneReply: a query that is still in  *)
(* the list for a client has not been answered, no two queries of the list  *)
(* belong to the same request, and nothing is sent before it is asked for.  *)
OneAnswerInv ==
  /\ \A r \in Requests : r > Len(reqs) => outbox[r] = <<>>
  /\ \A r \in Requests : Len(outbox[r]) <= 1
  /\ \A i \in DOMAIN query_list : query_list[i].req <= Len(reqs)
  /\ \A i \in DOMAIN query_list :
       query_list[i].from # "local" => outbox[query_list[i].req] = <<>>
  /\ \A i, j \in DOMAIN query_list : query_list[i].req = query_list[j].req => i = j

\* out2 is out with one more message for request r
SentOne(out, out2, r) ==
  /\ \E m \in Msg : out2[r] = Append(out[r], m)
  /\ \A s \in Requests \ {r} : out2[s] = out[s]

(* send_reply sends one message. *)
LEMMA SendReplySendsOne ==
  ASSUME NEW out \in [Requests -> Seq(Msg)], NEW r \in Requests, NEW m \in Msg,
         NEW from, NEW bufsz
  PROVE  SentOne(out, send_reply(out, r, m, from, bufsz), r)
<1>1. Sent(m, from, bufsz) \in Msg
  BY SentType
<1> QED
  BY <1>1, SendReplyType DEF SentOne

(* A request that is answered at once, and nothing else. *)
LEMMA ArriveAnswered ==
  ASSUME TypeOK, OneAnswerInv, NEW r \in Requests, NEW a \in Ask, Arrives(r, a),
         outbox' = outbox \/ SentOne(outbox, outbox', r),
         UNCHANGED query_list
  PROVE  OneAnswerInv'
<1>1. r = Len(reqs) + 1 /\ Len(reqs') = Len(reqs) + 1 /\ Len(reqs) \in Nat
  BY DEF TypeOK, Arrives
<1>2. outbox[r] = <<>>
  BY <1>1 DEF OneAnswerInv
<1>3. Len(outbox'[r]) <= 1
  <2>1. CASE outbox' = outbox
    BY <2>1 DEF OneAnswerInv
  <2>2. CASE SentOne(outbox, outbox', r)
    <3>1. PICK m \in Msg : outbox'[r] = Append(outbox[r], m)
      BY <2>2 DEF SentOne
    <3> QED
      BY <1>2, <3>1
  <2> QED
    BY <2>1, <2>2
<1>4. \A s \in Requests \ {r} : outbox'[s] = outbox[s]
  BY DEF SentOne
<1>5. \A i \in DOMAIN query_list : /\ query_list[i].req \in Requests \ {r}
                                   /\ query_list[i].req \in Nat
  BY <1>1 DEF TypeOK, OneAnswerInv, Query, Requests
<1> QED
  BY <1>1, <1>3, <1>4, <1>5 DEF OneAnswerInv, Requests

(* A request that enters the list: for its client, which has no answer yet, *)
(* or as the refresh of an answer that was sent.                            *)
LEMMA ArriveListed ==
  ASSUME TypeOK, OneAnswerInv, NEW r \in Requests, NEW a \in Ask, Arrives(r, a),
         NEW qid, NEW q \in Query, qid \notin DOMAIN query_list,
         query_list' = Put(query_list, qid, q), q.req = r,
         \/ outbox' = outbox
         \/ q.from = "local" /\ SentOne(outbox, outbox', r)
  PROVE  OneAnswerInv'
<1>1. r = Len(reqs) + 1 /\ Len(reqs') = Len(reqs) + 1 /\ Len(reqs) \in Nat
  BY DEF TypeOK, Arrives
<1>2. outbox[r] = <<>>
  BY <1>1 DEF OneAnswerInv
<1>3. Len(outbox'[r]) <= 1 /\ (q.from # "local" => outbox'[r] = <<>>)
  <2>1. CASE outbox' = outbox
    BY <1>2, <2>1
  <2>2. CASE q.from = "local" /\ SentOne(outbox, outbox', r)
    <3>1. PICK m \in Msg : outbox'[r] = Append(outbox[r], m)
      BY <2>2 DEF SentOne
    <3> QED
      BY <1>2, <2>2, <3>1
  <2> QED
    BY <2>1, <2>2
<1>4. \A s \in Requests \ {r} : outbox'[s] = outbox[s]
  BY DEF SentOne
<1>5. \A i \in DOMAIN query_list : /\ query_list[i].req \in Requests \ {r}
                                   /\ query_list[i].req \in Nat
                                   /\ query_list[i].req <= Len(reqs)
  BY <1>1 DEF TypeOK, OneAnswerInv, Query, Requests
<1>6. /\ DOMAIN query_list' = DOMAIN query_list \cup {qid}
      /\ query_list'[qid] = q
      /\ \A i \in DOMAIN query_list : query_list'[i] = query_list[i]
  BY DEF Put
<1>7. /\ \A i \in DOMAIN query_list' : query_list'[i].req <= Len(reqs')
      /\ \A i, j \in DOMAIN query_list' :
           query_list'[i].req = query_list'[j].req => i = j
  BY <1>1, <1>5, <1>6 DEF OneAnswerInv
<1>8. \A i \in DOMAIN query_list' :
        query_list'[i].from # "local" => outbox'[query_list'[i].req] = <<>>
  BY <1>3, <1>4, <1>5, <1>6 DEF OneAnswerInv
<1>9. \A s \in Requests : /\ s > Len(reqs') => outbox'[s] = <<>>
                          /\ Len(outbox'[s]) <= 1
  BY <1>1, <1>3, <1>4 DEF OneAnswerInv, Requests
<1> QED
  BY <1>7, <1>8, <1>9 DEF OneAnswerInv

(* Both halves of on_query together. *)
LEMMA ForwardOneAnswer ==
  ASSUME TypeOK, OneAnswerInv, NEW r \in Requests, NEW a \in Ask, Arrives(r, a),
         ~AnswersItself(a), NEW from \in Froms, NEW out, Forward(r, a, from, out),
         out \in [Requests -> Seq(Msg)],
         \/ out = outbox
         \/ from = "local" /\ SentOne(outbox, out, r)
  PROVE  OneAnswerInv'
<1>1. CASE NotForwarded(r, a, from, out)
  <2>1. servfail_reply(QueryMsg(a)) \in Msg
    BY OwnMsgType, RewriteType
  <2>2. outbox' = outbox \/ SentOne(outbox, outbox', r)
    BY <1>1, <2>1, SendReplySendsOne DEF NotForwarded
  <2> QED
    BY <1>1, <2>2, ArriveAnswered DEF NotForwarded
<1>2. ASSUME NEW qid \in 0..NQid - 1, NEW q \in Query,
             Forwarded(r, a, from, out, qid, q)
      PROVE  OneAnswerInv'
  BY <1>2, ArriveListed DEF Forwarded
<1> QED
  BY <1>1, <1>2, ForwardEffect

(* A query that leaves the list, with its answer if a client waits for it.  *)
LEMMA EndOneAnswer ==
  ASSUME TypeOK, OneAnswerInv, NEW a, NEW chosen \in Msg, NEW res,
         a.qid \in DOMAIN query_list, EndQuery(a, query_list[a.qid], chosen, res),
         UNCHANGED reqs
  PROVE  OneAnswerInv'
<1> DEFINE q == query_list[a.qid]
<1>1. q \in Query /\ q.req \in Requests
  BY DEF TypeOK, Query
<1>2. PICK m : Ended(a, q, chosen, m)
  BY EndQueryEffect
<1>3. m \in Msg
  BY <1>2, RewriteType DEF Ended
<1>4. \/ outbox' = outbox
      \/ outbox[q.req] = <<>> /\ SentOne(outbox, outbox', q.req)
  BY <1>1, <1>2, <1>3, SendReplySendsOne DEF Ended, OneAnswerInv, TypeOK
<1>5. /\ DOMAIN query_list' = DOMAIN query_list \ {a.qid}
      /\ \A i \in DOMAIN query_list' : query_list'[i] = query_list[i]
  BY <1>2 DEF Ended, Without
<1>6. \A i \in DOMAIN query_list' : query_list[i].req \in Requests \ {q.req}
  BY <1>5 DEF OneAnswerInv, TypeOK, Query
<1>7. Len(outbox'[q.req]) <= 1
  BY <1>1, <1>4 DEF OneAnswerInv, SentOne
<1>8. \A s \in Requests \ {q.req} : outbox'[s] = outbox[s]
  BY <1>4 DEF SentOne
<1>9. q.req <= Len(reqs) /\ q.req \in Nat /\ Len(reqs) \in Nat
  BY <1>1 DEF OneAnswerInv, Requests, TypeOK
<1>10. \A s \in Requests : s > Len(reqs') => outbox'[s] = <<>>
  BY <1>8, <1>9 DEF OneAnswerInv, Requests
<1> QED
  BY <1>5, <1>6, <1>7, <1>8, <1>10 DEF OneAnswerInv

(* A query of the list that changes without changing hands. *)
LEMMA UpdateOneAnswer ==
  ASSUME TypeOK, OneAnswerInv, NEW k \in DOMAIN query_list, NEW q,
         query_list' = Put(query_list, k, q), q.req = query_list[k].req,
         q.from = query_list[k].from, UNCHANGED <<reqs, outbox>>
  PROVE  OneAnswerInv'
<1>1. /\ DOMAIN query_list' = DOMAIN query_list
      /\ \A i \in DOMAIN query_list : /\ query_list'[i].req = query_list[i].req
                                      /\ query_list'[i].from = query_list[i].from
  BY DEF Put
<1> QED
  BY <1>1 DEF OneAnswerInv

(* Every handler preserves the strengthened invariant. *)
LEMMA NextOneAnswer == TypeOK /\ OneAnswerInv /\ [Next]_vars => OneAnswerInv'
<1> SUFFICES ASSUME TypeOK, OneAnswerInv, [Next]_vars PROVE OneAnswerInv'
  OBVIOUS
<1>0. /\ outbox \in [Requests -> Seq(Msg)]
      /\ \A a \in Asks : a \in Ask /\ a.from \in Froms
  BY EnvAssumption DEF TypeOK, Ask, Froms
<1>1. ASSUME NEW r \in Requests, NEW a \in Asks, OnBadQuery(r, a)
      PROVE  OneAnswerInv'
  <2>1. SentOne(outbox, outbox', r)
    BY <1>0, <1>1, OwnMsgType DEF OnBadQuery, SentOne
  <2> QED
    BY <1>0, <1>1, <2>1, ArriveAnswered DEF OnBadQuery
<1>2. ASSUME NEW r \in Requests, NEW a \in Asks, OnQueryLocal(r, a)
      PROVE  OneAnswerInv'
  <2>1. SentOne(outbox, outbox', r)
    BY <1>0, <1>2, OwnMsgType, SendReplySendsOne DEF OnQueryLocal
  <2> QED
    BY <1>0, <1>2, <2>1, ArriveAnswered DEF OnQueryLocal
<1>3. ASSUME NEW r \in Requests, NEW a \in Asks, OnQueryHit(r, a)
      PROVE  OneAnswerInv'
  <2> DEFINE m == cache[<<a.name, a.qtype>>].msg
             out == send_reply(outbox, r, m, a.from, a.bufsz)
  <2>1. m \in Msg
    BY <1>3 DEF OnQueryHit, TypeOK
  <2>2. SentOne(outbox, out, r) /\ out \in [Requests -> Seq(Msg)]
    BY <1>0, <2>1, SendReplySendsOne, SendReplyType
  <2>3. RefreshFrom(a) = "local" /\ RefreshFrom(a) \in Froms
    BY DEF RefreshFrom, Froms
  <2>4. Arrives(r, a) /\ ~AnswersItself(a)
    BY <1>3 DEF OnQueryHit
  <2>5. CASE outbox' = out /\ UNCHANGED <<query_list, last_qid, asked>>
    BY <1>0, <2>2, <2>4, <2>5, ArriveAnswered
  <2>6. CASE Forward(r, a, RefreshFrom(a), out)
    BY <1>0, <2>2, <2>3, <2>4, <2>6, ForwardOneAnswer
  <2> QED
    BY <1>3, <2>5, <2>6 DEF OnQueryHit
<1>4. ASSUME NEW r \in Requests, NEW a \in Asks, OnQueryMiss(r, a)
      PROVE  OneAnswerInv'
  BY <1>0, <1>4, ForwardOneAnswer DEF OnQueryMiss
<1>5. ASSUME NEW a \in asked, IgnoreReply(a) PROVE OneAnswerInv'
  BY <1>5 DEF IgnoreReply, OneAnswerInv
<1>6. ASSUME NEW a \in asked, Matches(a)
      PROVE  /\ a.qid \in DOMAIN query_list /\ UNCHANGED reqs
             /\ query_list[a.qid] \in Query /\ a.msg \in Msg
  BY <1>6 DEF Matches, TypeOK, Reply
<1>7. ASSUME NEW a \in asked, OnChinaReply(a) PROVE OneAnswerInv'
  <2> DEFINE q == query_list[a.qid]
             res == IF q.verdict = "is_china" THEN {} ELSE {test_ip(a.msg)}
  <2>1. a.qid \in DOMAIN query_list /\ UNCHANGED reqs /\ q \in Query /\ a.msg \in Msg
    BY <1>6, <1>7 DEF OnChinaReply
  <2>2. ASSUME NEW chosen \in Msg, EndQuery(a, q, chosen, res) PROVE OneAnswerInv'
    BY <2>1, <2>2, EndOneAnswer
  <2>3. CASE RejectChina(a, q) /\ UNCHANGED <<cache, ipset, outbox>>
    <3>1. /\ [q EXCEPT !.verdict = "non_china"].req = q.req
          /\ [q EXCEPT !.verdict = "non_china"].from = q.from
      BY <2>1 DEF Query
    <3> QED
      BY <2>1, <2>3, <3>1, UpdateOneAnswer DEF RejectChina
  <2>4. servfail_reply(a.msg) \in Msg /\ q.trust_msg \subseteq Msg
    BY <2>1, RewriteType DEF Query
  <2> QED
    BY <1>7, <2>1, <2>2, <2>3, <2>4 DEF OnChinaReply
<1>8. ASSUME NEW a \in asked, OnTrustReply(a) PROVE OneAnswerInv'
  <2> DEFINE q == query_list[a.qid]
             p == [q EXCEPT !.trust_msg = IF @ = {} THEN {a.msg} ELSE @]
  <2>1. a.qid \in DOMAIN query_list /\ UNCHANGED reqs /\ q \in Query /\ a.msg \in Msg
    BY <1>6, <1>8 DEF OnTrustReply
  <2>2. CASE EndQuery(a, q, a.msg, {})
    BY <2>1, <2>2, EndOneAnswer
  <2>3. CASE query_list' = Put(query_list, a.qid, p) /\ UNCHANGED <<cache, ipset, outbox>>
    <3>1. p.req = q.req /\ p.from = q.from
      BY <2>1 DEF Query
    <3> QED
      BY <2>1, <2>3, <3>1, UpdateOneAnswer
  <2> QED
    BY <1>8, <2>2, <2>3 DEF OnTrustReply
<1>9. ASSUME NEW a \in asked, OnFirstReply(a) PROVE OneAnswerInv'
  BY <1>6, <1>9, EndOneAnswer DEF OnFirstReply
<1>10. ASSUME NEW d \in {0, 1}, LoopTop(d) PROVE OneAnswerInv'
  BY <1>10 DEF LoopTop, OneAnswerInv
<1>11. CASE ClockInBatch
  BY <1>11 DEF ClockInBatch, OneAnswerInv
<1>12. CASE UNCHANGED vars
  BY <1>12 DEF vars, OneAnswerInv
<1> QED
  BY <1>1, <1>2, <1>3, <1>4, <1>5, <1>7, <1>8, <1>9, <1>10, <1>11, <1>12
  DEF Next, ClientStep, UpstreamStep

(* A client never gets two answers to one query: not from two upstreams of  *)
(* a group, not from the cache and its background refresh, not from a late  *)
(* reply whose id was given to another query (on_query, on_reply, List).    *)
THEOREM OneReplyPerQuery == Spec => []AtMostOneReply
<1>1. Init => OneAnswerInv
  BY DEF Init, OneAnswerInv
<1>2. TypeOK /\ OneAnswerInv /\ [Next]_vars => OneAnswerInv'
  BY NextOneAnswer
<1>3. OneAnswerInv => AtMostOneReply
  BY DEF OneAnswerInv, AtMostOneReply
<1> QED
  BY <1>1, <1>2, <1>3, TypeCorrect, PTL DEF Spec

-----------------------------------------------------------------------------
(* The timeout list *)

(* The linked list is in order of arrival, so its deadlines are in order:   *)
(* what lets check_timeout stop at the first query that is not overdue.     *)
DeadlineOrderInv ==
  /\ \A i \in DOMAIN query_list : /\ query_list[i].req <= Len(reqs)
                                  /\ query_list[i].req_time <= now
  /\ \A i, j \in DOMAIN query_list :
       query_list[i].req <= query_list[j].req
         => query_list[i].req_time <= query_list[j].req_time

\* no query was added, and those that are left kept their places
KeepsPlaces ==
  /\ DOMAIN query_list' \subseteq DOMAIN query_list
  /\ \A i \in DOMAIN query_list' : /\ query_list'[i].req = query_list[i].req
                                   /\ query_list'[i].req_time = query_list[i].req_time
  /\ Len(reqs) <= Len(reqs') /\ now <= now'

\* one query was added at the tail
AddsAtTail(qid, q) ==
  /\ qid \notin DOMAIN query_list /\ query_list' = Put(query_list, qid, q)
  /\ q.req = Len(reqs') /\ Len(reqs') = Len(reqs) + 1
  /\ q.req_time = now /\ now' = now

(* What one step may do to the list. *)
LEMMA ListStep ==
  ASSUME TypeOK, [Next]_vars
  PROVE  KeepsPlaces \/ \E qid \in 0..NQid - 1, q \in Query : AddsAtTail(qid, q)
<1>0. now \in Nat /\ Len(reqs) \in Nat /\ \A a \in Asks : a \in Ask /\ a.from \in Froms
  BY BoundAssumption, EnvAssumption DEF TypeOK, Ask, Froms
<1>1. ASSUME NEW r, NEW a \in Asks, Arrives(r, a)
      PROVE  r = Len(reqs') /\ Len(reqs') = Len(reqs) + 1
  BY <1>0, <1>1 DEF Arrives, TypeOK
<1>2. ASSUME NEW r \in Requests, NEW a \in Asks, Arrives(r, a), ~AnswersItself(a),
             NEW from \in Froms, NEW out, Forward(r, a, from, out), now' = now
      PROVE  KeepsPlaces \/ \E qid \in 0..NQid - 1, q \in Query : AddsAtTail(qid, q)
  <2>1. CASE NotForwarded(r, a, from, out)
    BY <1>0, <1>1, <1>2, <2>1 DEF NotForwarded, KeepsPlaces
  <2>2. ASSUME NEW qid \in 0..NQid - 1, NEW q \in Query,
               Forwarded(r, a, from, out, qid, q)
        PROVE  AddsAtTail(qid, q)
    BY <1>0, <1>1, <1>2, <2>2 DEF Forwarded, AddsAtTail
  <2> QED
    BY <1>0, <1>2, <2>1, <2>2, ForwardEffect
<1>3. ASSUME NEW r \in Requests, NEW a \in Asks, OnBadQuery(r, a) PROVE KeepsPlaces
  BY <1>0, <1>1, <1>3 DEF OnBadQuery, KeepsPlaces
<1>4. ASSUME NEW r \in Requests, NEW a \in Asks, OnQueryLocal(r, a) PROVE KeepsPlaces
  BY <1>0, <1>1, <1>4 DEF OnQueryLocal, KeepsPlaces
<1>5. ASSUME NEW r \in Requests, NEW a \in Asks, OnQueryHit(r, a)
      PROVE  KeepsPlaces \/ \E qid \in 0..NQid - 1, q \in Query : AddsAtTail(qid, q)
  <2> DEFINE out == send_reply(outbox, r, cache[<<a.name, a.qtype>>].msg,
                               a.from, a.bufsz)
  <2>1. Arrives(r, a) /\ ~AnswersItself(a) /\ now' = now
    BY <1>5 DEF OnQueryHit
  <2>2. CASE UNCHANGED <<query_list, last_qid, asked>>
    BY <1>0, <1>1, <2>1, <2>2 DEF KeepsPlaces
  <2>3. CASE Forward(r, a, RefreshFrom(a), out)
    <3>1. RefreshFrom(a) \in Froms
      BY DEF RefreshFrom, Froms
    <3> QED
      BY <1>2, <2>1, <2>3, <3>1
  <2> QED
    BY <1>5, <2>2, <2>3 DEF OnQueryHit
<1>6. ASSUME NEW r \in Requests, NEW a \in Asks, OnQueryMiss(r, a)
      PROVE  KeepsPlaces \/ \E qid \in 0..NQid - 1, q \in Query : AddsAtTail(qid, q)
  BY <1>0, <1>2, <1>6 DEF OnQueryMiss
<1>7. ASSUME NEW a \in asked, Matches(a)
      PROVE  a.qid \in DOMAIN query_list /\ query_list[a.qid] \in Query
             /\ UNCHANGED <<now, reqs>>
  BY <1>7 DEF Matches, TypeOK
<1>8. ASSUME NEW a, NEW q, NEW chosen, NEW res, EndQuery(a, q, chosen, res),
             UNCHANGED <<now, reqs>>
      PROVE  KeepsPlaces
  BY <1>0, <1>8 DEF EndQuery, KeepsPlaces, Without
<1>9. ASSUME NEW k \in DOMAIN query_list, NEW q, query_list' = Put(query_list, k, q),
             q.req = query_list[k].req, q.req_time = query_list[k].req_time,
             UNCHANGED <<now, reqs>>
      PROVE  KeepsPlaces
  BY <1>0, <1>9 DEF KeepsPlaces, Put
<1>10. ASSUME NEW a \in asked, IgnoreReply(a) PROVE KeepsPlaces
  BY <1>0, <1>10 DEF IgnoreReply, KeepsPlaces
<1>11. ASSUME NEW a \in asked, OnChinaReply(a) PROVE KeepsPlaces
  <2> DEFINE q == query_list[a.qid]
             p == [q EXCEPT !.verdict = "non_china"]
             res == IF q.verdict = "is_china" THEN {} ELSE {test_ip(a.msg)}
  <2>1. a.qid \in DOMAIN query_list /\ q \in Query /\ UNCHANGED <<now, reqs>>
    BY <1>7, <1>11 DEF OnChinaReply
  <2>2. p.req = q.req /\ p.req_time = q.req_time
    BY <2>1 DEF Query
  <2>3. (\E chosen : EndQuery(a, q, chosen, res)) \/ query_list' = Put(query_list, a.qid, p)
    BY <1>11 DEF OnChinaReply, RejectChina
  <2> QED
    BY <1>8, <1>9, <2>1, <2>2, <2>3
<1>12. ASSUME NEW a \in asked, OnTrustReply(a) PROVE KeepsPlaces
  <2> DEFINE q == query_list[a.qid]
             p == [q EXCEPT !.trust_msg = IF @ = {} THEN {a.msg} ELSE @]
  <2>1. a.qid \in DOMAIN query_list /\ q \in Query /\ UNCHANGED <<now, reqs>>
    BY <1>7, <1>12 DEF OnTrustReply
  <2>2. p.req = q.req /\ p.req_time = q.req_time
    BY <2>1 DEF Query
  <2>3. EndQuery(a, q, a.msg, {}) \/ query_list' = Put(query_list, a.qid, p)
    BY <1>12 DEF OnTrustReply
  <2> QED
    BY <1>8, <1>9, <2>1, <2>2, <2>3
<1>13. ASSUME NEW a \in asked, OnFirstReply(a) PROVE KeepsPlaces
  BY <1>7, <1>8, <1>13 DEF OnFirstReply
<1>14. ASSUME NEW d \in {0, 1}, LoopTop(d) PROVE KeepsPlaces
  BY <1>0, <1>14 DEF LoopTop, KeepsPlaces
<1>15. CASE ClockInBatch
  BY <1>0, <1>15 DEF ClockInBatch, KeepsPlaces
<1>16. CASE UNCHANGED vars
  BY <1>0, <1>16 DEF vars, KeepsPlaces
<1> QED
  BY <1>3, <1>4, <1>5, <1>6, <1>10, <1>11, <1>12, <1>13, <1>14, <1>15, <1>16
  DEF Next, ClientStep, UpstreamStep

(* The order of the deadlines is inductive. *)
LEMMA NextDeadlineOrder ==
  TypeOK /\ DeadlineOrderInv /\ [Next]_vars => DeadlineOrderInv'
<1> SUFFICES ASSUME TypeOK, DeadlineOrderInv, [Next]_vars PROVE DeadlineOrderInv'
  OBVIOUS
<1>0. /\ now \in Nat /\ now' \in Nat /\ Len(reqs) \in Nat /\ Len(reqs') \in Nat
      /\ \A i \in DOMAIN query_list : /\ query_list[i].req \in Nat
                                      /\ query_list[i].req_time \in Nat
  BY NextType DEF TypeOK, Query, Requests
<1>1. CASE KeepsPlaces
  BY <1>0, <1>1 DEF DeadlineOrderInv, KeepsPlaces
<1>2. ASSUME NEW qid \in 0..NQid - 1, NEW q \in Query, AddsAtTail(qid, q)
      PROVE  DeadlineOrderInv'
  <2>1. /\ DOMAIN query_list' = DOMAIN query_list \cup {qid}
        /\ query_list'[qid] = q
        /\ \A i \in DOMAIN query_list : query_list'[i] = query_list[i]
    BY <1>2 DEF AddsAtTail, Put
  <2> QED
    BY <1>0, <1>2, <2>1 DEF DeadlineOrderInv, AddsAtTail
<1> QED
  BY <1>1, <1>2, ListStep

(* check_timeout leaves no overdue query behind, however many there are and *)
(* wherever it stops (server.zig check_timeout).                            *)
THEOREM NoOverdueQueryStays == Spec => NoOverdueAfterCheck
<1>1. Init => DeadlineOrderInv
  BY DEF Init, DeadlineOrderInv
<1>2. TypeOK /\ DeadlineOrderInv /\ [Next]_vars => DeadlineOrderInv'
  BY NextDeadlineOrder
<1>3. TypeOK /\ DeadlineOrderInv /\ [Next]_vars
        => [\A d \in {0, 1} : LoopTop(d) =>
              \A i \in DOMAIN query_list' : now' < query_list'[i].req_time + Timeout]_vars
  <2> SUFFICES ASSUME TypeOK, DeadlineOrderInv, NEW d \in {0, 1}, LoopTop(d),
                      NEW i \in DOMAIN query_list'
               PROVE  now' < query_list'[i].req_time + Timeout
    OBVIOUS
  <2>1. /\ i \in DOMAIN query_list /\ query_list'[i] = query_list[i]
        /\ i \notin Expired(now + d) /\ now' = now + d
    BY DEF LoopTop
  <2>2. PICK j \in DOMAIN query_list :
          /\ query_list[j].req <= query_list[i].req
          /\ ~(now + d >= query_list[j].req_time + Timeout)
    BY <2>1 DEF Expired
  <2>3. query_list[j].req_time <= query_list[i].req_time
    BY <2>1, <2>2 DEF DeadlineOrderInv
  <2>4. /\ now \in Nat /\ Timeout \in Nat /\ query_list[i].req_time \in Nat
        /\ query_list[j].req_time \in Nat
    BY <2>1, BoundAssumption DEF TypeOK, Query
  <2> QED
    BY <2>1, <2>2, <2>3, <2>4
<1> QED
  BY <1>1, <1>2, <1>3, TypeCorrect, PTL DEF Spec, NoOverdueAfterCheck

-----------------------------------------------------------------------------
(* The verdict cache fits *)

(* The size of the map as an inductive invariant: a cardinality says        *)
(* something only of a finite set.                                          *)
FitsIn(vc) == /\ IsFiniteSet(DOMAIN vc)
              /\ Cardinality(DOMAIN vc) <= VerdictCacheSize

(* verdict_add of a map that fits: the map as it is if its size is 0, or    *)
(* with the name in it, and then without another one if the map was full.   *)
LEMMA VerdictAddResults ==
  ASSUME NEW vc, FitsIn(vc), NEW name, NEW b, NEW w \in verdict_add(vc, name, b)
  PROVE  \/ VerdictCacheSize = 0 /\ w = vc
         \/ name \in DOMAIN vc /\ w = Put(vc, name, b)
         \/ /\ Cardinality(DOMAIN vc) + 1 <= VerdictCacheSize
            /\ name \notin DOMAIN vc /\ w = Put(vc, name, b)
         \/ /\ ~(Cardinality(DOMAIN vc) < VerdictCacheSize)
            /\ name \notin DOMAIN vc
            /\ \E old \in DOMAIN vc : w = Without(Put(vc, name, b), old)
<1> DEFINE put == Put(vc, name, b)
<1>1. VerdictCacheSize \in Nat /\ IsFiniteSet(DOMAIN vc) /\ Cardinality(DOMAIN vc) \in Nat
  BY VerdictCacheSizeAssumption, FS_CardinalityType DEF FitsIn
<1>2. DOMAIN put = DOMAIN vc \cup {name}
  BY DEF Put
<1>3. \/ VerdictCacheSize = 0 /\ w = vc
      \/ name \in DOMAIN vc /\ w = put
      \/ /\ name \notin DOMAIN vc /\ ~(Cardinality(DOMAIN put) > VerdictCacheSize)
         /\ w = put
      \/ /\ name \notin DOMAIN vc /\ Cardinality(DOMAIN put) > VerdictCacheSize
         /\ \E old \in DOMAIN put \ {name} : w = Without(put, old)
  BY DEF verdict_add, new_key
<1> HIDE DEF put
<1>4. name \notin DOMAIN vc => Cardinality(DOMAIN put) = Cardinality(DOMAIN vc) + 1
  BY <1>1, <1>2, FS_AddElement
<1>5. \A old \in DOMAIN put \ {name} : old \in DOMAIN vc
  BY <1>2
<1>6. CASE /\ name \notin DOMAIN vc /\ ~(Cardinality(DOMAIN put) > VerdictCacheSize)
           /\ w = put
  <2>1. Cardinality(DOMAIN vc) + 1 <= VerdictCacheSize
    BY <1>1, <1>4, <1>6
  <2> QED
    BY <1>6, <2>1 DEF put
<1>7. CASE /\ name \notin DOMAIN vc /\ Cardinality(DOMAIN put) > VerdictCacheSize
           /\ \E old \in DOMAIN put \ {name} : w = Without(put, old)
  <2>1. ~(Cardinality(DOMAIN vc) < VerdictCacheSize)
    BY <1>1, <1>4, <1>7
  <2>2. \E old \in DOMAIN vc : w = Without(put, old)
    BY <1>5, <1>7
  <2> QED
    BY <1>7, <2>1, <2>2 DEF put
<1> QED
  BY <1>3, <1>6, <1>7 DEF put

(* new_key and add store the verdict, whichever entry is freed.             *)
LEMMA VerdictAddStores ==
  ASSUME NEW vc, FitsIn(vc), NEW name, NEW b, NEW w \in verdict_add(vc, name, b),
         VerdictCacheSize > 0
  PROVE  Stored(vc, w, name, b)
<1> DEFINE others == DOMAIN vc \ {name}
           kept == others \cap DOMAIN w
<1>0. VerdictCacheSize \in Nat /\ VerdictCacheSize # 0 /\ Cardinality({}) = 0
  BY VerdictCacheSizeAssumption, FS_EmptySet
<1>1. CASE w = Put(vc, name, b)
  <2>1. /\ name \in DOMAIN w /\ w[name] = b /\ others \subseteq DOMAIN w
        /\ \A x \in others : w[x] = vc[x]
    BY <1>1 DEF Put
  <2>2. kept = others /\ others \ kept = {}
    BY <2>1
  <2>3. Cardinality(others \ kept) <= 1
    BY <1>0, <2>2
  <2> HIDE DEF others, kept
  <2>4. \A x \in kept : w[x] = vc[x]
    BY <2>1, <2>2
  <2> QED
    BY <2>1, <2>2, <2>3, <2>4 DEF Stored, others, kept
<1>2. ASSUME NEW old \in DOMAIN vc, name \notin DOMAIN vc,
             ~(Cardinality(DOMAIN vc) < VerdictCacheSize),
             w = Without(Put(vc, name, b), old)
      PROVE  Stored(vc, w, name, b)
  <2>1. /\ name \in DOMAIN w /\ w[name] = b /\ DOMAIN w = (DOMAIN vc \cup {name}) \ {old}
        /\ \A x \in others : x # old => w[x] = vc[x]
    BY <1>2 DEF Put, Without
  <2>2. kept = others \ {old} /\ others \ kept = {old}
    BY <1>2, <2>1
  <2>3. Cardinality(others \ kept) <= 1
    <3>1. Cardinality({old}) = 1
      BY FS_Singleton
    <3> QED
      BY <2>2, <3>1
  <2> HIDE DEF others, kept
  <2>4. \A x \in kept : w[x] = vc[x]
    BY <2>1, <2>2
  <2> QED
    BY <1>2, <2>1, <2>3, <2>4 DEF Stored, others, kept
<1> QED
  BY <1>0, <1>1, <1>2, VerdictAddResults

(* new_key and add leave at most VerdictCacheSize entries, whichever entry  *)
(* is freed.                                                                *)
LEMMA VerdictAddFits ==
  ASSUME NEW vc, FitsIn(vc), NEW name, NEW b, NEW w \in verdict_add(vc, name, b)
  PROVE  FitsIn(w)
<1>0. /\ VerdictCacheSize \in Nat /\ IsFiniteSet(DOMAIN vc)
      /\ Cardinality(DOMAIN vc) \in Nat /\ Cardinality(DOMAIN vc) <= VerdictCacheSize
  BY VerdictCacheSizeAssumption, FS_CardinalityType DEF FitsIn
<1>1. CASE w = vc
  BY <1>1
<1>2. CASE name \in DOMAIN vc /\ w = Put(vc, name, b)
  <2>1. DOMAIN w = DOMAIN vc
    BY <1>2 DEF Put
  <2> QED
    BY <1>0, <2>1 DEF FitsIn
<1>3. CASE /\ Cardinality(DOMAIN vc) + 1 <= VerdictCacheSize
           /\ name \notin DOMAIN vc /\ w = Put(vc, name, b)
  <2>1. DOMAIN w = DOMAIN vc \cup {name}
    BY <1>3 DEF Put
  <2>2. /\ IsFiniteSet(DOMAIN vc \cup {name})
        /\ Cardinality(DOMAIN vc \cup {name}) = Cardinality(DOMAIN vc) + 1
    BY <1>0, <1>3, FS_AddElement
  <2> QED
    BY <1>0, <1>3, <2>1, <2>2 DEF FitsIn
<1>4. ASSUME NEW old \in DOMAIN vc, name \notin DOMAIN vc,
             w = Without(Put(vc, name, b), old)
      PROVE  FitsIn(w)
  <2>1. DOMAIN w = (DOMAIN vc \ {old}) \cup {name}
    BY <1>4 DEF Put, Without
  <2>2. /\ IsFiniteSet(DOMAIN vc \ {old})
        /\ Cardinality(DOMAIN vc \ {old}) = Cardinality(DOMAIN vc) - 1
    BY <1>0, FS_RemoveElement
  <2>3. /\ IsFiniteSet((DOMAIN vc \ {old}) \cup {name})
        /\ Cardinality((DOMAIN vc \ {old}) \cup {name}) = Cardinality(DOMAIN vc \ {old}) + 1
    BY <1>4, <2>2, FS_AddElement
  <2> QED
    BY <1>0, <2>1, <2>2, <2>3 DEF FitsIn
<1> QED
  BY <1>1, <1>2, <1>3, <1>4, VerdictAddResults

(* The verdict cache never outgrows its size, also when that is 0 or 1, and *)
(* the verdict of a china reply is in it after the reply: new_key makes     *)
(* room by freeing one other name (verdict_cache.zig).                      *)
THEOREM VerdictCacheFits == Spec => VerdictsFit
<1>1. Init => FitsIn(verdict)
  <2>1. Init => DOMAIN verdict = {}
    BY DEF Init
  <2> QED
    BY <2>1, FS_EmptySet, VerdictCacheSizeAssumption DEF FitsIn
<1>2. FitsIn(verdict) /\ [Next]_vars => FitsIn(verdict)'
  <2> SUFFICES ASSUME FitsIn(verdict), [Next]_vars PROVE FitsIn(verdict')
    BY DEF FitsIn
  <2>1. \/ UNCHANGED verdict
        \/ \E a \in asked : verdict' \in verdict_add(verdict, a.msg.name,
                                                     test_ip(a.msg) = "is_china_ip")
    BY DEF Next, vars, ClientStep, UpstreamStep, OnBadQuery, OnQueryLocal, OnQueryHit,
           OnQueryMiss, IgnoreReply, OnChinaReply, OnTrustReply, OnFirstReply,
           LoopTop, ClockInBatch
  <2> QED
    BY <2>1, VerdictAddFits
<1>3. FitsIn(verdict) /\ FitsIn(verdict)'
        => [/\ Cardinality(DOMAIN verdict') <= VerdictCacheSize
            /\ \A a \in asked :
                 /\ OnChinaReply(a) /\ HasVerdict(a.msg) /\ VerdictCacheSize > 0
                 /\ query_list[a.qid].verdict # "is_china"
                 => Stored(verdict, verdict', a.msg.name, test_ip(a.msg) = "is_china_ip")]_vars
  <2> SUFFICES ASSUME FitsIn(verdict), FitsIn(verdict')
               PROVE  /\ Cardinality(DOMAIN verdict') <= VerdictCacheSize
                      /\ \A a \in asked :
                           /\ OnChinaReply(a) /\ HasVerdict(a.msg) /\ VerdictCacheSize > 0
                           /\ query_list[a.qid].verdict # "is_china"
                           => Stored(verdict, verdict', a.msg.name,
                                     test_ip(a.msg) = "is_china_ip")
    BY DEF FitsIn
  <2>1. ASSUME NEW a \in asked, OnChinaReply(a), HasVerdict(a.msg), VerdictCacheSize > 0,
               query_list[a.qid].verdict # "is_china"
        PROVE  Stored(verdict, verdict', a.msg.name, test_ip(a.msg) = "is_china_ip")
    <3>1. verdict' \in verdict_add(verdict, a.msg.name, test_ip(a.msg) = "is_china_ip")
      BY <2>1 DEF OnChinaReply
    <3> QED
      BY <2>1, <3>1, VerdictAddStores
  <2> QED
    BY <2>1 DEF FitsIn
<1> QED
  BY <1>1, <1>2, <1>3, PTL DEF Spec, VerdictsFit

-----------------------------------------------------------------------------
(* No query vanishes *)

\* request r is a client's query that this step takes from the list or, when
\* it has just arrived, does not put there
Leaves(r) == (Pending(r) \/ r > Len(reqs)) /\ ~Pending(r)'

\* what may become of it
Accounted(r) == \/ Len(outbox'[r]) = 1
                \/ TimedOut(r)
                \/ r > Len(reqs) /\ (ListFull \/ NoFreeQid)

\* the queries of the list are still there
KeepsQueries ==
  \A i \in DOMAIN query_list : /\ i \in DOMAIN query_list'
                               /\ query_list'[i].req = query_list[i].req
                               /\ query_list'[i].from = query_list[i].from

(* A query that stays in the list is still pending. *)
LEMMA KeptIsPending ==
  ASSUME KeepsQueries, NEW r, Pending(r)
  PROVE  Pending(r)'
BY DEF KeepsQueries, Pending

(* What the second half of on_query does for the query it is called for.    *)
LEMMA ForwardFate ==
  ASSUME NEW r, NEW a, NEW from, NEW out, Forward(r, a, from, out)
  PROVE  \/ ListFull \/ NoFreeQid
         \/ outbox' = NobodyReached(r, a, from, out)
         \/ /\ outbox' = out
            /\ \E i \in DOMAIN query_list' : /\ query_list'[i].req = r
                                             /\ query_list'[i].from = from
<1>1. \/ ListFull \/ NoFreeQid
      \/ outbox' = NobodyReached(r, a, from, out)
      \/ \E qid, v, tf : /\ outbox' = out
                         /\ query_list' = Put(query_list, qid, NewQuery(r, a, from, v, tf))
  BY Zenon DEF Forward
<1>2. ASSUME NEW qid, NEW v, NEW tf,
             query_list' = Put(query_list, qid, NewQuery(r, a, from, v, tf))
      PROVE  \E i \in DOMAIN query_list' : /\ query_list'[i].req = r
                                           /\ query_list'[i].from = from
  BY <1>2 DEF Put, NewQuery
<1> QED
  BY <1>1, <1>2

(* A query that arrives is answered, refused for want of an id, or pending. *)
LEMMA ArrivalIsAccountedFor ==
  ASSUME TypeOK, OneAnswerInv, NEW r \in Requests, NEW a \in Ask, Arrives(r, a),
         KeepsQueries, NEW s \in 1..Len(reqs'), Leaves(s),
         \/ SentOne(outbox, outbox', r)
         \/ ListFull \/ NoFreeQid
         \/ \E i \in DOMAIN query_list' : /\ query_list'[i].req = r
                                          /\ query_list'[i].from # "local"
  PROVE  Accounted(s)
<1>1. r = Len(reqs) + 1 /\ Len(reqs') = Len(reqs) + 1 /\ Len(reqs) \in Nat
  BY DEF TypeOK, Arrives
<1>2. s = r
  BY <1>1, KeptIsPending DEF Leaves
<1>3. CASE SentOne(outbox, outbox', r)
  <2>1. outbox[r] = <<>>
    BY <1>1 DEF OneAnswerInv
  <2>2. PICK m \in Msg : outbox'[r] = Append(outbox[r], m)
    BY <1>3 DEF SentOne
  <2> QED
    BY <1>2, <2>1, <2>2 DEF Accounted
<1>4. CASE ListFull \/ NoFreeQid
  BY <1>1, <1>2, <1>4 DEF Accounted
<1>5. CASE \E i \in DOMAIN query_list' : /\ query_list'[i].req = r
                                         /\ query_list'[i].from # "local"
  BY <1>2, <1>5 DEF Leaves, Pending
<1> QED
  BY <1>3, <1>4, <1>5

(* The end of a query: its client, if any, gets one message. *)
LEMMA EndIsAccountedFor ==
  ASSUME TypeOK, OneAnswerInv, NEW a, NEW chosen \in Msg, NEW res,
         a.qid \in DOMAIN query_list, EndQuery(a, query_list[a.qid], chosen, res),
         UNCHANGED reqs, NEW r \in 1..Len(reqs'), Leaves(r)
  PROVE  Accounted(r)
<1> DEFINE q == query_list[a.qid]
<1>1. q \in Query /\ q.req \in Requests
  BY DEF TypeOK, Query
<1>2. PICK m : Ended(a, q, chosen, m)
  BY EndQueryEffect
<1>3. m \in Msg
  BY <1>2, RewriteType DEF Ended
<1>4. PICK i \in DOMAIN query_list : query_list[i].req = r /\ query_list[i].from # "local"
  BY DEF Leaves, Pending, TypeOK
<1>5. i = a.qid
  <2> SUFFICES ASSUME i # a.qid PROVE FALSE
    OBVIOUS
  <2>1. i \in DOMAIN query_list' /\ query_list'[i] = query_list[i]
    BY <1>2 DEF Ended, Without
  <2> QED
    BY <1>4, <2>1 DEF Leaves, Pending
<1>6. outbox[r] = <<>> /\ SentOne(outbox, outbox', r)
  BY <1>1, <1>2, <1>3, <1>4, <1>5, SendReplySendsOne DEF Ended, OneAnswerInv, TypeOK
<1>7. PICK n \in Msg : outbox'[r] = Append(outbox[r], n)
  BY <1>6 DEF SentOne
<1> QED
  BY <1>6, <1>7 DEF Accounted

(* check_timeout takes only queries whose deadline has passed. *)
LEMMA TimeoutIsAccountedFor ==
  ASSUME TypeOK, NEW d \in {0, 1}, LoopTop(d), NEW r \in 1..Len(reqs'), Leaves(r)
  PROVE  Accounted(r)
<1>1. PICK i \in DOMAIN query_list : query_list[i].req = r /\ query_list[i].from # "local"
  BY DEF Leaves, Pending, TypeOK, LoopTop
<1>2. i \notin DOMAIN query_list'
  BY <1>1 DEF Leaves, Pending, LoopTop
<1>3. i \in Expired(now + d) /\ now' = now + d
  BY <1>1, <1>2 DEF LoopTop
<1>4. query_list[i].req \in Nat
  BY DEF TypeOK, Query, Requests
<1>5. now' >= query_list[i].req_time + Timeout
  BY <1>3, <1>4 DEF Expired
<1> QED
  BY <1>1, <1>5 DEF Accounted, TimedOut

(* Every handler accounts for the queries it takes from the list, and for   *)
(* the one that it was called with.                                         *)
LEMMA StepAccounts ==
  ASSUME TypeOK, OneAnswerInv, [Next]_vars, NEW s \in 1..Len(reqs'), Leaves(s)
  PROVE  Accounted(s)
<1>0. /\ outbox \in [Requests -> Seq(Msg)] /\ Len(reqs) \in Nat
      /\ \A a \in Asks : a \in Ask /\ a.from \in Froms /\ a.from # "local"
  BY EnvAssumption DEF TypeOK, Ask, Froms
<1>1. ASSUME NEW r \in Requests, NEW a \in Asks, OnBadQuery(r, a) PROVE Accounted(s)
  <2>1. SentOne(outbox, outbox', r)
    BY <1>0, <1>1, OwnMsgType DEF OnBadQuery, SentOne
  <2> QED
    BY <1>0, <1>1, <2>1, ArrivalIsAccountedFor DEF OnBadQuery, KeepsQueries
<1>2. ASSUME NEW r \in Requests, NEW a \in Asks, OnQueryLocal(r, a) PROVE Accounted(s)
  <2>1. SentOne(outbox, outbox', r)
    BY <1>0, <1>2, OwnMsgType, SendReplySendsOne DEF OnQueryLocal
  <2> QED
    BY <1>0, <1>2, <2>1, ArrivalIsAccountedFor DEF OnQueryLocal, KeepsQueries
<1>3. ASSUME NEW r \in Requests, NEW a \in Ask, ~AnswersItself(a), NEW from \in Froms,
             NEW out, Forward(r, a, from, out)
      PROVE  KeepsQueries
  <2>1. CASE NotForwarded(r, a, from, out)
    BY <2>1 DEF NotForwarded, KeepsQueries
  <2>2. ASSUME NEW qid \in 0..NQid - 1, NEW q \in Query,
               Forwarded(r, a, from, out, qid, q)
        PROVE  KeepsQueries
    BY <2>2 DEF Forwarded, KeepsQueries, Put
  <2> QED
    BY <1>3, <2>1, <2>2, ForwardEffect
<1>4. ASSUME NEW r \in Requests, NEW a \in Asks, OnQueryHit(r, a) PROVE Accounted(s)
  <2> DEFINE m == cache[<<a.name, a.qtype>>].msg
             out == send_reply(outbox, r, m, a.from, a.bufsz)
  <2>1. Arrives(r, a) /\ ~AnswersItself(a) /\ m \in Msg
    BY <1>4 DEF OnQueryHit, TypeOK
  <2>2. SentOne(outbox, out, r)
    BY <1>0, <2>1, SendReplySendsOne
  <2>3. CASE outbox' = out /\ UNCHANGED <<query_list, last_qid, asked>>
    BY <1>0, <2>1, <2>2, <2>3, ArrivalIsAccountedFor DEF KeepsQueries
  <2>4. CASE Forward(r, a, RefreshFrom(a), out)
    <3>1. RefreshFrom(a) = "local" /\ RefreshFrom(a) \in Froms
      BY DEF RefreshFrom, Froms
    <3>2. KeepsQueries
      BY <1>0, <1>3, <2>1, <2>4, <3>1
    <3>3. ListFull \/ NoFreeQid \/ outbox' = out
      BY <2>4, <3>1, ForwardFate DEF NobodyReached
    <3> QED
      BY <1>0, <2>1, <2>2, <3>2, <3>3, ArrivalIsAccountedFor
  <2> QED
    BY <1>4, <2>3, <2>4 DEF OnQueryHit
<1>5. ASSUME NEW r \in Requests, NEW a \in Asks, OnQueryMiss(r, a) PROVE Accounted(s)
  <2>1. Arrives(r, a) /\ ~AnswersItself(a) /\ Forward(r, a, a.from, outbox)
    BY <1>5 DEF OnQueryMiss
  <2>2. KeepsQueries
    BY <1>0, <1>3, <2>1
  <2>3. servfail_reply(QueryMsg(a)) \in Msg
    BY <1>0, OwnMsgType, RewriteType
  <2>4. SentOne(outbox, NobodyReached(r, a, a.from, outbox), r)
    BY <1>0, <2>3, SendReplySendsOne DEF NobodyReached
  <2>5. \/ SentOne(outbox, outbox', r)
        \/ ListFull \/ NoFreeQid
        \/ \E i \in DOMAIN query_list' : /\ query_list'[i].req = r
                                         /\ query_list'[i].from = a.from
    BY <2>1, <2>4, ForwardFate
  <2> QED
    BY <1>0, <2>1, <2>2, <2>5, ArrivalIsAccountedFor
<1>6. ASSUME UNCHANGED reqs, KeepsQueries PROVE Accounted(s)
  BY <1>0, <1>6, KeptIsPending DEF Leaves
<1>7. ASSUME NEW a \in asked, Matches(a)
      PROVE  /\ a.qid \in DOMAIN query_list /\ UNCHANGED reqs
             /\ query_list[a.qid] \in Query /\ a.msg \in Msg
  BY <1>7 DEF Matches, TypeOK, Reply
<1>8. ASSUME NEW k \in DOMAIN query_list, NEW q, query_list' = Put(query_list, k, q),
             q.req = query_list[k].req, q.from = query_list[k].from, UNCHANGED reqs
      PROVE  Accounted(s)
  <2>1. KeepsQueries
    BY <1>8 DEF KeepsQueries, Put
  <2> QED
    BY <1>6, <1>8, <2>1
<1>9. ASSUME NEW a \in asked, OnChinaReply(a) PROVE Accounted(s)
  <2> DEFINE q == query_list[a.qid]
             p == [q EXCEPT !.verdict = "non_china"]
             res == IF q.verdict = "is_china" THEN {} ELSE {test_ip(a.msg)}
  <2>1. a.qid \in DOMAIN query_list /\ UNCHANGED reqs /\ q \in Query /\ a.msg \in Msg
    BY <1>7, <1>9 DEF OnChinaReply
  <2>2. p.req = q.req /\ p.from = q.from
    BY <2>1 DEF Query
  <2>3. servfail_reply(a.msg) \in Msg /\ q.trust_msg \subseteq Msg
    BY <2>1, RewriteType DEF Query
  <2>4. \/ \E chosen \in Msg : EndQuery(a, q, chosen, res)
        \/ query_list' = Put(query_list, a.qid, p)
    BY <1>9, <2>1, <2>3 DEF OnChinaReply, RejectChina
  <2> QED
    BY <1>8, <2>1, <2>2, <2>4, EndIsAccountedFor
<1>10. ASSUME NEW a \in asked, OnTrustReply(a) PROVE Accounted(s)
  <2> DEFINE q == query_list[a.qid]
             p == [q EXCEPT !.trust_msg = IF @ = {} THEN {a.msg} ELSE @]
  <2>1. a.qid \in DOMAIN query_list /\ UNCHANGED reqs /\ q \in Query /\ a.msg \in Msg
    BY <1>7, <1>10 DEF OnTrustReply
  <2>2. p.req = q.req /\ p.from = q.from
    BY <2>1 DEF Query
  <2>3. EndQuery(a, q, a.msg, {}) \/ query_list' = Put(query_list, a.qid, p)
    BY <1>10 DEF OnTrustReply
  <2> QED
    BY <1>8, <2>1, <2>2, <2>3, EndIsAccountedFor
<1>11. ASSUME NEW a \in asked, OnFirstReply(a) PROVE Accounted(s)
  BY <1>7, <1>11, EndIsAccountedFor DEF OnFirstReply
<1>12. ASSUME NEW a \in asked, IgnoreReply(a) PROVE Accounted(s)
  BY <1>6, <1>12 DEF IgnoreReply, KeepsQueries
<1>13. CASE ClockInBatch
  BY <1>6, <1>13 DEF ClockInBatch, KeepsQueries
<1>14. CASE UNCHANGED vars
  BY <1>6, <1>14 DEF vars, KeepsQueries
<1> QED
  BY <1>1, <1>2, <1>4, <1>5, <1>9, <1>10, <1>11, <1>12, <1>13, <1>14,
     TimeoutIsAccountedFor
  DEF Next, ClientStep, UpstreamStep

(* A client's query never vanishes: the step that takes it from the list    *)
(* sends its answer or finds its deadline passed, and a query that does not *)
(* get into the list was answered at once or met a list without a free id   *)
(* (on_query, on_reply, check_timeout, List.add, List.del).                 *)
THEOREM NoQueryVanishes == Spec => NoSilentLoss
<1>1. Init => OneAnswerInv
  BY DEF Init, OneAnswerInv
<1>2. TypeOK /\ OneAnswerInv /\ [Next]_vars => OneAnswerInv'
  BY NextOneAnswer
<1>3. TypeOK /\ OneAnswerInv /\ [Next]_vars
        => [\A r \in 1..Len(reqs') :
              /\ Pending(r) \/ r > Len(reqs)
              /\ ~Pending(r)'
              => \/ Len(outbox'[r]) = 1
                 \/ TimedOut(r)
                 \/ r > Len(reqs) /\ (ListFull \/ NoFreeQid)]_vars
  BY StepAccounts DEF Leaves, Accounted
<1> QED
  BY <1>1, <1>2, <1>3, TypeCorrect, PTL DEF Spec, NoSilentLoss

-----------------------------------------------------------------------------
(* What clients are told: the invariant *)

\* the question of request r among the requests R
AskedBy(R, r) == <<R[r].name, R[r].qtype>>

(* Ids are given out once: a reply belongs to the query that has its id.    *)
FreshIdInv ==
  /\ last_qid <= Len(reqs)
  /\ \A i \in DOMAIN query_list :
       /\ i <= last_qid /\ query_list[i].req <= Len(reqs)
       /\ query_list[i].tag = TagOf[reqs[query_list[i].req].name]
  /\ \A x \in asked : /\ x.qid <= last_qid /\ x.req <= Len(reqs)
                      /\ x.msg.by = x.grp /\ question(x.msg) = AskedBy(reqs, x.req)
  /\ \A x \in asked, i \in DOMAIN query_list : x.qid = i => x.req = query_list[i].req

\* the replies S hold an address of the given kind from the china group
Evidence(S, n, kind) ==
  \E e \in S : /\ e.grp = "chn" /\ e.msg.name = n /\ TagOf[n] = "none"
              /\ test_ip(e.msg) = kind

\* the replies S hold one of the china group that was rejected
Rejected(S, n) ==
  \E e \in S : e.grp = "chn" /\ e.msg.name = n /\ ~use_china_reply(e.msg)

\* as far as the replies S tell, m is no polluted answer
Unpolluted(m, S) ==
  /\ TagOf[m.name] = "none" /\ is_A_AAAA(m.qtype) /\ m.by = "chn"
  /\ test_ip(m) = "non_china_ip"
  => Evidence(S, m.name, "is_china_ip")

\* as far as the replies S tell, m is no answer of the trust group that went
\* past the china group
Waited(m, S) ==
  TagOf[m.name] = "none" /\ is_A_AAAA(m.qtype) /\ m.by = "gfw" => Rejected(S, m.name)

\* m may be served: it answers a question of the db file, or it is both
Clean(m, S) ==
  \/ question(m) \in DOMAIN DbCache
  \/ Unpolluted(m, S) /\ Waited(m, S)

(* What was sent answers the question and is not polluted. *)
OutboxFine ==
  \A r \in 1..Len(reqs) : \A i \in DOMAIN outbox[r] :
    question(outbox[r][i]) = AskedBy(reqs, r) /\ Clean(outbox[r][i], seen)

(* So does what is cached. *)
CacheFine ==
  \A k \in DOMAIN cache : question(cache[k].msg) = k /\ Clean(cache[k].msg, seen)

(* What waits for a verdict comes from the trust group, a verdict that lets *)
(* china replies through unchecked rests on a china address, and one that   *)
(* lets the trust group answer rests on a rejected china reply.             *)
QueriesFine ==
  \A i \in DOMAIN query_list :
    /\ \A m \in query_list[i].trust_msg :
         question(m) = AskedBy(reqs, query_list[i].req) /\ m.by = "gfw"
    /\ query_list[i].verdict = "is_china"
         => Evidence(seen, reqs[query_list[i].req].name, "is_china_ip")
    /\ query_list[i].verdict = "non_china"
         => Rejected(seen, reqs[query_list[i].req].name)

AnswerInv == OutboxFine /\ CacheFine /\ QueriesFine /\ VerdictFromEvidence

-----------------------------------------------------------------------------
(* Fresh ids *)

(* While the ids have not wrapped, the first candidate is free. *)
LEMMA FirstQidIsFree ==
  ASSUME MaxReq < NQid, TypeOK, FreshIdInv, Len(reqs) < MaxReq
  PROVE  /\ Qid(1) = last_qid + 1
         /\ Qid(1) \notin DOMAIN query_list
         /\ \A i \in 1..QidTries : FreeQid(i) => i = 1
         /\ ~NoFreeQid
<1>1. /\ last_qid \in Nat /\ NQid \in Nat \ {0} /\ QidTries \in Nat \ {0}
      /\ Len(reqs) \in Nat /\ MaxReq \in Nat
      /\ last_qid + 1 < NQid
  BY BoundAssumption DEF TypeOK, FreshIdInv
<1>2. Qid(1) = last_qid + 1
  BY <1>1 DEF Qid
<1>3. Qid(1) \notin DOMAIN query_list
  <2>1. \A i \in DOMAIN query_list : i \in Nat /\ i <= last_qid
    BY <1>1 DEF TypeOK, FreshIdInv
  <2> QED
    BY <1>1, <1>2, <2>1
<1>4. \A i \in 1..QidTries : FreeQid(i) => i = 1
  <2> SUFFICES ASSUME NEW i \in 1..QidTries, FreeQid(i), i # 1 PROVE FALSE
    OBVIOUS
  <2>1. 1 \in 1..(i - 1)
    BY <1>1
  <2> QED
    BY <1>3, <2>1 DEF FreeQid
<1>5. ~NoFreeQid
  BY <1>1, <1>3 DEF NoFreeQid
<1> QED
  BY <1>2, <1>3, <1>4, <1>5

(* Forward takes the next id, or none. *)
LEMMA ForwardQid ==
  ASSUME MaxReq < NQid, TypeOK, FreshIdInv, Len(reqs) < MaxReq,
         NEW r, NEW a, NEW from, NEW out, Forward(r, a, from, out)
  PROVE  /\ last_qid' \in {last_qid, last_qid + 1}
         /\ query_list' # query_list => last_qid' = last_qid + 1
<1>1. \/ /\ ListFull \/ NoFreeQid
         /\ last_qid' = IF ListFull THEN last_qid ELSE AdvanceQid(QidTries)
         /\ UNCHANGED query_list
      \/ \E i \in 1..QidTries : FreeQid(i) /\ last_qid' = AdvanceQid(i)
  BY DEF Forward
<1> QED
  BY <1>1, FirstQidIsFree DEF AdvanceQid

\* the queries that are left are the ones that were there
KeepsOwners ==
  /\ DOMAIN query_list' \subseteq DOMAIN query_list
  /\ \A i \in DOMAIN query_list' : /\ query_list'[i].req = query_list[i].req
                                   /\ query_list'[i].tag = query_list[i].tag
  /\ UNCHANGED <<asked, reqs, last_qid>>

(* Losing queries does not make an id ambiguous. *)
LEMMA KeepsOwnersFresh ==
  ASSUME TypeOK, FreshIdInv, KeepsOwners
  PROVE  FreshIdInv'
BY DEF FreshIdInv, KeepsOwners, AskedBy

(* An arrival leaves the earlier requests as they were. *)
LEMMA ArrivesKeeps ==
  ASSUME TypeOK, NEW r \in Requests, NEW a \in Ask, Arrives(r, a)
  PROVE  /\ r = Len(reqs) + 1 /\ Len(reqs') = Len(reqs) + 1 /\ Len(reqs) \in Nat
         /\ Len(reqs) < MaxReq /\ reqs'[r] = a
         /\ \A s \in 1..Len(reqs) : reqs'[s] = reqs[s]
BY DEF TypeOK, Arrives

(* An arrival that is not forwarded takes no id away from anybody. *)
LEMMA ArriveUnlistedFresh ==
  ASSUME TypeOK, FreshIdInv, NEW r \in Requests, NEW a \in Ask, Arrives(r, a),
         UNCHANGED <<query_list, asked>>, last_qid' \in {last_qid, last_qid + 1}
  PROVE  FreshIdInv'
<1>1. /\ r = Len(reqs) + 1 /\ Len(reqs') = Len(reqs) + 1 /\ Len(reqs) \in Nat
      /\ \A s \in 1..Len(reqs) : reqs'[s] = reqs[s]
  BY ArrivesKeeps
<1>2. last_qid \in Nat /\ \A i \in DOMAIN query_list : i \in Nat
  BY DEF TypeOK
<1>3. /\ \A i \in DOMAIN query_list : query_list[i].req \in 1..Len(reqs)
      /\ \A x \in asked : x.req \in 1..Len(reqs) /\ x.qid \in Nat
  BY <1>1 DEF TypeOK, FreshIdInv, Query, Reply, Requests
<1> QED
  BY <1>1, <1>2, <1>3 DEF FreshIdInv, AskedBy

(* A query that enters the list is the only one with its id, and so are the *)
(* replies to it.                                                           *)
LEMMA ArriveListedFresh ==
  ASSUME TypeOK, FreshIdInv, NEW r \in Requests, NEW a \in Ask, Arrives(r, a),
         NEW from, NEW out, NEW qid \in 0..NQid - 1, NEW q \in Query,
         Forwarded(r, a, from, out, qid, q), last_qid' = last_qid + 1
  PROVE  FreshIdInv'
<1>1. /\ r = Len(reqs) + 1 /\ Len(reqs') = Len(reqs) + 1 /\ Len(reqs) \in Nat
      /\ reqs'[r] = a
      /\ \A s \in 1..Len(reqs) : reqs'[s] = reqs[s]
  BY ArrivesKeeps
<1>2. /\ last_qid \in Nat /\ qid = last_qid + 1 /\ last_qid' = qid
      /\ \A i \in DOMAIN query_list : i \in Nat
  BY DEF TypeOK, Forwarded
<1>3. /\ \A i \in DOMAIN query_list : query_list[i].req \in 1..Len(reqs)
      /\ \A x \in asked : x.req \in 1..Len(reqs) /\ x.qid \in Nat
  BY <1>1 DEF TypeOK, FreshIdInv, Query, Reply, Requests
<1>4. /\ DOMAIN query_list' = DOMAIN query_list \cup {qid}
      /\ query_list'[qid] = q /\ q.req = r /\ q.tag = TagOf[a.name]
      /\ \A i \in DOMAIN query_list : query_list'[i] = query_list[i]
  BY DEF Forwarded, Put
<1>5. \A x \in asked' : \/ x \in asked
                        \/ /\ x.qid = qid /\ x.req = r /\ x.msg.by = x.grp
                           /\ question(x.msg) = <<a.name, a.qtype>>
  BY DEF Forwarded
<1>6. last_qid' <= Len(reqs')
  BY <1>1, <1>2 DEF FreshIdInv
<1>7. \A i \in DOMAIN query_list' :
        /\ i <= last_qid' /\ query_list'[i].req <= Len(reqs')
        /\ query_list'[i].tag = TagOf[reqs'[query_list'[i].req].name]
  BY <1>1, <1>2, <1>3, <1>4 DEF FreshIdInv
<1>8. \A x \in asked' : /\ x.qid <= last_qid' /\ x.req <= Len(reqs')
                        /\ x.msg.by = x.grp
                        /\ question(x.msg) = <<reqs'[x.req].name, reqs'[x.req].qtype>>
  BY <1>1, <1>2, <1>3, <1>5 DEF FreshIdInv, AskedBy
<1>9. \A x \in asked', i \in DOMAIN query_list' : x.qid = i => x.req = query_list'[i].req
  <2> SUFFICES ASSUME NEW x \in asked', NEW i \in DOMAIN query_list', x.qid = i
               PROVE  x.req = query_list'[i].req
    OBVIOUS
  <2>1. CASE x \in asked
    BY <1>2, <1>3, <1>4, <2>1 DEF FreshIdInv
  <2>2. CASE x.qid = qid /\ x.req = r
    BY <1>4, <2>2
  <2> QED
    BY <1>5, <2>1, <2>2
<1> QED
  BY <1>6, <1>7, <1>8, <1>9 DEF FreshIdInv, AskedBy

(* EndQuery and the updates of a query keep the owners of the ids. *)
LEMMA ReplyKeepsOwners ==
  ASSUME TypeOK, NEW a \in asked,
         OnChinaReply(a) \/ OnTrustReply(a) \/ OnFirstReply(a)
  PROVE  KeepsOwners
<1> DEFINE q == query_list[a.qid]
           p1 == [q EXCEPT !.verdict = "non_china"]
           p2 == [q EXCEPT !.trust_msg = IF @ = {} THEN {a.msg} ELSE @]
<1>1. Matches(a)
  BY DEF OnChinaReply, OnTrustReply, OnFirstReply
<1>2. a.qid \in DOMAIN query_list /\ q \in Query /\ UNCHANGED <<asked, reqs, last_qid>>
  BY <1>1 DEF Matches, TypeOK
<1>3. p1.req = q.req /\ p1.tag = q.tag /\ p2.req = q.req /\ p2.tag = q.tag
  BY <1>2 DEF Query
<1>4. \/ \E chosen, res : EndQuery(a, q, chosen, res)
      \/ query_list' = Put(query_list, a.qid, p1)
      \/ query_list' = Put(query_list, a.qid, p2)
  <2>1. CASE OnChinaReply(a)
    BY <2>1 DEF OnChinaReply, RejectChina
  <2>2. CASE OnTrustReply(a)
    BY <2>2 DEF OnTrustReply
  <2>3. CASE OnFirstReply(a)
    BY <2>3 DEF OnFirstReply
  <2> QED
    BY <2>1, <2>2, <2>3
<1>5. CASE \E chosen, res : EndQuery(a, q, chosen, res)
  BY <1>2, <1>5 DEF EndQuery, Without, KeepsOwners
<1>6. CASE query_list' = Put(query_list, a.qid, p1) \/ query_list' = Put(query_list, a.qid, p2)
  BY <1>2, <1>3, <1>6 DEF Put, KeepsOwners
<1> QED
  BY <1>4, <1>5, <1>6

(* Every handler preserves the freshness of the ids. *)
LEMMA NextFreshId ==
  ASSUME MaxReq < NQid, TypeOK, FreshIdInv, [Next]_vars
  PROVE  FreshIdInv'
<1>0. \A a \in Asks : a \in Ask /\ a.from \in Froms
  BY EnvAssumption DEF Ask, Froms
<1>1. ASSUME NEW r \in Requests, NEW a \in Asks, OnBadQuery(r, a) PROVE FreshIdInv'
  BY <1>0, <1>1, ArriveUnlistedFresh DEF OnBadQuery
<1>2. ASSUME NEW r \in Requests, NEW a \in Asks, OnQueryLocal(r, a) PROVE FreshIdInv'
  BY <1>0, <1>2, ArriveUnlistedFresh DEF OnQueryLocal
<1>3. ASSUME NEW r \in Requests, NEW a \in Ask, Arrives(r, a), ~AnswersItself(a),
             NEW from \in Froms, NEW out, Forward(r, a, from, out)
      PROVE  FreshIdInv'
  <2>1. Len(reqs) < MaxReq
    BY <1>3 DEF Arrives
  <2>2. /\ last_qid' \in {last_qid, last_qid + 1}
        /\ query_list' # query_list => last_qid' = last_qid + 1
    BY <1>3, <2>1, ForwardQid
  <2>3. CASE NotForwarded(r, a, from, out)
    BY <1>3, <2>2, <2>3, ArriveUnlistedFresh DEF NotForwarded
  <2>4. ASSUME NEW qid \in 0..NQid - 1, NEW q \in Query,
               Forwarded(r, a, from, out, qid, q)
        PROVE  FreshIdInv'
    <3>1. qid \in DOMAIN query_list' /\ qid \notin DOMAIN query_list
      BY <2>4 DEF Forwarded, Put
    <3> QED
      BY <1>3, <2>2, <2>4, <3>1, ArriveListedFresh
  <2> QED
    BY <1>3, <2>3, <2>4, ForwardEffect
<1>4. ASSUME NEW r \in Requests, NEW a \in Asks, OnQueryHit(r, a) PROVE FreshIdInv'
  <2> DEFINE out == send_reply(outbox, r, cache[<<a.name, a.qtype>>].msg,
                               a.from, a.bufsz)
  <2>1. Arrives(r, a) /\ ~AnswersItself(a) /\ a \in Ask
    BY <1>0, <1>4 DEF OnQueryHit
  <2>2. CASE UNCHANGED <<query_list, last_qid, asked>>
    BY <2>1, <2>2, ArriveUnlistedFresh
  <2>3. CASE Forward(r, a, RefreshFrom(a), out)
    <3>1. RefreshFrom(a) \in Froms
      BY DEF RefreshFrom, Froms
    <3> QED
      BY <1>3, <2>1, <2>3, <3>1
  <2> QED
    BY <1>4, <2>2, <2>3 DEF OnQueryHit
<1>5. ASSUME NEW r \in Requests, NEW a \in Asks, OnQueryMiss(r, a) PROVE FreshIdInv'
  BY <1>0, <1>3, <1>5 DEF OnQueryMiss
<1>6. ASSUME NEW a \in asked, IgnoreReply(a) PROVE FreshIdInv'
  BY <1>6, KeepsOwnersFresh DEF IgnoreReply, KeepsOwners
<1>7. ASSUME NEW a \in asked, OnChinaReply(a) \/ OnTrustReply(a) \/ OnFirstReply(a)
      PROVE  FreshIdInv'
  BY <1>7, ReplyKeepsOwners, KeepsOwnersFresh
<1>8. ASSUME NEW d \in {0, 1}, LoopTop(d) PROVE FreshIdInv'
  BY <1>8, KeepsOwnersFresh DEF LoopTop, KeepsOwners
<1>9. CASE ClockInBatch
  BY <1>9, KeepsOwnersFresh DEF ClockInBatch, KeepsOwners
<1>10. CASE UNCHANGED vars
  BY <1>10, KeepsOwnersFresh DEF vars, KeepsOwners
<1> QED
  BY <1>1, <1>2, <1>4, <1>5, <1>6, <1>7, <1>8, <1>9, <1>10
  DEF Next, ClientStep, UpstreamStep

-----------------------------------------------------------------------------
(* Clean answers *)

\* n is m with its records removed
Emptied(m, n) == /\ n \in Msg /\ question(n) = question(m) /\ n.name = m.name
                 /\ n.qtype = m.qtype /\ n.by = m.by /\ n.ip = "no_ip_found"

(* dns_empty_reply, its SERVFAIL form and dns_truncate remove the records.  *)
LEMMA RewriteEmpties ==
  ASSUME NEW m \in Msg
  PROVE  /\ Emptied(m, empty_reply(m)) /\ Emptied(m, servfail_reply(m))
         /\ Emptied(m, truncate(m))
<1>1. /\ empty_reply(m) \in Msg /\ servfail_reply(m) \in Msg /\ truncate(m) \in Msg
      /\ question(empty_reply(m)) = question(m)
      /\ question(servfail_reply(m)) = question(m)
      /\ question(truncate(m)) = question(m)
  BY RewriteType
<1>2. /\ empty_reply(m).ip = "no_ip_found" /\ servfail_reply(m).ip = "no_ip_found"
      /\ truncate(m).ip = "no_ip_found"
      /\ empty_reply(m).by = m.by /\ servfail_reply(m).by = m.by /\ truncate(m).by = m.by
      /\ empty_reply(m).name = m.name /\ servfail_reply(m).name = m.name
      /\ truncate(m).name = m.name
      /\ empty_reply(m).qtype = m.qtype /\ servfail_reply(m).qtype = m.qtype
      /\ truncate(m).qtype = m.qtype
  BY DEF empty_reply, servfail_reply, truncate, Msg
<1> QED
  BY <1>1, <1>2 DEF Emptied

(* A message of this program is clean, and so is one without its records,   *)
(* unless it is an answer of the trust group that was not clean before.     *)
LEMMA CleanMsgs ==
  ASSUME NEW m \in Msg, NEW S
  PROVE  /\ Clean(m, S) \/ m.by # "gfw"
              => /\ Clean(empty_reply(m), S) /\ Clean(servfail_reply(m), S)
                 /\ Clean(truncate(m), S)
         /\ m.by \notin {"chn", "gfw"} => Clean(m, S)
<1>1. \A x \in Msg : x.ip = "no_ip_found" => test_ip(x) # "non_china_ip"
  BY DEF test_ip
<1>2. ASSUME NEW n, Emptied(m, n), Clean(m, S) \/ m.by # "gfw" PROVE Clean(n, S)
  BY <1>1, <1>2 DEF Emptied, Clean, Unpolluted, Waited
<1>3. m.by \notin {"chn", "gfw"} => Clean(m, S)
  BY DEF Clean, Unpolluted, Waited
<1> QED
  BY <1>2, <1>3, RewriteEmpties

(* Evidence does not go away. *)
LEMMA EvidenceGrows ==
  ASSUME NEW S, NEW T, S \subseteq T
  PROVE  /\ \A n, kind : Evidence(S, n, kind) => Evidence(T, n, kind)
         /\ \A n : Rejected(S, n) => Rejected(T, n)
         /\ \A m : Clean(m, S) => Clean(m, T)
<1>1. \A n, kind : Evidence(S, n, kind) => Evidence(T, n, kind)
  BY DEF Evidence
<1>2. \A n : Rejected(S, n) => Rejected(T, n)
  BY DEF Rejected
<1> QED
  BY <1>1, <1>2 DEF Clean, Unpolluted, Waited

(* A china reply with a foreign address is rejected. *)
LEMMA ForeignIsRejected ==
  ASSUME NEW S, NEW n, Evidence(S, n, "non_china_ip")
  PROVE  Rejected(S, n)
BY DEF Evidence, Rejected, use_china_reply

(* A clean answer stays clean on its way out. *)
LEMMA SentClean ==
  ASSUME NEW m \in Msg, NEW from, NEW bufsz, NEW S, Clean(m, S)
  PROVE  Clean(Sent(m, from, bufsz), S)
BY CleanMsgs DEF Sent

(* The elements of a sequence and one more. *)
LEMMA AppendElements ==
  ASSUME NEW s \in Seq(Msg), NEW m \in Msg
  PROVE  \A i \in DOMAIN Append(s, m) :
           \/ i \in DOMAIN s /\ Append(s, m)[i] = s[i]
           \/ Append(s, m)[i] = m
OBVIOUS

(* Sending a clean answer to the right question keeps the outbox fine.      *)
LEMMA OutboxStep ==
  ASSUME TypeOK, OneAnswerInv, OutboxFine, seen \subseteq seen',
         NEW r \in Requests, r \in 1..Len(reqs'),
         \/ UNCHANGED reqs
         \/ \E a \in Ask : Arrives(r, a),
         \/ outbox' = outbox
         \/ \E m \in Msg : \E from, bufsz :
              /\ outbox' = send_reply(outbox, r, m, from, bufsz)
              /\ question(m) = AskedBy(reqs', r) /\ Clean(m, seen')
  PROVE  OutboxFine'
<1> SUFFICES ASSUME NEW s \in 1..Len(reqs'), NEW i \in DOMAIN outbox'[s]
             PROVE  question(outbox'[s][i]) = AskedBy(reqs', s) /\ Clean(outbox'[s][i], seen')
  BY DEF OutboxFine
<1>1. /\ Len(reqs) \in Nat /\ Len(reqs') \in Nat
      /\ s \in 1..Len(reqs) => reqs'[s] = reqs[s]
      /\ s \notin 1..Len(reqs) => s = r /\ r > Len(reqs)
  BY ArrivesKeeps DEF TypeOK
<1>2. s \in Requests
  <2>1. CASE UNCHANGED reqs
    BY <2>1, BoundAssumption DEF TypeOK, Requests
  <2>2. CASE \E a \in Ask : Arrives(r, a)
    BY <2>2, ArrivesKeeps, BoundAssumption DEF TypeOK, Requests
  <2> QED
    BY <2>1, <2>2
<1>3. outbox \in [Requests -> Seq(Msg)]
  BY DEF TypeOK
<1>4. ASSUME s \in 1..Len(reqs), i \in DOMAIN outbox[s], outbox'[s][i] = outbox[s][i]
      PROVE  question(outbox'[s][i]) = AskedBy(reqs', s) /\ Clean(outbox'[s][i], seen')
  <2>1. question(outbox[s][i]) = AskedBy(reqs, s) /\ Clean(outbox[s][i], seen)
    BY <1>4 DEF OutboxFine
  <2>2. Clean(outbox[s][i], seen')
    BY <1>1, <1>4, <2>1, EvidenceGrows
  <2> QED
    BY <1>1, <1>4, <2>1, <2>2 DEF AskedBy
<1>5. s \notin 1..Len(reqs) => outbox[s] = <<>>
  BY <1>1 DEF OneAnswerInv
<1>6. CASE outbox' = outbox
  BY <1>4, <1>5, <1>6
<1>7. ASSUME NEW m \in Msg, NEW from, NEW bufsz,
             outbox' = send_reply(outbox, r, m, from, bufsz),
             question(m) = AskedBy(reqs', r), Clean(m, seen')
      PROVE  question(outbox'[s][i]) = AskedBy(reqs', s) /\ Clean(outbox'[s][i], seen')
  <2> DEFINE w == Sent(m, from, bufsz)
  <2>1. CASE s # r
    BY <1>1, <1>2, <1>3, <1>4, <1>7, <2>1, SendReplyType
  <2>2. CASE s = r
    <3>1. w \in Msg /\ question(w) = question(m)
      BY SentType
    <3>2. Clean(w, seen')
      BY <1>7, SentClean
    <3>3. outbox'[s] = Append(outbox[s], w)
      BY <1>3, <1>7, <2>2, SendReplyType
    <3>4. \/ i \in DOMAIN outbox[s] /\ outbox'[s][i] = outbox[s][i]
          \/ outbox'[s][i] = w
      BY <1>2, <1>3, <3>1, <3>3, AppendElements
    <3> QED
      BY <1>4, <1>5, <1>7, <2>2, <3>1, <3>2, <3>4
  <2> QED
    BY <2>1, <2>2
<1> QED
  BY <1>6, <1>7

(* The cache keeps, forgets or takes over clean messages. *)
LEMMA CacheStep ==
  ASSUME CacheFine, seen \subseteq seen', NEW k, NEW m, Clean(m, seen'),
         \/ cache' = cache
         \/ k \in DOMAIN cache /\ cache' = cache_hit(cache, k)
         \/ cache' = cache_miss(cache, k)
         \/ cache' \in cache_add(cache, m)
  PROVE  CacheFine'
<1>1. \A x \in DOMAIN cache : question(cache[x].msg) = x /\ Clean(cache[x].msg, seen')
  BY EvidenceGrows DEF CacheFine
<1>2. CASE cache' = cache \/ cache' = cache_miss(cache, k)
  BY <1>1, <1>2 DEF CacheFine, cache_miss, Without
<1>3. CASE k \in DOMAIN cache /\ cache' = cache_hit(cache, k)
  BY <1>1, <1>3 DEF CacheFine, cache_hit, CacheEntry, Put
<1>4. CASE cache' \in cache_add(cache, m)
  <2>1. \/ cache' = cache
        \/ cache' = Put(cache, question(m), CacheEntry(m, TRUE))
        \/ \E old \in DOMAIN cache :
             cache' = Put(Without(cache, old), question(m), CacheEntry(m, TRUE))
    BY <1>4 DEF cache_add
  <2>2. \A x \in DOMAIN cache' :
          \/ x \in DOMAIN cache /\ cache'[x] = cache[x]
          \/ x = question(m) /\ cache'[x] = CacheEntry(m, TRUE)
    <3>1. CASE cache' = cache
      BY <3>1
    <3>2. CASE cache' = Put(cache, question(m), CacheEntry(m, TRUE))
      BY <3>2 DEF Put
    <3>3. ASSUME NEW old \in DOMAIN cache,
                 cache' = Put(Without(cache, old), question(m), CacheEntry(m, TRUE))
          PROVE  \A x \in DOMAIN cache' :
                   \/ x \in DOMAIN cache /\ cache'[x] = cache[x]
                   \/ x = question(m) /\ cache'[x] = CacheEntry(m, TRUE)
      BY <3>3 DEF Put, Without
    <3> QED
      BY <2>1, <3>1, <3>2, <3>3
  <2>3. CacheEntry(m, TRUE).msg = m
    BY DEF CacheEntry
  <2> QED
    BY <1>1, <2>2, <2>3 DEF CacheFine
<1> QED
  BY <1>2, <1>3, <1>4

(* The queries that are left wait for what they waited for. *)
LEMMA QueriesStep ==
  ASSUME TypeOK, FreshIdInv, QueriesFine, seen \subseteq seen',
         \A s \in 1..Len(reqs) : reqs'[s] = reqs[s],
         DOMAIN query_list' \subseteq DOMAIN query_list,
         \A i \in DOMAIN query_list' :
           /\ query_list'[i].req = query_list[i].req
           /\ query_list'[i].trust_msg = query_list[i].trust_msg
           /\ query_list'[i].verdict = "is_china" => query_list[i].verdict = "is_china"
           /\ query_list'[i].verdict = "non_china"
                => \/ query_list[i].verdict = "non_china"
                   \/ Rejected(seen', reqs[query_list[i].req].name)
  PROVE  QueriesFine'
<1>1. \A i \in DOMAIN query_list : query_list[i].req \in 1..Len(reqs)
  BY DEF TypeOK, FreshIdInv, Query, Requests
<1>2. /\ \A n, kind : Evidence(seen, n, kind) => Evidence(seen', n, kind)
      /\ \A n : Rejected(seen, n) => Rejected(seen', n)
  BY EvidenceGrows
<1> SUFFICES ASSUME NEW i \in DOMAIN query_list'
             PROVE  /\ \A m \in query_list'[i].trust_msg :
                         /\ question(m) = AskedBy(reqs', query_list'[i].req)
                         /\ m.by = "gfw"
                    /\ query_list'[i].verdict = "is_china"
                         => Evidence(seen', reqs'[query_list'[i].req].name, "is_china_ip")
                    /\ query_list'[i].verdict = "non_china"
                         => Rejected(seen', reqs'[query_list'[i].req].name)
  BY DEF QueriesFine
<1>3. /\ i \in DOMAIN query_list /\ query_list'[i].req = query_list[i].req
      /\ reqs'[query_list[i].req] = reqs[query_list[i].req]
  BY <1>1
<1>4. \A m \in query_list'[i].trust_msg :
        question(m) = AskedBy(reqs', query_list'[i].req) /\ m.by = "gfw"
  BY <1>3 DEF QueriesFine, AskedBy
<1>5. query_list'[i].verdict = "is_china"
        => Evidence(seen', reqs'[query_list'[i].req].name, "is_china_ip")
  BY <1>2, <1>3 DEF QueriesFine
<1>6. query_list'[i].verdict = "non_china"
        => Rejected(seen', reqs'[query_list'[i].req].name)
  BY <1>2, <1>3 DEF QueriesFine
<1> QED
  BY <1>4, <1>5, <1>6

(* An arrival: at most one clean answer, at most one new query.             *)
LEMMA ArriveFine ==
  ASSUME TypeOK, OneAnswerInv, FreshIdInv, AnswerInv,
         NEW r \in Requests, NEW a \in Ask, Arrives(r, a),
         NEW m \in Msg, NEW from, NEW bufsz, question(m) = <<a.name, a.qtype>>,
         Clean(m, seen),
         outbox' \in {outbox, send_reply(outbox, r, m, from, bufsz)},
         NEW k,
         \/ cache' = cache
         \/ k \in DOMAIN cache /\ cache' = cache_hit(cache, k)
         \/ cache' = cache_miss(cache, k),
         \/ query_list' = query_list
         \/ \E qid, q : /\ query_list' = Put(query_list, qid, q)
                        /\ q.req = r /\ q.verdict = VerdictFlag(a)
                        /\ q.trust_msg = {},
         UNCHANGED <<verdict, seen>>
  PROVE  AnswerInv'
<1>1. /\ r = Len(reqs) + 1 /\ Len(reqs') = Len(reqs) + 1 /\ Len(reqs) \in Nat
      /\ reqs'[r] = a
      /\ \A s \in 1..Len(reqs) : reqs'[s] = reqs[s]
  BY ArrivesKeeps
<1>2. OutboxFine'
  <2>1. r \in 1..Len(reqs') /\ question(m) = AskedBy(reqs', r)
    BY <1>1 DEF AskedBy
  <2> QED
    BY <2>1, OutboxStep DEF AnswerInv
<1>3. CacheFine'
  BY CacheStep DEF AnswerInv
<1>4. QueriesFine'
  <2>1. CASE query_list' = query_list
    BY <1>1, <2>1, QueriesStep DEF AnswerInv
  <2>2. ASSUME NEW qid, NEW q, query_list' = Put(query_list, qid, q),
               q.req = r, q.verdict = VerdictFlag(a), q.trust_msg = {}
        PROVE  QueriesFine'
    <3>1. /\ q.verdict = "is_china" => Evidence(seen, a.name, "is_china_ip")
          /\ q.verdict = "non_china" => Rejected(seen, a.name)
      <4>1. /\ q.verdict = "is_china" => Evidence(seen, a.name, "is_china_ip")
            /\ q.verdict = "non_china" => Evidence(seen, a.name, "non_china_ip")
        BY <2>2 DEF AnswerInv, VerdictFromEvidence, VerdictFlag, ChinaSaid, Evidence
      <4> QED
        BY <4>1, ForeignIsRejected
    <3>2. \A i \in DOMAIN query_list : query_list[i].req \in 1..Len(reqs)
      BY <1>1 DEF TypeOK, FreshIdInv, Query, Requests
    <3>3. /\ DOMAIN query_list' = DOMAIN query_list \cup {qid}
          /\ query_list'[qid] = q
          /\ \A i \in DOMAIN query_list \ {qid} : query_list'[i] = query_list[i]
      BY <2>2 DEF Put
    <3> QED
      BY <1>1, <2>2, <3>1, <3>2, <3>3 DEF AnswerInv, QueriesFine, AskedBy
  <2> QED
    BY <2>1, <2>2
<1>5. VerdictFromEvidence'
  BY DEF AnswerInv, VerdictFromEvidence, ChinaSaid
<1> QED
  BY <1>2, <1>3, <1>4, <1>5 DEF AnswerInv

(* The end of a query with a clean answer to its question. *)
LEMMA EndFine ==
  ASSUME TypeOK, OneAnswerInv, FreshIdInv, AnswerInv, NEW a,
         a.qid \in DOMAIN query_list, NEW chosen \in Msg, NEW res,
         EndQuery(a, query_list[a.qid], chosen, res),
         question(chosen) = AskedBy(reqs, query_list[a.qid].req),
         Clean(chosen, seen'), seen \subseteq seen', UNCHANGED reqs
  PROVE  OutboxFine' /\ CacheFine' /\ QueriesFine'
<1> DEFINE q == query_list[a.qid]
<1>1. PICK m : Ended(a, q, chosen, m)
  BY EndQueryEffect
<1>2. m \in Msg /\ question(m) = question(chosen) /\ Clean(m, seen')
  BY <1>1, RewriteType, CleanMsgs DEF Ended
<1>3. q.req \in Requests /\ q.req \in 1..Len(reqs')
  BY DEF TypeOK, FreshIdInv, Query, Requests
<1>4. OutboxFine'
  <2>1. \/ outbox' = outbox
        \/ outbox' = send_reply(outbox, q.req, m, q.from, q.bufsz)
    BY <1>1 DEF Ended
  <2>2. question(m) = AskedBy(reqs', q.req)
    BY <1>2
  <2> QED
    BY <1>2, <1>3, <2>1, <2>2, OutboxStep DEF AnswerInv
<1>5. CacheFine'
  BY <1>1, <1>2, CacheStep DEF Ended, AnswerInv
<1>6. /\ DOMAIN query_list' \subseteq DOMAIN query_list
      /\ \A i \in DOMAIN query_list' : query_list'[i] = query_list[i]
  BY <1>1 DEF Ended, Without
<1>7. QueriesFine'
  BY <1>6, QueriesStep DEF AnswerInv
<1> QED
  BY <1>4, <1>5, <1>7

(* A reply that meets a query answers the question of the query.            *)
LEMMA MatchFacts ==
  ASSUME TypeOK, FreshIdInv, NEW a \in asked, Matches(a)
  PROVE  LET q == query_list[a.qid]
         IN /\ a.qid \in DOMAIN query_list /\ q \in Query /\ q.req \in 1..Len(reqs)
            /\ a.msg \in Msg /\ question(a.msg) = AskedBy(reqs, q.req)
            /\ a.msg.by = a.grp /\ a.msg.name \in Names
            /\ a.msg.name = reqs[q.req].name /\ q.tag = TagOf[a.msg.name]
            /\ a \in seen' /\ seen \subseteq seen' /\ UNCHANGED reqs
<1>1. /\ a.qid \in DOMAIN query_list /\ query_list[a.qid] \in Query
      /\ a \in seen' /\ seen \subseteq seen' /\ UNCHANGED reqs
      /\ a.msg \in Msg /\ a.msg.name \in Names
  BY DEF Matches, TypeOK, Reply, Msg
<1>2. query_list[a.qid].req \in 1..Len(reqs) /\ a.req = query_list[a.qid].req
  BY <1>1 DEF TypeOK, FreshIdInv, Query, Requests
<1>3. question(a.msg) = AskedBy(reqs, query_list[a.qid].req) /\ a.msg.by = a.grp
  BY <1>2 DEF FreshIdInv
<1>4. a.msg.name = reqs[query_list[a.qid].req].name
  BY <1>3 DEF question, AskedBy
<1> QED
  BY <1>1, <1>2, <1>3, <1>4 DEF FreshIdInv

(* A china reply: it is accepted with a china address, without addresses,   *)
(* truncated, or on an earlier verdict, and never as a polluted answer.     *)
LEMMA ChinaReplyFine ==
  ASSUME TypeOK, OneAnswerInv, FreshIdInv, AnswerInv, NEW a \in asked, OnChinaReply(a)
  PROVE  AnswerInv'
<1> DEFINE q == query_list[a.qid]
           res == IF q.verdict = "is_china" THEN {} ELSE {test_ip(a.msg)}
<1>1. /\ a.qid \in DOMAIN query_list /\ q \in Query /\ q.req \in 1..Len(reqs)
      /\ a.msg \in Msg /\ question(a.msg) = AskedBy(reqs, q.req)
      /\ a.msg.by = a.grp /\ a.msg.name \in Names
      /\ a.msg.name = reqs[q.req].name /\ q.tag = TagOf[a.msg.name]
      /\ a \in seen' /\ seen \subseteq seen' /\ UNCHANGED reqs
  BY MatchFacts DEF OnChinaReply
<1>2. a.grp = "chn" /\ TagOf[a.msg.name] = "none"
  BY <1>1 DEF OnChinaReply, Races
<1>3. VerdictFromEvidence'
  <2>1. ASSUME NEW n \in DOMAIN verdict
        PROVE  Evidence(seen', n, IF verdict[n] THEN "is_china_ip" ELSE "non_china_ip")
    BY <1>1 DEF AnswerInv, VerdictFromEvidence, ChinaSaid, Evidence
  <2>2. CASE UNCHANGED verdict
    BY <2>1, <2>2 DEF VerdictFromEvidence, ChinaSaid, Evidence
  <2>3. CASE /\ HasVerdict(a.msg)
             /\ verdict' \in verdict_add(verdict, a.msg.name,
                                         test_ip(a.msg) = "is_china_ip")
    <3> DEFINE b == test_ip(a.msg) = "is_china_ip"
    <3>1. Evidence(seen', a.msg.name, IF b THEN "is_china_ip" ELSE "non_china_ip")
      BY <1>1, <1>2, <2>3 DEF HasVerdict, Evidence
    <3>2. IsVerdictMap(verdict) /\ b \in BOOLEAN
      BY DEF IsVerdictMap, TypeOK
    <3>3. \A n \in DOMAIN verdict' : \/ n = a.msg.name /\ verdict'[n] = b
                                     \/ n \in DOMAIN verdict /\ verdict'[n] = verdict[n]
      BY <1>1, <2>3, <3>2, VerdictAddType
    <3>4. \A n \in DOMAIN verdict' :
            Evidence(seen', n, IF verdict'[n] THEN "is_china_ip" ELSE "non_china_ip")
      BY <2>1, <3>1, <3>3
    <3> QED
      BY <3>4 DEF VerdictFromEvidence, ChinaSaid, Evidence
  <2> QED
    BY <2>2, <2>3 DEF OnChinaReply
<1>4. ASSUME NEW chosen \in Msg, EndQuery(a, q, chosen, res),
             question(chosen) = AskedBy(reqs, q.req), Clean(chosen, seen')
      PROVE  AnswerInv'
  BY <1>1, <1>3, <1>4, EndFine DEF AnswerInv
<1>5. CASE (q.verdict = "is_china" \/ use_china_reply(a.msg)) /\ EndQuery(a, q, a.msg, res)
  <2>1. CASE q.verdict = "is_china"
    <3>1. Evidence(seen, a.msg.name, "is_china_ip")
      BY <1>1, <2>1 DEF AnswerInv, QueriesFine
    <3>2. Clean(a.msg, seen')
      BY <1>1, <1>2, <3>1, EvidenceGrows DEF Clean, Unpolluted, Waited
    <3> QED
      BY <1>1, <1>4, <1>5, <3>2
  <2>2. CASE use_china_reply(a.msg)
    <3>1. test_ip(a.msg) # "non_china_ip"
      BY <2>2 DEF use_china_reply
    <3>2. Clean(a.msg, seen')
      BY <1>1, <1>2, <3>1 DEF Clean, Unpolluted, Waited
    <3> QED
      BY <1>1, <1>4, <1>5, <3>2
  <2> QED
    BY <1>5, <2>1, <2>2
<1>6. ASSUME NEW t \in q.trust_msg, EndQuery(a, q, t, res), ~use_china_reply(a.msg)
      PROVE  AnswerInv'
  <2>1. t \in Msg /\ question(t) = AskedBy(reqs, q.req) /\ t.by = "gfw"
    BY <1>1 DEF Query, AnswerInv, QueriesFine
  <2>2. Rejected(seen', t.name)
    BY <1>1, <1>2, <1>6, <2>1 DEF Rejected, question, AskedBy
  <2>3. Clean(t, seen')
    BY <2>1, <2>2 DEF Clean, Unpolluted, Waited
  <2> QED
    BY <1>4, <1>6, <2>1, <2>3
<1>7. CASE EndQuery(a, q, servfail_reply(a.msg), res)
  BY <1>1, <1>2, <1>4, <1>7, RewriteType, CleanMsgs
<1>8. CASE /\ RejectChina(a, q) /\ ~use_china_reply(a.msg)
           /\ UNCHANGED <<cache, ipset, outbox>>
  <2> DEFINE p == [q EXCEPT !.verdict = "non_china"]
  <2>1. p.req = q.req /\ p.trust_msg = q.trust_msg /\ p.verdict = "non_china"
    BY <1>1 DEF Query
  <2>2. /\ DOMAIN query_list' = DOMAIN query_list /\ query_list'[a.qid] = p
        /\ \A i \in DOMAIN query_list \ {a.qid} : query_list'[i] = query_list[i]
    BY <1>1, <1>8 DEF RejectChina, Put
  <2>3. QueriesFine'
    <3>1. Rejected(seen', reqs[q.req].name)
      BY <1>1, <1>2, <1>8 DEF Rejected
    <3> QED
      BY <1>1, <2>1, <2>2, <3>1, QueriesStep DEF AnswerInv
  <2>4. OutboxFine' /\ CacheFine'
    BY <1>1, <1>8, EvidenceGrows DEF AnswerInv, OutboxFine, CacheFine
  <2> QED
    BY <1>3, <2>3, <2>4 DEF AnswerInv
<1> QED
  BY <1>5, <1>6, <1>7, <1>8 DEF OnChinaReply

(* A trust reply is clean, used at once or kept. *)
LEMMA TrustReplyFine ==
  ASSUME TypeOK, OneAnswerInv, FreshIdInv, AnswerInv, NEW a \in asked, OnTrustReply(a)
  PROVE  AnswerInv'
<1> DEFINE q == query_list[a.qid]
           p == [q EXCEPT !.trust_msg = IF @ = {} THEN {a.msg} ELSE @]
<1>1. /\ a.qid \in DOMAIN query_list /\ q \in Query /\ q.req \in 1..Len(reqs)
      /\ a.msg \in Msg /\ question(a.msg) = AskedBy(reqs, q.req)
      /\ a.msg.by = "gfw" /\ a.msg.name = reqs[q.req].name
      /\ seen \subseteq seen' /\ UNCHANGED reqs
  BY MatchFacts DEF OnTrustReply
<1>2. VerdictFromEvidence'
  BY <1>1 DEF OnTrustReply, AnswerInv, VerdictFromEvidence, ChinaSaid
<1>3. CASE TrustMayAnswer(q) /\ EndQuery(a, q, a.msg, {})
  <2>0. Rejected(seen', a.msg.name)
    BY <1>1, <1>3, EvidenceGrows DEF TrustMayAnswer, AnswerInv, QueriesFine
  <2>1. Clean(a.msg, seen')
    BY <1>1, <2>0 DEF Clean, Unpolluted, Waited
  <2> QED
    BY <1>1, <1>2, <1>3, <2>1, EndFine DEF AnswerInv
<1>4. CASE query_list' = Put(query_list, a.qid, p) /\ UNCHANGED <<cache, ipset, outbox>>
  <2>1. /\ p.req = q.req /\ p.verdict = q.verdict
        /\ p.trust_msg \in {q.trust_msg, {a.msg}}
    BY <1>1 DEF Query
  <2>2. /\ DOMAIN query_list' = DOMAIN query_list /\ query_list'[a.qid] = p
        /\ \A i \in DOMAIN query_list \ {a.qid} : query_list'[i] = query_list[i]
    BY <1>1, <1>4 DEF Put
  <2>3. QueriesFine'
    <3>0. /\ \A n, kind : Evidence(seen, n, kind) => Evidence(seen', n, kind)
          /\ \A n : Rejected(seen, n) => Rejected(seen', n)
      BY <1>1, EvidenceGrows
    <3>1. /\ \A m \in q.trust_msg :
                question(m) = AskedBy(reqs, q.req) /\ m.by = "gfw"
          /\ q.verdict = "is_china"
               => Evidence(seen', reqs[q.req].name, "is_china_ip")
          /\ q.verdict = "non_china" => Rejected(seen', reqs[q.req].name)
      BY <1>1, <3>0 DEF AnswerInv, QueriesFine
    <3>2. \A i \in DOMAIN query_list \ {a.qid} :
            /\ \A m \in query_list[i].trust_msg :
                 question(m) = AskedBy(reqs, query_list[i].req) /\ m.by = "gfw"
            /\ query_list[i].verdict = "is_china"
                 => Evidence(seen', reqs[query_list[i].req].name, "is_china_ip")
            /\ query_list[i].verdict = "non_china"
                 => Rejected(seen', reqs[query_list[i].req].name)
      BY <1>1, <3>0 DEF AnswerInv, QueriesFine
    <3>3. \A m \in p.trust_msg : question(m) = AskedBy(reqs, q.req) /\ m.by = "gfw"
      BY <1>1, <2>1, <3>1
    <3> HIDE DEF p, q
    <3>4. \A i \in DOMAIN query_list' :
            /\ \A m \in query_list'[i].trust_msg :
                 question(m) = AskedBy(reqs, query_list'[i].req) /\ m.by = "gfw"
            /\ query_list'[i].verdict = "is_china"
                 => Evidence(seen', reqs[query_list'[i].req].name, "is_china_ip")
            /\ query_list'[i].verdict = "non_china"
                 => Rejected(seen', reqs[query_list'[i].req].name)
      BY <2>1, <2>2, <3>1, <3>2, <3>3
    <3> QED
      BY <1>1, <3>4 DEF QueriesFine
  <2>4. OutboxFine' /\ CacheFine'
    BY <1>1, <1>4, EvidenceGrows DEF AnswerInv, OutboxFine, CacheFine
  <2> QED
    BY <1>2, <2>3, <2>4 DEF AnswerInv
<1> QED
  BY <1>3, <1>4 DEF OnTrustReply

(* The reply to a query that does not race is about another tag or type. *)
LEMMA FirstReplyFine ==
  ASSUME TypeOK, OneAnswerInv, FreshIdInv, AnswerInv, NEW a \in asked, OnFirstReply(a)
  PROVE  AnswerInv'
<1> DEFINE q == query_list[a.qid]
<1>1. /\ a.qid \in DOMAIN query_list /\ a.msg \in Msg
      /\ question(a.msg) = AskedBy(reqs, q.req) /\ q.tag = TagOf[a.msg.name]
      /\ seen \subseteq seen' /\ UNCHANGED reqs
  BY MatchFacts DEF OnFirstReply
<1>2. VerdictFromEvidence'
  BY <1>1 DEF OnFirstReply, AnswerInv, VerdictFromEvidence, ChinaSaid
<1>3. Clean(a.msg, seen')
  BY <1>1 DEF OnFirstReply, Races, Clean, Unpolluted, Waited
<1> QED
  BY <1>1, <1>2, <1>3, EndFine DEF OnFirstReply, AnswerInv

(* Every handler preserves the invariant. *)
LEMMA NextAnswer ==
  ASSUME TypeOK, OneAnswerInv, FreshIdInv, AnswerInv, [Next]_vars
  PROVE  AnswerInv'
<1>0. \A a \in Asks : /\ a \in Ask /\ a.from \in Froms
                      /\ QueryMsg(a) \in Msg /\ LocalMsg(a) \in Msg /\ BadMsg(a) \in Msg
                      /\ question(QueryMsg(a)) = <<a.name, a.qtype>>
                      /\ question(LocalMsg(a)) = <<a.name, a.qtype>>
                      /\ question(BadMsg(a)) = <<a.name, a.qtype>>
                      /\ Clean(QueryMsg(a), seen) /\ Clean(LocalMsg(a), seen)
                      /\ Clean(BadMsg(a), seen)
                      /\ servfail_reply(QueryMsg(a)) \in Msg
                      /\ question(servfail_reply(QueryMsg(a))) = <<a.name, a.qtype>>
                      /\ Clean(servfail_reply(QueryMsg(a)), seen)
  <2> SUFFICES ASSUME NEW a \in Asks
               PROVE  /\ a \in Ask /\ a.from \in Froms
                      /\ QueryMsg(a) \in Msg /\ LocalMsg(a) \in Msg /\ BadMsg(a) \in Msg
                      /\ question(QueryMsg(a)) = <<a.name, a.qtype>>
                      /\ question(LocalMsg(a)) = <<a.name, a.qtype>>
                      /\ question(BadMsg(a)) = <<a.name, a.qtype>>
                      /\ Clean(QueryMsg(a), seen) /\ Clean(LocalMsg(a), seen)
                      /\ Clean(BadMsg(a), seen)
                      /\ servfail_reply(QueryMsg(a)) \in Msg
                      /\ question(servfail_reply(QueryMsg(a))) = <<a.name, a.qtype>>
                      /\ Clean(servfail_reply(QueryMsg(a)), seen)
    OBVIOUS
  <2>1. a \in Ask /\ a.from \in Froms
    BY EnvAssumption DEF Ask, Froms
  <2>2. /\ QueryMsg(a).by = "self" /\ LocalMsg(a).by = "self" /\ BadMsg(a).by = "self"
    BY DEF QueryMsg, LocalMsg, BadMsg
  <2> QED
    BY <2>1, <2>2, OwnMsgType, RewriteType, CleanMsgs
<1>1. ASSUME NEW r \in Requests, NEW a \in Asks, OnBadQuery(r, a) PROVE AnswerInv'
  <2>1. outbox' = send_reply(outbox, r, BadMsg(a), "tcp", 0)
    BY <1>1 DEF OnBadQuery, send_reply, Sent
  <2> QED
    BY <1>0, <1>1, <2>1, ArriveFine DEF OnBadQuery
<1>2. ASSUME NEW r \in Requests, NEW a \in Asks, OnQueryLocal(r, a) PROVE AnswerInv'
  <2>1. PICK m \in {LocalMsg(a), QueryMsg(a)} :
          outbox' = send_reply(outbox, r, m, a.from, a.bufsz)
    BY <1>2 DEF OnQueryLocal
  <2>2. m \in Msg /\ question(m) = <<a.name, a.qtype>> /\ Clean(m, seen)
    BY <1>0, <2>1
  <2> QED
    BY <1>0, <1>2, <2>1, <2>2, ArriveFine DEF OnQueryLocal
<1>3. ASSUME NEW r \in Requests, NEW a \in Asks, OnQueryHit(r, a) PROVE AnswerInv'
  <2> DEFINE k == <<a.name, a.qtype>>
             m == cache[k].msg
             out == send_reply(outbox, r, m, a.from, a.bufsz)
  <2>1. /\ Arrives(r, a) /\ ~AnswersItself(a) /\ k \in DOMAIN cache
        /\ cache' = cache_hit(cache, k) /\ UNCHANGED <<verdict, seen>>
    BY <1>3 DEF OnQueryHit
  <2>2. m \in Msg /\ question(m) = k /\ Clean(m, seen)
    BY <2>1 DEF TypeOK, AnswerInv, CacheFine
  <2>3. /\ outbox' = out
        /\ \/ query_list' = query_list
           \/ \E qid, q : /\ query_list' = Put(query_list, qid, q)
                          /\ q.req = r /\ q.verdict = VerdictFlag(a)
                          /\ q.trust_msg = {}
    <3>1. CASE outbox' = out /\ UNCHANGED <<query_list, last_qid, asked>>
      BY <3>1
    <3>2. CASE Forward(r, a, RefreshFrom(a), out)
      <4>1. RefreshFrom(a) = "local" /\ RefreshFrom(a) \in Froms
        BY DEF RefreshFrom, Froms
      <4>2. \/ NotForwarded(r, a, RefreshFrom(a), out)
            \/ \E qid \in 0..NQid - 1, q \in Query :
                 Forwarded(r, a, RefreshFrom(a), out, qid, q)
        BY <1>0, <2>1, <3>2, <4>1, ForwardEffect
      <4> QED
        BY <4>1, <4>2 DEF NotForwarded, Forwarded
    <3> QED
      BY <1>3, <3>1, <3>2 DEF OnQueryHit
  <2> QED
    BY <1>0, <2>1, <2>2, <2>3, ArriveFine
<1>4. ASSUME NEW r \in Requests, NEW a \in Asks, OnQueryMiss(r, a) PROVE AnswerInv'
  <2> DEFINE m == servfail_reply(QueryMsg(a))
  <2>1. /\ Arrives(r, a) /\ ~AnswersItself(a) /\ Forward(r, a, a.from, outbox)
        /\ cache' = cache_miss(cache, <<a.name, a.qtype>>) /\ UNCHANGED <<verdict, seen>>
    BY <1>4 DEF OnQueryMiss
  <2>2. /\ outbox' \in {outbox, send_reply(outbox, r, m, a.from, a.bufsz)}
        /\ \/ query_list' = query_list
           \/ \E qid, q : /\ query_list' = Put(query_list, qid, q)
                          /\ q.req = r /\ q.verdict = VerdictFlag(a)
                          /\ q.trust_msg = {}
    <3>1. \/ NotForwarded(r, a, a.from, outbox)
          \/ \E qid \in 0..NQid - 1, q \in Query :
               Forwarded(r, a, a.from, outbox, qid, q)
      BY <1>0, <2>1, ForwardEffect
    <3> QED
      BY <3>1 DEF NotForwarded, Forwarded
  <2> QED
    BY <1>0, <2>1, <2>2, ArriveFine
<1>5. ASSUME UNCHANGED <<reqs, outbox, cache, verdict>>, seen \subseteq seen',
             DOMAIN query_list' \subseteq DOMAIN query_list,
             \A i \in DOMAIN query_list' : query_list'[i] = query_list[i]
      PROVE  AnswerInv'
  <2>1. QueriesFine'
    BY <1>5, QueriesStep DEF AnswerInv
  <2>2. OutboxFine' /\ CacheFine'
    BY <1>5, EvidenceGrows DEF AnswerInv, OutboxFine, CacheFine
  <2>3. VerdictFromEvidence'
    BY <1>5 DEF AnswerInv, VerdictFromEvidence, ChinaSaid
  <2> QED
    BY <2>1, <2>2, <2>3 DEF AnswerInv
<1>6. ASSUME NEW a \in asked, IgnoreReply(a) PROVE AnswerInv'
  BY <1>5, <1>6 DEF IgnoreReply
<1>7. ASSUME NEW d \in {0, 1}, LoopTop(d) PROVE AnswerInv'
  BY <1>5, <1>7 DEF LoopTop
<1>8. CASE ClockInBatch
  BY <1>5, <1>8 DEF ClockInBatch
<1>9. CASE UNCHANGED vars
  BY <1>5, <1>9 DEF vars
<1> QED
  BY <1>1, <1>2, <1>3, <1>4, <1>6, <1>7, <1>8, <1>9,
     ChinaReplyFine, TrustReplyFine, FirstReplyFine
  DEF Next, ClientStep, UpstreamStep

(* The invariants hold at the start, with the db file's messages cached. *)
LEMMA InitAnswer == Init => OneAnswerInv /\ FreshIdInv /\ AnswerInv
<1> SUFFICES ASSUME Init PROVE OneAnswerInv /\ FreshIdInv /\ AnswerInv
  OBVIOUS
<1>1. OneAnswerInv /\ FreshIdInv
  BY DEF Init, OneAnswerInv, FreshIdInv
<1>2. CacheFine
  BY DbAssumption DEF Init, CacheFine, DbEntry, CacheEntry, Clean
<1>3. OutboxFine /\ QueriesFine /\ VerdictFromEvidence
  BY DEF Init, OutboxFine, QueriesFine, VerdictFromEvidence
<1> QED
  BY <1>1, <1>2, <1>3 DEF AnswerInv

(* Together they are inductive. *)
LEMMA AnswersAlways ==
  ASSUME MaxReq < NQid
  PROVE  Spec => [](TypeOK /\ OneAnswerInv /\ FreshIdInv /\ AnswerInv)
<1>1. Init => TypeOK /\ OneAnswerInv /\ FreshIdInv /\ AnswerInv
  BY InitType, InitAnswer
<1>2. /\ TypeOK /\ OneAnswerInv /\ FreshIdInv /\ AnswerInv
      /\ [Next]_vars
      => (TypeOK /\ OneAnswerInv /\ FreshIdInv /\ AnswerInv)'
  BY NextType, NextOneAnswer, NextFreshId, NextAnswer
<1> QED
  BY <1>1, <1>2, PTL DEF Spec

(* What is sent or cached is clean. *)
LEMMA ServedIsClean ==
  ASSUME TypeOK, OneAnswerInv, AnswerInv, NEW m \in Served
  PROVE  Clean(m, seen)
<1>1. CASE \E k \in DOMAIN cache : m = cache[k].msg
  BY <1>1 DEF AnswerInv, CacheFine
<1>2. ASSUME NEW r \in Requests, NEW i \in DOMAIN outbox[r], m = outbox[r][i]
      PROVE  Clean(m, seen)
  <2>1. r \in 1..Len(reqs)
    BY <1>2 DEF OneAnswerInv, TypeOK, Requests
  <2> QED
    BY <1>2, <2>1 DEF AnswerInv, OutboxFine
<1>3. m \in SentToClients \/ m \in InCache
  BY DEF Served
<1>4. CASE m \in SentToClients
  <2>1. PICK r \in Requests : m \in {outbox[r][i] : i \in DOMAIN outbox[r]}
    BY <1>4, Zenon DEF SentToClients
  <2>2. PICK i \in DOMAIN outbox[r] : m = outbox[r][i]
    BY <2>1
  <2> QED
    BY <1>2, <2>2
<1>5. CASE m \in InCache
  BY <1>1, <1>5 DEF InCache
<1> QED
  BY <1>3, <1>4, <1>5

-----------------------------------------------------------------------------
(* The theorems *)

(* Matching replies by id alone is enough as long as the ids have not       *)
(* wrapped around: a client gets an answer to the question it asked         *)
(* (List.add, List.get).                                                    *)
THEOREM OwnQuestion ==
  ASSUME MaxReq < NQid
  PROVE  Spec => []AnswersItsOwnQuestion
<1>1. AnswerInv => AnswersItsOwnQuestion
  BY DEF AnswerInv, OutboxFine, AskedBy, AnswersItsOwnQuestion
<1> QED
  BY <1>1, AnswersAlways, PTL

(* The verdict cache holds what the ip test of a china reply said, and      *)
(* nothing else ever gets in (use_china_reply, verdict_cache.add).          *)
THEOREM VerdictsHaveEvidence ==
  ASSUME MaxReq < NQid
  PROVE  Spec => []VerdictFromEvidence
<1>1. AnswerInv => VerdictFromEvidence
  BY DEF AnswerInv
<1> QED
  BY <1>1, AnswersAlways, PTL

(* The purpose of the program: a china reply with a foreign address is      *)
(* neither sent nor cached for a tag:none name, unless an earlier china     *)
(* reply had a china address for the name (on_reply, use_china_reply).      *)
THEOREM NoPollution ==
  ASSUME MaxReq < NQid
  PROVE  Spec => []NoPollutedAnswer
<1>1. TypeOK /\ OneAnswerInv /\ AnswerInv => NoPollutedAnswer
  <2> SUFFICES ASSUME TypeOK, OneAnswerInv, AnswerInv, NEW m \in Served,
                      TagOf[m.name] = "none", is_A_AAAA(m.qtype), m.by = "chn",
                      test_ip(m) = "non_china_ip"
               PROVE  ChinaSaid(m.name, "is_china_ip")
    BY DEF NoPollutedAnswer
  <2>1. question(m) \notin DOMAIN DbCache
    BY DEF Served
  <2> QED
    BY <2>1, ServedIsClean DEF Clean, Unpolluted, Evidence, ChinaSaid
<1> QED
  BY <1>1, AnswersAlways, PTL

(* The trust group answers for a tag:none name only after the china group   *)
(* had its say and was rejected, in whichever order the two replies arrive  *)
(* and whatever the verdict cache has evicted (on_reply, use_china_reply).  *)
THEOREM TrustWaitsForChina ==
  ASSUME MaxReq < NQid
  PROVE  Spec => []TrustOnlyAfterRejection
<1>1. TypeOK /\ OneAnswerInv /\ AnswerInv => TrustOnlyAfterRejection
  <2> SUFFICES ASSUME TypeOK, OneAnswerInv, AnswerInv, NEW m \in Served,
                      TagOf[m.name] = "none", is_A_AAAA(m.qtype), m.by = "gfw"
               PROVE  Rejected(seen, m.name)
    BY DEF TrustOnlyAfterRejection, Rejected
  <2>1. question(m) \notin DOMAIN DbCache
    BY DEF Served
  <2> QED
    BY <2>1, ServedIsClean DEF Clean, Waited
<1> QED
  BY <1>1, AnswersAlways, PTL

-----------------------------------------------------------------------------
(* Served addresses are in the ipset *)

\* the addresses of m, if its tag has a set, are among those added
Routed(tag, m, I) ==
  tag \in AddIpTags /\ is_A_AAAA(m.qtype) /\ HasVerdict(m) => <<tag, m>> \in I

(* What was sent was added. *)
OutboxRouted ==
  \A r \in 1..Len(reqs) : \A i \in DOMAIN outbox[r] :
    Routed(TagOf[reqs[r].name], outbox[r][i], ipset)

(* So was what is cached, as far as the entry says so. *)
CacheRouted ==
  \A k \in DOMAIN cache :
    cache[k].added_ip => Routed(TagOf[k[1]], cache[k].msg, ipset)

RouteInv == OutboxRouted /\ CacheRouted

(* A message without addresses has nothing to add. *)
LEMMA NoAddressRouted ==
  ASSUME NEW m \in Msg, m.ip = "no_ip_found", NEW tag, NEW I
  PROVE  Routed(tag, m, I)
BY DEF Routed, HasVerdict, test_ip

(* Neither truncation nor a larger set undoes an addition. *)
LEMMA RoutedStays ==
  ASSUME NEW m \in Msg, NEW tag, NEW I, NEW J, I \subseteq J, Routed(tag, m, I)
  PROVE  /\ Routed(tag, m, J)
         /\ \A from, bufsz : Routed(tag, Sent(m, from, bufsz), J)
<1>1. Routed(tag, m, J)
  BY DEF Routed
<1>2. Routed(tag, truncate(m), J)
  BY RewriteEmpties, NoAddressRouted DEF Emptied
<1> QED
  BY <1>1, <1>2 DEF Sent

(* Sending an answer whose addresses were added. *)
LEMMA OutboxRoutedStep ==
  ASSUME TypeOK, OneAnswerInv, OutboxRouted, ipset \subseteq ipset',
         NEW r \in Requests, r \in 1..Len(reqs'),
         \/ UNCHANGED reqs
         \/ \E a \in Ask : Arrives(r, a),
         \/ outbox' = outbox
         \/ \E m \in Msg : \E from, bufsz :
              /\ outbox' = send_reply(outbox, r, m, from, bufsz)
              /\ Routed(TagOf[reqs'[r].name], m, ipset')
  PROVE  OutboxRouted'
<1> SUFFICES ASSUME NEW s \in 1..Len(reqs'), NEW i \in DOMAIN outbox'[s]
             PROVE  Routed(TagOf[reqs'[s].name], outbox'[s][i], ipset')
  BY DEF OutboxRouted
<1>1. /\ Len(reqs) \in Nat /\ Len(reqs') \in Nat
      /\ s \in 1..Len(reqs) => reqs'[s] = reqs[s]
      /\ s \notin 1..Len(reqs) => s = r /\ r > Len(reqs)
  BY ArrivesKeeps DEF TypeOK
<1>2. s \in Requests
  <2>1. CASE UNCHANGED reqs
    BY <2>1, BoundAssumption DEF TypeOK, Requests
  <2>2. CASE \E a \in Ask : Arrives(r, a)
    BY <2>2, ArrivesKeeps, BoundAssumption DEF TypeOK, Requests
  <2> QED
    BY <2>1, <2>2
<1>3. outbox \in [Requests -> Seq(Msg)]
  BY DEF TypeOK
<1>4. ASSUME s \in 1..Len(reqs), i \in DOMAIN outbox[s], outbox'[s][i] = outbox[s][i]
      PROVE  Routed(TagOf[reqs'[s].name], outbox'[s][i], ipset')
  <2>1. outbox[s][i] \in Msg
    BY <1>2, <1>3, <1>4
  <2>2. Routed(TagOf[reqs[s].name], outbox[s][i], ipset)
    BY <1>4 DEF OutboxRouted
  <2> QED
    BY <1>1, <1>4, <2>1, <2>2, RoutedStays
<1>5. s \notin 1..Len(reqs) => outbox[s] = <<>>
  BY <1>1 DEF OneAnswerInv
<1>6. CASE outbox' = outbox
  BY <1>4, <1>5, <1>6
<1>7. ASSUME NEW m \in Msg, NEW from, NEW bufsz,
             outbox' = send_reply(outbox, r, m, from, bufsz),
             Routed(TagOf[reqs'[r].name], m, ipset')
      PROVE  Routed(TagOf[reqs'[s].name], outbox'[s][i], ipset')
  <2> DEFINE w == Sent(m, from, bufsz)
  <2>1. CASE s # r
    BY <1>1, <1>2, <1>3, <1>4, <1>7, <2>1, SendReplyType
  <2>2. CASE s = r
    <3>1. w \in Msg
      BY SentType
    <3>2. Routed(TagOf[reqs'[r].name], w, ipset')
      BY <1>7, RoutedStays
    <3>3. outbox'[s] = Append(outbox[s], w)
      BY <1>3, <1>7, <2>2, SendReplyType
    <3>4. \/ i \in DOMAIN outbox[s] /\ outbox'[s][i] = outbox[s][i]
          \/ outbox'[s][i] = w
      BY <1>2, <1>3, <3>1, <3>3, AppendElements
    <3> QED
      BY <1>4, <1>5, <2>2, <3>2, <3>4
  <2> QED
    BY <2>1, <2>2
<1> QED
  BY <1>6, <1>7

(* A hit notes that the addresses are added, an add comes with its          *)
(* addresses added, and nothing else sets the flag.                         *)
LEMMA CacheRoutedStep ==
  ASSUME TypeOK, CacheRouted, ipset \subseteq ipset', NEW k, NEW m,
         \/ cache' = cache
         \/ /\ k \in DOMAIN cache /\ cache' = cache_hit(cache, k)
            /\ Routed(TagOf[k[1]], cache[k].msg, ipset')
         \/ cache' = cache_miss(cache, k)
         \/ cache' \in cache_add(cache, m) /\ Routed(TagOf[m.name], m, ipset')
  PROVE  CacheRouted'
<1>1. \A x \in DOMAIN cache :
        cache[x].added_ip => Routed(TagOf[x[1]], cache[x].msg, ipset')
  BY RoutedStays DEF CacheRouted, TypeOK
<1>2. CASE cache' = cache \/ cache' = cache_miss(cache, k)
  BY <1>1, <1>2 DEF CacheRouted, cache_miss, Without
<1>3. CASE /\ k \in DOMAIN cache /\ cache' = cache_hit(cache, k)
           /\ Routed(TagOf[k[1]], cache[k].msg, ipset')
  BY <1>1, <1>3 DEF CacheRouted, cache_hit, CacheEntry, Put
<1>4. CASE cache' \in cache_add(cache, m) /\ Routed(TagOf[m.name], m, ipset')
  <2>1. \/ cache' = cache
        \/ cache' = Put(cache, question(m), CacheEntry(m, TRUE))
        \/ \E old \in DOMAIN cache :
             cache' = Put(Without(cache, old), question(m), CacheEntry(m, TRUE))
    BY <1>4 DEF cache_add
  <2>2. \A x \in DOMAIN cache' :
          \/ x \in DOMAIN cache /\ cache'[x] = cache[x]
          \/ x = question(m) /\ cache'[x] = CacheEntry(m, TRUE)
    <3>1. CASE cache' = cache
      BY <3>1
    <3>2. CASE cache' = Put(cache, question(m), CacheEntry(m, TRUE))
      BY <3>2 DEF Put
    <3>3. ASSUME NEW old \in DOMAIN cache,
                 cache' = Put(Without(cache, old), question(m), CacheEntry(m, TRUE))
          PROVE  \A x \in DOMAIN cache' :
                   \/ x \in DOMAIN cache /\ cache'[x] = cache[x]
                   \/ x = question(m) /\ cache'[x] = CacheEntry(m, TRUE)
      BY <3>3 DEF Put, Without
    <3> QED
      BY <2>1, <3>1, <3>2, <3>3
  <2>3. CacheEntry(m, TRUE).msg = m /\ question(m)[1] = m.name
    BY DEF CacheEntry, question
  <2> QED
    BY <1>1, <1>4, <2>2, <2>3 DEF CacheRouted
<1> QED
  BY <1>2, <1>3, <1>4

(* The end of a query adds the addresses of what it sends and caches. *)
LEMMA EndRouted ==
  ASSUME TypeOK, OneAnswerInv, FreshIdInv, RouteInv, NEW a, a.qid \in DOMAIN query_list,
         NEW chosen \in Msg, NEW res,
         EndQuery(a, query_list[a.qid], chosen, res),
         chosen.qtype = a.msg.qtype,
         chosen.name = reqs[query_list[a.qid].req].name, UNCHANGED reqs
  PROVE  RouteInv'
<1> DEFINE q == query_list[a.qid]
           filtered == /\ a.msg.qtype = "AAAA"
                       /\ filter_reply(Ip6Filter[q.tag], chosen, res)
<1>1. PICK m : /\ m = IF filtered THEN empty_reply(chosen) ELSE chosen
               /\ ipset' = IF /\ is_A_AAAA(a.msg.qtype) /\ ~filtered
                              /\ q.tag \in AddIpTags /\ is_good(m)
                           THEN ipset \cup {<<q.tag, m>>} ELSE ipset
               /\ cache' \in cache_add(cache, m)
               /\ outbox' = IF q.from = "local" THEN outbox
                            ELSE send_reply(outbox, q.req, m, q.from, q.bufsz)
  BY DEF EndQuery
<1> HIDE DEF filtered
<1>2. q.req \in Requests /\ q.req \in 1..Len(reqs') /\ q.tag = TagOf[reqs[q.req].name]
  BY DEF TypeOK, FreshIdInv, Query, Requests
<1>3. m \in Msg /\ m.name = chosen.name /\ Routed(q.tag, m, ipset')
  <2>1. CASE filtered
    BY <1>1, <2>1, RewriteEmpties, NoAddressRouted DEF Emptied
  <2>2. CASE ~filtered
    <3>1. HasVerdict(m) => is_good(m)
      BY DEF HasVerdict, test_ip
    <3> QED
      BY <1>1, <2>2, <3>1 DEF Routed
  <2> QED
    BY <2>1, <2>2
<1>4. ipset \subseteq ipset'
  BY <1>1
<1>5. CacheRouted'
  BY <1>1, <1>2, <1>3, <1>4, CacheRoutedStep DEF RouteInv
<1>6. OutboxRouted'
  <2>1. \/ outbox' = outbox
        \/ outbox' = send_reply(outbox, q.req, m, q.from, q.bufsz)
    BY <1>1
  <2> QED
    BY <1>2, <1>3, <1>4, <2>1, OutboxRoutedStep DEF RouteInv
<1> QED
  BY <1>5, <1>6 DEF RouteInv

(* An arrival: at most one answer, with its addresses added. *)
LEMMA ArriveRouted ==
  ASSUME TypeOK, OneAnswerInv, RouteInv, NEW r \in Requests, NEW a \in Ask,
         Arrives(r, a), NEW m \in Msg, NEW from, NEW bufsz,
         outbox' \in {outbox, send_reply(outbox, r, m, from, bufsz)},
         ipset \subseteq ipset', Routed(TagOf[a.name], m, ipset'), NEW k,
         \/ cache' = cache
         \/ /\ k \in DOMAIN cache /\ cache' = cache_hit(cache, k)
            /\ Routed(TagOf[k[1]], cache[k].msg, ipset')
         \/ cache' = cache_miss(cache, k)
  PROVE  RouteInv'
<1>1. r = Len(reqs) + 1 /\ Len(reqs') = Len(reqs) + 1 /\ Len(reqs) \in Nat /\ reqs'[r] = a
  BY ArrivesKeeps
<1>2. r \in 1..Len(reqs')
  BY <1>1
<1>3. OutboxRouted'
  BY <1>1, <1>2, OutboxRoutedStep DEF RouteInv
<1>4. CacheRouted'
  BY CacheRoutedStep DEF RouteInv
<1> QED
  BY <1>3, <1>4 DEF RouteInv

(* Every handler preserves the invariant. *)
LEMMA NextRouted ==
  ASSUME TypeOK, OneAnswerInv, FreshIdInv, AnswerInv, RouteInv, [Next]_vars
  PROVE  RouteInv'
<1>0. \A a \in Asks : /\ a \in Ask /\ a.from \in Froms
                      /\ QueryMsg(a) \in Msg /\ LocalMsg(a) \in Msg /\ BadMsg(a) \in Msg
                      /\ servfail_reply(QueryMsg(a)) \in Msg
                      /\ QueryMsg(a).ip = "no_ip_found" /\ LocalMsg(a).ip = "no_ip_found"
                      /\ BadMsg(a).ip = "no_ip_found"
                      /\ servfail_reply(QueryMsg(a)).ip = "no_ip_found"
  <2> SUFFICES ASSUME NEW a \in Asks
               PROVE  /\ a \in Ask /\ a.from \in Froms
                      /\ QueryMsg(a) \in Msg /\ LocalMsg(a) \in Msg /\ BadMsg(a) \in Msg
                      /\ servfail_reply(QueryMsg(a)) \in Msg
                      /\ QueryMsg(a).ip = "no_ip_found" /\ LocalMsg(a).ip = "no_ip_found"
                      /\ BadMsg(a).ip = "no_ip_found"
                      /\ servfail_reply(QueryMsg(a)).ip = "no_ip_found"
    OBVIOUS
  <2>1. a \in Ask /\ a.from \in Froms
    BY EnvAssumption DEF Ask, Froms
  <2>2. /\ QueryMsg(a).ip = "no_ip_found" /\ LocalMsg(a).ip = "no_ip_found"
        /\ BadMsg(a).ip = "no_ip_found"
    BY DEF QueryMsg, LocalMsg, BadMsg
  <2> QED
    BY <2>1, <2>2, OwnMsgType, RewriteEmpties DEF Emptied
<1>1. ASSUME NEW r \in Requests, NEW a \in Asks, OnBadQuery(r, a) PROVE RouteInv'
  <2>1. outbox' = send_reply(outbox, r, BadMsg(a), "tcp", 0)
    BY <1>1 DEF OnBadQuery, send_reply, Sent
  <2>2. Routed(TagOf[a.name], BadMsg(a), ipset')
    BY <1>0, NoAddressRouted
  <2> QED
    BY <1>0, <1>1, <2>1, <2>2, ArriveRouted DEF OnBadQuery
<1>2. ASSUME NEW r \in Requests, NEW a \in Asks, OnQueryLocal(r, a) PROVE RouteInv'
  <2>1. PICK m \in {LocalMsg(a), QueryMsg(a)} :
          outbox' = send_reply(outbox, r, m, a.from, a.bufsz)
    BY <1>2 DEF OnQueryLocal
  <2>2. m \in Msg /\ Routed(TagOf[a.name], m, ipset')
    BY <1>0, <2>1, NoAddressRouted
  <2> QED
    BY <1>0, <1>2, <2>1, <2>2, ArriveRouted DEF OnQueryLocal
<1>3. ASSUME NEW r \in Requests, NEW a \in Asks, OnQueryHit(r, a) PROVE RouteInv'
  <2> DEFINE k == <<a.name, a.qtype>>
             m == cache[k].msg
             out == send_reply(outbox, r, m, a.from, a.bufsz)
  <2>1. /\ Arrives(r, a) /\ ~AnswersItself(a) /\ k \in DOMAIN cache
        /\ cache' = cache_hit(cache, k)
    BY <1>3 DEF OnQueryHit
  <2>2. m \in Msg /\ m.qtype = a.qtype
    BY <2>1 DEF TypeOK, AnswerInv, CacheFine, question
  <2>3. ipset \subseteq ipset' /\ Routed(TagOf[a.name], m, ipset')
    <3>1. ipset' = IF /\ ~cache[k].added_ip /\ TagOf[a.name] \in AddIpTags
                      /\ is_A_AAAA(a.qtype) /\ is_good(m)
                   THEN ipset \cup {<<TagOf[a.name], m>>} ELSE ipset
      BY <1>3 DEF OnQueryHit
    <3>2. HasVerdict(m) => is_good(m)
      BY DEF HasVerdict, test_ip
    <3>3. cache[k].added_ip => Routed(TagOf[a.name], m, ipset)
      BY <2>1 DEF RouteInv, CacheRouted
    <3> HIDE DEF m
    <3> QED
      BY <2>2, <3>1, <3>2, <3>3 DEF Routed
  <2>4. outbox' = out
    <3>1. CASE Forward(r, a, RefreshFrom(a), out)
      <4>1. RefreshFrom(a) = "local" /\ RefreshFrom(a) \in Froms
        BY DEF RefreshFrom, Froms
      <4>2. \/ NotForwarded(r, a, RefreshFrom(a), out)
            \/ \E qid \in 0..NQid - 1, q \in Query :
                 Forwarded(r, a, RefreshFrom(a), out, qid, q)
        BY <1>0, <2>1, <3>1, <4>1, ForwardEffect
      <4> QED
        BY <4>1, <4>2 DEF NotForwarded, Forwarded
    <3> QED
      BY <1>3, <3>1 DEF OnQueryHit
  <2>5. k[1] = a.name
    OBVIOUS
  <2> HIDE DEF k
  <2> QED
    BY <1>0, <2>1, <2>2, <2>3, <2>4, <2>5, ArriveRouted
<1>4. ASSUME NEW r \in Requests, NEW a \in Asks, OnQueryMiss(r, a) PROVE RouteInv'
  <2> DEFINE m == servfail_reply(QueryMsg(a))
  <2>1. /\ Arrives(r, a) /\ ~AnswersItself(a) /\ Forward(r, a, a.from, outbox)
        /\ cache' = cache_miss(cache, <<a.name, a.qtype>>) /\ UNCHANGED ipset
    BY <1>4 DEF OnQueryMiss
  <2>2. outbox' \in {outbox, send_reply(outbox, r, m, a.from, a.bufsz)}
    <3>1. \/ NotForwarded(r, a, a.from, outbox)
          \/ \E qid \in 0..NQid - 1, q \in Query :
               Forwarded(r, a, a.from, outbox, qid, q)
      BY <1>0, <2>1, ForwardEffect
    <3> QED
      BY <3>1 DEF NotForwarded, Forwarded
  <2>3. Routed(TagOf[a.name], m, ipset')
    BY <1>0, NoAddressRouted
  <2> QED
    BY <1>0, <2>1, <2>2, <2>3, ArriveRouted
<1>5. ASSUME UNCHANGED <<reqs, outbox, cache, ipset>> PROVE RouteInv'
  BY <1>5 DEF RouteInv, OutboxRouted, CacheRouted
<1>6. ASSUME NEW a \in asked, Matches(a)
      PROVE  LET q == query_list[a.qid]
             IN /\ a.qid \in DOMAIN query_list /\ UNCHANGED reqs /\ q \in Query
                /\ a.msg \in Msg /\ a.msg.name = reqs[q.req].name
                /\ \A m \in q.trust_msg : /\ m \in Msg /\ m.name = reqs[q.req].name
                                          /\ m.qtype = a.msg.qtype
  <2> DEFINE q == query_list[a.qid]
  <2>1. /\ a.qid \in DOMAIN query_list /\ UNCHANGED reqs /\ q \in Query /\ a.msg \in Msg
        /\ question(a.msg) = AskedBy(reqs, q.req) /\ a.msg.name = reqs[q.req].name
    BY <1>6, MatchFacts
  <2>2. \A m \in q.trust_msg : m \in Msg /\ question(m) = AskedBy(reqs, q.req)
    BY <2>1 DEF AnswerInv, QueriesFine, Query
  <2> QED
    BY <2>1, <2>2 DEF question, AskedBy
<1>7. ASSUME NEW a \in asked, OnChinaReply(a) PROVE RouteInv'
  <2> DEFINE q == query_list[a.qid]
             res == IF q.verdict = "is_china" THEN {} ELSE {test_ip(a.msg)}
  <2>1. /\ a.qid \in DOMAIN query_list /\ UNCHANGED reqs /\ q \in Query
        /\ a.msg \in Msg /\ a.msg.name = reqs[q.req].name
        /\ \A m \in q.trust_msg : /\ m \in Msg /\ m.name = reqs[q.req].name
                                  /\ m.qtype = a.msg.qtype
    BY <1>6, <1>7 DEF OnChinaReply
  <2>2. /\ servfail_reply(a.msg) \in Msg /\ servfail_reply(a.msg).name = a.msg.name
        /\ servfail_reply(a.msg).qtype = a.msg.qtype
    BY <2>1, RewriteEmpties DEF Emptied
  <2>3. \/ \E chosen \in Msg : /\ EndQuery(a, q, chosen, res)
                               /\ chosen.name = reqs[q.req].name
                               /\ chosen.qtype = a.msg.qtype
        \/ UNCHANGED <<cache, ipset, outbox>>
    BY <1>7, <2>1, <2>2 DEF OnChinaReply
  <2> QED
    BY <1>5, <2>1, <2>3, EndRouted
<1>8. ASSUME NEW a \in asked, OnTrustReply(a) PROVE RouteInv'
  <2>1. Matches(a) /\ (\/ EndQuery(a, query_list[a.qid], a.msg, {})
                       \/ UNCHANGED <<cache, ipset, outbox>>)
    BY <1>8 DEF OnTrustReply
  <2> QED
    BY <1>5, <1>6, <2>1, EndRouted
<1>9. ASSUME NEW a \in asked, OnFirstReply(a) PROVE RouteInv'
  BY <1>6, <1>9, EndRouted DEF OnFirstReply
<1>10. ASSUME NEW a \in asked, IgnoreReply(a) PROVE RouteInv'
  BY <1>5, <1>10 DEF IgnoreReply
<1>11. ASSUME NEW d \in {0, 1}, LoopTop(d) PROVE RouteInv'
  BY <1>5, <1>11 DEF LoopTop
<1>12. CASE ClockInBatch
  BY <1>5, <1>12 DEF ClockInBatch
<1>13. CASE UNCHANGED vars
  BY <1>5, <1>13 DEF vars
<1> QED
  BY <1>1, <1>2, <1>3, <1>4, <1>7, <1>8, <1>9, <1>10, <1>11, <1>12, <1>13
  DEF Next, ClientStep, UpstreamStep

(* An address that reaches a client is in the ipset of its tag by then:     *)
(* also one that was loaded from the db file, cached by a refresh nobody    *)
(* waited for, or hit again (on_query, on_reply, cache.get, dns_add_ip).    *)
THEOREM ServedAddressesAreInTheSet ==
  ASSUME MaxReq < NQid
  PROVE  Spec => []ServedIpsAreRouted
<1>1. Init => RouteInv
  BY DEF Init, RouteInv, OutboxRouted, CacheRouted, DbEntry, CacheEntry
<1>2. /\ TypeOK /\ OneAnswerInv /\ FreshIdInv /\ AnswerInv /\ RouteInv
      /\ [Next]_vars
      => RouteInv'
  BY NextRouted
<1>3. RouteInv => ServedIpsAreRouted
  BY DEF RouteInv, OutboxRouted, Routed, ServedIpsAreRouted
<1> QED
  BY <1>1, <1>2, <1>3, AnswersAlways, PTL DEF Spec

-----------------------------------------------------------------------------
(* The race: what a query waits for *)

\* q is a query whose replies race
Racing(q, R) == q.tag = "none" /\ is_A_AAAA(R[q.req].qtype)

\* the replies of A to q from the group
RepliesTo(q, A, grp) == {x \in A : x.req = q.req /\ x.grp = grp}

\* the group has something to say to q, and none of it has been used: it is
\* not in S, or it is dropped as truncated whenever it comes
Owes(q, A, S, grp) ==
  /\ RepliesTo(q, A, grp) # {}
  /\ \A x \in RepliesTo(q, A, grp) : x \notin S \/ DropTc(q, x.msg)

(* A query that does not race waits for some group, and has used nothing.   *)
WaitsForFirst(q, A, S) ==
  /\ \E x \in A : x.req = q.req
  /\ \A x \in A : x.req = q.req => x \notin S \/ DropTc(q, x.msg)

(* A racing query waits for the china group until it has a verdict, and for *)
(* the trust group until that one has answered, unless it was not reached.  *)
WaitsForVerdict(q, A, S) ==
  /\ q.verdict # "non_china" => Owes(q, A, S, "chn")
  /\ q.verdict # "is_china" /\ q.trust_msg = {} /\ ~q.trust_failed => Owes(q, A, S, "gfw")
  /\ q.verdict = "non_china" => q.trust_msg = {} /\ ~q.trust_failed

WaitInv ==
  \A i \in DOMAIN query_list :
    IF Racing(query_list[i], reqs) THEN WaitsForVerdict(query_list[i], asked, seen)
                                   ELSE WaitsForFirst(query_list[i], asked, seen)

(* A reply carries the id of the query it belongs to: the converse of what  *)
(* FreshIdInv says.                                                         *)
OwnerInv ==
  \A x \in asked, i \in DOMAIN query_list : x.req = query_list[i].req => x.qid = i

(* What the outcome of a race rests on: a stored trust reply is one of the  *)
(* replies to the query, a group that was not reached has no reply, and a   *)
(* non_china verdict means no china reply or a rejected one.                *)
RaceFacts(q, A) ==
  /\ \A m \in q.trust_msg : \E x \in RepliesTo(q, A, "gfw") : x.msg = m
  /\ q.trust_failed => RepliesTo(q, A, "gfw") = {}
  /\ q.verdict = "non_china"
       => \/ RepliesTo(q, A, "chn") = {}
          \/ \E x \in RepliesTo(q, A, "chn") : ~use_china_reply(x.msg)

RaceInv == \A i \in DOMAIN query_list : RaceFacts(query_list[i], asked)

(* What this program answers itself never gets into the list. *)
UnfilteredInv == \A i \in DOMAIN query_list : ~AnswersItself(reqs[query_list[i].req])

-----------------------------------------------------------------------------
(* The steps of a race *)

\* queries leave the list or stay as they are, and a reply that comes in is
\* dropped by the query that stays
KeepsRaces ==
  /\ asked' = asked /\ \A s \in 1..Len(reqs) : reqs'[s] = reqs[s]
  /\ DOMAIN query_list' \subseteq DOMAIN query_list
  /\ \A i \in DOMAIN query_list' : query_list'[i] = query_list[i]
  /\ seen \subseteq seen'
  /\ \A x \in seen' \ seen :
       x.qid \in DOMAIN query_list' => DropTc(query_list[x.qid], x.msg)

\* reply a of the group meets the racing query q with its id, which becomes p
ChangesRace(a, grp, q, p) ==
  /\ a \in asked /\ a.grp = grp /\ seen' = seen \cup {a}
  /\ a.qid \in DOMAIN query_list /\ q = query_list[a.qid] /\ Racing(q, reqs)
  /\ a.req = q.req
  /\ DOMAIN query_list' = DOMAIN query_list /\ query_list'[a.qid] = p
  /\ \A i \in DOMAIN query_list \ {a.qid} : query_list'[i] = query_list[i]
  /\ p.req = q.req /\ p.from = q.from /\ p.tag = q.tag
  /\ p.trust_failed = q.trust_failed
  /\ UNCHANGED <<reqs, asked>>

\* it is the china reply, rejected, and the query waits for the trust group
Rejects(a, q, p) ==
  /\ ChangesRace(a, "chn", q, p)
  /\ ~use_china_reply(a.msg) /\ q.verdict # "is_china"
  /\ q.trust_msg = {} /\ ~q.trust_failed
  /\ p.verdict = "non_china" /\ p.trust_msg = {}

\* it is the trust reply, stored, and the query waits for the china group
Stores(a, q, p) ==
  /\ ChangesRace(a, "gfw", q, p)
  /\ q.verdict # "non_china" /\ p.verdict = q.verdict /\ p.trust_msg # {}
  /\ \A m \in p.trust_msg : m \in q.trust_msg \/ m = a.msg

\* request r enters the list as q
Enters(r, a, qid, q) ==
  /\ r = Len(reqs) + 1 /\ Len(reqs') = Len(reqs) + 1 /\ reqs'[r] = a
  /\ \A s \in 1..Len(reqs) : reqs'[s] = reqs[s]
  /\ seen' = seen /\ ~AnswersItself(a)
  /\ \E from, out : Forwarded(r, a, from, out, qid, q)

(* A step does one of these things to the races. *)
LEMMA RaceStep ==
  ASSUME TypeOK, FreshIdInv, [Next]_vars
  PROVE  \/ KeepsRaces
         \/ \E a, q, p : Rejects(a, q, p)
         \/ \E a, q, p : Stores(a, q, p)
         \/ \E r, qid : \E a \in Ask, q \in Query : Enters(r, a, qid, q)
<1> DEFINE Goal == \/ KeepsRaces
                   \/ \E a, q, p : Rejects(a, q, p)
                   \/ \E a, q, p : Stores(a, q, p)
                   \/ \E r, qid : \E a \in Ask, q \in Query : Enters(r, a, qid, q)
<1>0. \A a \in Asks : a \in Ask /\ a.from \in Froms
  BY EnvAssumption DEF Ask, Froms
<1>1. ASSUME NEW r \in Requests, NEW a \in Ask, Arrives(r, a),
             UNCHANGED <<query_list, asked, seen>>
      PROVE  KeepsRaces
  BY <1>1, ArrivesKeeps DEF KeepsRaces
<1>2. ASSUME NEW r \in Requests, NEW a \in Ask, Arrives(r, a), ~AnswersItself(a),
             NEW from \in Froms, NEW out, Forward(r, a, from, out), UNCHANGED seen
      PROVE  Goal
  <2>1. CASE NotForwarded(r, a, from, out)
    BY <1>1, <1>2, <2>1 DEF NotForwarded
  <2>2. ASSUME NEW qid \in 0..NQid - 1, NEW q \in Query, Forwarded(r, a, from, out, qid, q)
        PROVE  Enters(r, a, qid, q)
    BY <1>2, <2>2, ArrivesKeeps DEF Enters
  <2> QED
    BY <1>2, <2>1, <2>2, ForwardEffect
<1>3. ASSUME NEW r \in Requests, NEW a \in Asks, OnBadQuery(r, a) PROVE Goal
  BY <1>0, <1>1, <1>3 DEF OnBadQuery
<1>4. ASSUME NEW r \in Requests, NEW a \in Asks, OnQueryLocal(r, a) PROVE Goal
  BY <1>0, <1>1, <1>4 DEF OnQueryLocal
<1>5. ASSUME NEW r \in Requests, NEW a \in Asks, OnQueryHit(r, a) PROVE Goal
  <2>1. Arrives(r, a) /\ ~AnswersItself(a) /\ UNCHANGED seen
    BY <1>5 DEF OnQueryHit
  <2>2. \/ UNCHANGED <<query_list, asked>>
        \/ \E out : Forward(r, a, RefreshFrom(a), out)
    BY <1>5 DEF OnQueryHit
  <2>3. RefreshFrom(a) \in Froms
    BY DEF RefreshFrom, Froms
  <2> QED
    BY <1>0, <1>1, <1>2, <2>1, <2>2, <2>3
<1>6. ASSUME NEW r \in Requests, NEW a \in Asks, OnQueryMiss(r, a) PROVE Goal
  BY <1>0, <1>2, <1>6 DEF OnQueryMiss
<1>7. ASSUME NEW a \in asked, IgnoreReply(a) PROVE KeepsRaces
  BY <1>7 DEF IgnoreReply, KeepsRaces
<1>8. ASSUME NEW a \in asked, Matches(a)
      PROVE  /\ a.qid \in DOMAIN query_list /\ query_list[a.qid] \in Query
             /\ a.req = query_list[a.qid].req /\ seen' = seen \cup {a}
             /\ UNCHANGED <<reqs, asked>>
             /\ a.msg.qtype = reqs[query_list[a.qid].req].qtype
  <2>1. question(a.msg) = AskedBy(reqs, query_list[a.qid].req)
    BY <1>8, MatchFacts
  <2> QED
    BY <1>8, <2>1 DEF Matches, TypeOK, FreshIdInv, question, AskedBy
<1>9. ASSUME NEW a \in asked, Matches(a), NEW chosen, NEW res,
             EndQuery(a, query_list[a.qid], chosen, res)
      PROVE  KeepsRaces
  <2>1. /\ DOMAIN query_list' = DOMAIN query_list \ {a.qid}
        /\ \A i \in DOMAIN query_list' : query_list'[i] = query_list[i]
    BY <1>9 DEF EndQuery, Without
  <2> QED
    BY <1>8, <1>9, <2>1 DEF KeepsRaces
<1>10. ASSUME NEW a \in asked, OnChinaReply(a) PROVE Goal
  <2> DEFINE q == query_list[a.qid]
             p == [q EXCEPT !.verdict = "non_china"]
  <2>1. Matches(a) /\ a.grp = "chn" /\ Races(q, a.msg)
    BY <1>10 DEF OnChinaReply
  <2>2. CASE \E chosen, res : EndQuery(a, q, chosen, res)
    BY <1>9, <2>1, <2>2
  <2>3. CASE /\ q.verdict # "is_china" /\ ~use_china_reply(a.msg)
             /\ q.trust_msg = {} /\ ~q.trust_failed /\ RejectChina(a, q)
    <3>1. /\ p.req = q.req /\ p.from = q.from /\ p.tag = q.tag
          /\ p.trust_failed = q.trust_failed /\ p.trust_msg = q.trust_msg
          /\ p.verdict = "non_china"
      BY <1>8, <2>1 DEF Query
    <3>2. /\ DOMAIN query_list' = DOMAIN query_list /\ query_list'[a.qid] = p
          /\ \A i \in DOMAIN query_list \ {a.qid} : query_list'[i] = query_list[i]
      BY <1>8, <2>1, <2>3 DEF RejectChina, Put
    <3>3. Racing(q, reqs)
      BY <1>8, <2>1 DEF Racing, Races
    <3>4. Rejects(a, q, p)
      BY <1>8, <2>1, <2>3, <3>1, <3>2, <3>3 DEF Rejects, ChangesRace
    <3> QED
      BY <3>4
  <2> QED
    BY <1>10, <2>2, <2>3 DEF OnChinaReply
<1>11. ASSUME NEW a \in asked, OnTrustReply(a) PROVE Goal
  <2> DEFINE q == query_list[a.qid]
             p == [q EXCEPT !.trust_msg = IF @ = {} THEN {a.msg} ELSE @]
  <2>1. Matches(a) /\ a.grp = "gfw" /\ Races(q, a.msg)
    BY <1>11 DEF OnTrustReply
  <2>2. CASE EndQuery(a, q, a.msg, {})
    BY <1>9, <2>1, <2>2
  <2>3. CASE q.verdict # "non_china" /\ query_list' = Put(query_list, a.qid, p)
    <3>1. /\ p.req = q.req /\ p.from = q.from /\ p.tag = q.tag
          /\ p.trust_failed = q.trust_failed /\ p.verdict = q.verdict
          /\ p.trust_msg = IF q.trust_msg = {} THEN {a.msg} ELSE q.trust_msg
      BY <1>8, <2>1 DEF Query
    <3>2. /\ DOMAIN query_list' = DOMAIN query_list /\ query_list'[a.qid] = p
          /\ \A i \in DOMAIN query_list \ {a.qid} : query_list'[i] = query_list[i]
      BY <1>8, <2>1, <2>3 DEF Put
    <3>3. Racing(q, reqs)
      BY <1>8, <2>1 DEF Racing, Races
    <3>4. p.trust_msg # {} /\ \A m \in p.trust_msg : m \in q.trust_msg \/ m = a.msg
      BY <3>1
    <3>5. Stores(a, q, p)
      BY <1>8, <2>1, <2>3, <3>1, <3>2, <3>3, <3>4 DEF Stores, ChangesRace
    <3> QED
      BY <3>5
  <2> QED
    BY <1>11, <2>2, <2>3 DEF OnTrustReply, TrustMayAnswer
<1>12. ASSUME NEW a \in asked, OnFirstReply(a) PROVE Goal
  BY <1>9, <1>12 DEF OnFirstReply
<1>13. ASSUME NEW d \in {0, 1}, LoopTop(d) PROVE KeepsRaces
  BY <1>13 DEF LoopTop, KeepsRaces
<1>14. CASE ClockInBatch
  BY <1>14 DEF ClockInBatch, KeepsRaces
<1>15. CASE UNCHANGED vars
  BY <1>15 DEF vars, KeepsRaces
<1> QED
  BY <1>3, <1>4, <1>5, <1>6, <1>7, <1>10, <1>11, <1>12, <1>13, <1>14, <1>15
  DEF Next, ClientStep, UpstreamStep

\* the query that enters the list and the replies to it are new, the others
\* are as they were
EntersAlone(r, a, qid, q) ==
  /\ DOMAIN query_list' = DOMAIN query_list \cup {qid} /\ query_list'[qid] = q
  /\ qid \notin DOMAIN query_list
  /\ \A i \in DOMAIN query_list : query_list'[i] = query_list[i]
  /\ q.req = r /\ q.tag = TagOf[a.name] /\ q.verdict = VerdictFlag(a)
  /\ q.trust_msg = {} /\ reqs'[r] = a
  /\ asked \subseteq asked' /\ seen' = seen
  /\ \A x \in asked' : x \in asked \/ (x.req = r /\ x.qid = qid)
  /\ \A x \in asked : x.req # r /\ x.req \in 1..Len(reqs)
  /\ \A x \in seen' : x.req # r
  /\ \A i \in DOMAIN query_list : /\ query_list[i].req # r
                                  /\ query_list[i].req \in 1..Len(reqs)
  /\ Reached(r, a, q)

(* That is what an entering query does. *)
LEMMA EntersFacts ==
  ASSUME TypeOK, FreshIdInv, NEW r, NEW a \in Ask, NEW qid, NEW q \in Query,
         Enters(r, a, qid, q)
  PROVE  EntersAlone(r, a, qid, q)
<1>1. /\ r = Len(reqs) + 1 /\ Len(reqs) \in Nat /\ reqs'[r] = a /\ seen' = seen
  BY DEF Enters, TypeOK
<1>2. PICK from, out : Forwarded(r, a, from, out, qid, q)
  BY DEF Enters
<1>3. /\ DOMAIN query_list' = DOMAIN query_list \cup {qid} /\ query_list'[qid] = q
      /\ qid \notin DOMAIN query_list
      /\ \A i \in DOMAIN query_list : query_list'[i] = query_list[i]
  BY <1>2 DEF Forwarded, Put
<1>4. /\ q.req = r /\ q.tag = TagOf[a.name] /\ q.verdict = VerdictFlag(a)
      /\ q.trust_msg = {} /\ asked \subseteq asked' /\ Reached(r, a, q)
      /\ \A x \in asked' : x \in asked \/ (x.req = r /\ x.qid = qid)
  BY <1>2 DEF Forwarded
<1>5. /\ \A x \in asked : x.req # r /\ x.req \in 1..Len(reqs)
      /\ \A i \in DOMAIN query_list : /\ query_list[i].req # r
                                      /\ query_list[i].req \in 1..Len(reqs)
  BY <1>1 DEF TypeOK, FreshIdInv, Query, Reply, Requests
<1>6. \A x \in seen' : x.req # r
  BY <1>1, <1>5 DEF TypeOK
<1> QED
  BY <1>1, <1>3, <1>4, <1>5, <1>6 DEF EntersAlone

(* Every step keeps the owners of the replies. *)
LEMMA NextOwner ==
  ASSUME TypeOK, FreshIdInv, OwnerInv, [Next]_vars
  PROVE  OwnerInv'
<1>1. CASE KeepsRaces
  BY <1>1 DEF KeepsRaces, OwnerInv
<1>2. ASSUME NEW a, NEW grp, NEW q, NEW p, ChangesRace(a, grp, q, p) PROVE OwnerInv'
  BY <1>2 DEF ChangesRace, OwnerInv
<1>3. ASSUME NEW r, NEW qid, NEW a \in Ask, NEW q \in Query, Enters(r, a, qid, q)
      PROVE  OwnerInv'
  <2>0. EntersAlone(r, a, qid, q)
    BY <1>3, EntersFacts
  <2>1. /\ DOMAIN query_list' = DOMAIN query_list \cup {qid} /\ query_list'[qid] = q
        /\ \A i \in DOMAIN query_list : query_list'[i] = query_list[i]
        /\ q.req = r
        /\ \A x \in asked' : x \in asked \/ (x.req = r /\ x.qid = qid)
        /\ \A x \in asked : x.req # r
        /\ \A i \in DOMAIN query_list : query_list[i].req # r
    BY <2>0 DEF EntersAlone
  <2> QED
    BY <2>1 DEF OwnerInv
<1> QED
  BY <1>1, <1>2, <1>3, RaceStep DEF Rejects, Stores

(* What a race rests on does not change when other queries come and go. *)
LEMMA RaceFactsKept ==
  ASSUME NEW q, NEW A, NEW A2, A \subseteq A2, \A x \in A2 : x.req = q.req => x \in A,
         RaceFacts(q, A)
  PROVE  RaceFacts(q, A2)
<1>1. \A grp : RepliesTo(q, A2, grp) = RepliesTo(q, A, grp)
  BY DEF RepliesTo
<1> QED
  BY <1>1 DEF RaceFacts

(* Every step keeps the facts that decide a race. *)
LEMMA NextRace ==
  ASSUME TypeOK, FreshIdInv, OwnerInv, RaceInv, [Next]_vars
  PROVE  RaceInv'
<1>1. CASE KeepsRaces
  BY <1>1 DEF KeepsRaces, RaceInv
<1>2. ASSUME NEW a, NEW q, NEW p, Rejects(a, q, p) PROVE RaceInv'
  <2>1. ChangesRace(a, "chn", q, p) /\ RaceFacts(q, asked)
    BY <1>2 DEF Rejects, ChangesRace, RaceInv
  <2>2. \A grp : RepliesTo(p, asked, grp) = RepliesTo(q, asked, grp)
    BY <2>1 DEF ChangesRace, RepliesTo
  <2>3. a \in RepliesTo(p, asked, "chn") /\ ~use_china_reply(a.msg)
    BY <1>2, <2>1 DEF ChangesRace, RepliesTo, Rejects
  <2>4. RaceFacts(p, asked)
    BY <1>2, <2>1, <2>2, <2>3 DEF Rejects, ChangesRace, RaceFacts
  <2> QED
    BY <2>1, <2>4 DEF RaceInv, ChangesRace
<1>3. ASSUME NEW a, NEW q, NEW p, Stores(a, q, p) PROVE RaceInv'
  <2>1. ChangesRace(a, "gfw", q, p) /\ RaceFacts(q, asked)
    BY <1>3 DEF Stores, ChangesRace, RaceInv
  <2>2. \A grp : RepliesTo(p, asked, grp) = RepliesTo(q, asked, grp)
    BY <2>1 DEF ChangesRace, RepliesTo
  <2>3. a \in RepliesTo(p, asked, "gfw")
    BY <2>1 DEF ChangesRace, RepliesTo
  <2>4. RaceFacts(p, asked)
    BY <1>3, <2>1, <2>2, <2>3 DEF Stores, ChangesRace, RaceFacts
  <2> QED
    BY <2>1, <2>4 DEF RaceInv, ChangesRace
<1>4. ASSUME NEW r, NEW qid, NEW a \in Ask, NEW q \in Query, Enters(r, a, qid, q)
      PROVE  RaceInv'
  <2>0. EntersAlone(r, a, qid, q)
    BY <1>4, EntersFacts
  <2>1. /\ DOMAIN query_list' = DOMAIN query_list \cup {qid} /\ query_list'[qid] = q
        /\ \A i \in DOMAIN query_list : query_list'[i] = query_list[i]
        /\ q.req = r /\ q.verdict = VerdictFlag(a) /\ q.trust_msg = {}
        /\ asked \subseteq asked'
        /\ \A x \in asked' : x \in asked \/ x.req = r
        /\ \A x \in asked : x.req # r
        /\ \A i \in DOMAIN query_list : query_list[i].req # r
        /\ Reached(r, a, q)
    BY <2>0 DEF EntersAlone
  <2>2. \A i \in DOMAIN query_list : RaceFacts(query_list[i], asked')
    BY <2>1, RaceFactsKept DEF RaceInv
  <2>3. PICK sent \in SUBSET Targets(TagOf[a.name], VerdictFlag(a)) :
          /\ q.trust_failed = TrustFailed(TagOf[a.name],
                                Targets(TagOf[a.name], VerdictFlag(a)), sent)
          /\ \A x \in asked' \ asked : x.grp \in sent
    BY <2>1 DEF Reached
  <2>4. \A grp : grp \notin sent => RepliesTo(q, asked', grp) = {}
    BY <2>1, <2>3 DEF RepliesTo
  <2>5. q.trust_failed => "gfw" \notin sent
    BY <2>3 DEF TrustFailed
  <2>6. q.verdict = "non_china" => "chn" \notin sent
    BY <2>1, <2>3 DEF VerdictFlag, Targets
  <2>7. RaceFacts(q, asked')
    BY <2>1, <2>4, <2>5, <2>6 DEF RaceFacts
  <2> QED
    BY <2>1, <2>2, <2>7 DEF RaceInv
<1> QED
  BY <1>1, <1>2, <1>3, <1>4, RaceStep

(* A group still owes its reply when other groups and queries move on. *)
LEMMA OwesKept ==
  ASSUME NEW q, NEW p, p.req = q.req, p.from = q.from, NEW A, NEW A2, NEW S, NEW T,
         NEW grp, A \subseteq A2, \A x \in A2 : x.req = q.req => x \in A,
         \A x \in A : x.req = q.req /\ x.grp = grp /\ x \in T
                        => x \in S \/ DropTc(q, x.msg),
         Owes(q, A, S, grp)
  PROVE  Owes(p, A2, T, grp)
<1>1. RepliesTo(p, A2, grp) = RepliesTo(q, A, grp)
  BY DEF RepliesTo
<1>2. \A m : DropTc(p, m) = DropTc(q, m)
  BY DEF DropTc
<1> QED
  BY <1>1, <1>2 DEF Owes, RepliesTo

\* what query q of request list R waits for
Waits(q, R, A, S) ==
  IF Racing(q, R) THEN WaitsForVerdict(q, A, S) ELSE WaitsForFirst(q, A, S)

(* A query that nothing new was said to waits for what it waited for. *)
LEMMA WaitsKept ==
  ASSUME NEW q, NEW R, NEW R2, R2[q.req] = R[q.req], NEW A, NEW A2, NEW S, NEW T,
         A \subseteq A2, \A x \in A2 : x.req = q.req => x \in A,
         \A x \in A : x.req = q.req /\ x \in T => x \in S \/ DropTc(q, x.msg),
         Waits(q, R, A, S)
  PROVE  Waits(q, R2, A2, T)
<1>1. Racing(q, R2) = Racing(q, R)
  BY DEF Racing
<1>2. CASE Racing(q, R)
  <2>1. \A grp : Owes(q, A, S, grp) => Owes(q, A2, T, grp)
    BY OwesKept
  <2> QED
    BY <1>1, <1>2, <2>1 DEF Waits, WaitsForVerdict
<1>3. CASE ~Racing(q, R)
  BY <1>1, <1>3 DEF Waits, WaitsForFirst
<1> QED
  BY <1>2, <1>3

(* No step leaves a query waiting in vain, if the china group can be sent   *)
(* to and every upstream that was sent to has a reply.                      *)
LEMMA NextWait ==
  ASSUME MayFail \subseteq {"gfw"}, \A grp \in Groups : {} \notin Says[grp],
         TypeOK, FreshIdInv, OwnerInv, WaitInv, [Next]_vars
  PROVE  WaitInv'
<1>0. /\ \A i \in DOMAIN query_list : Waits(query_list[i], reqs, asked, seen)
      /\ \A i \in DOMAIN query_list : query_list[i].req \in 1..Len(reqs)
      /\ seen \subseteq asked
      /\ (\A i \in DOMAIN query_list' : Waits(query_list'[i], reqs', asked', seen'))
           => WaitInv'
  BY DEF WaitInv, Waits, TypeOK, FreshIdInv, Query, Requests
<1>1. CASE KeepsRaces
  <2> SUFFICES ASSUME NEW i \in DOMAIN query_list'
               PROVE  Waits(query_list'[i], reqs', asked', seen')
    BY <1>0
  <2>1. i \in DOMAIN query_list /\ query_list'[i] = query_list[i] /\ asked' = asked
    BY <1>1 DEF KeepsRaces
  <2>2. reqs'[query_list[i].req] = reqs[query_list[i].req]
    BY <1>0, <1>1, <2>1 DEF KeepsRaces
  <2>3. \A x \in asked : x.req = query_list[i].req /\ x \in seen'
                           => x \in seen \/ DropTc(query_list[i], x.msg)
    BY <1>1, <2>1 DEF KeepsRaces, OwnerInv
  <2> QED
    BY <1>0, <2>1, <2>2, <2>3, WaitsKept
<1>2. ASSUME NEW a, NEW grp, NEW q, NEW p, ChangesRace(a, grp, q, p),
             WaitsForVerdict(p, asked, seen')
      PROVE  WaitInv'
  <2> SUFFICES ASSUME NEW i \in DOMAIN query_list'
               PROVE  Waits(query_list'[i], reqs', asked', seen')
    BY <1>0
  <2>1. CASE i = a.qid
    BY <1>2, <2>1 DEF ChangesRace, Waits, Racing
  <2>2. CASE i # a.qid
    <3>1. /\ i \in DOMAIN query_list /\ query_list'[i] = query_list[i]
          /\ asked' = asked /\ reqs' = reqs
      BY <1>2, <2>2 DEF ChangesRace
    <3>2. \A x \in asked : x.req = query_list[i].req /\ x \in seen' => x \in seen
      BY <1>2, <2>2, <3>1 DEF ChangesRace, OwnerInv
    <3> QED
      BY <1>0, <3>1, <3>2, WaitsKept
  <2> QED
    BY <2>1, <2>2
<1>3. ASSUME NEW a, NEW grp, NEW q, NEW p, ChangesRace(a, grp, q, p), NEW g, g # grp,
             Owes(q, asked, seen, g)
      PROVE  Owes(p, asked, seen', g)
  <2>1. /\ p.req = q.req /\ p.from = q.from
        /\ \A x \in asked : x.grp = g /\ x \in seen' => x \in seen
    BY <1>3 DEF ChangesRace
  <2> QED
    BY <1>3, <2>1, OwesKept
<1>4. ASSUME NEW a, NEW grp, NEW q, NEW p, ChangesRace(a, grp, q, p)
      PROVE  WaitsForVerdict(q, asked, seen)
  BY <1>0, <1>4 DEF ChangesRace, Waits
<1>5. ASSUME NEW a, NEW q, NEW p, Rejects(a, q, p) PROVE WaitInv'
  <2>1. ChangesRace(a, "chn", q, p) /\ WaitsForVerdict(q, asked, seen)
    BY <1>4, <1>5 DEF Rejects
  <2>2. Owes(p, asked, seen', "gfw")
    BY <1>3, <1>5, <2>1 DEF Rejects, WaitsForVerdict
  <2>3. WaitsForVerdict(p, asked, seen')
    BY <1>5, <2>1, <2>2 DEF Rejects, ChangesRace, WaitsForVerdict
  <2> QED
    BY <1>2, <2>1, <2>3
<1>6. ASSUME NEW a, NEW q, NEW p, Stores(a, q, p) PROVE WaitInv'
  <2>1. ChangesRace(a, "gfw", q, p) /\ WaitsForVerdict(q, asked, seen)
    BY <1>4, <1>6 DEF Stores
  <2>2. Owes(p, asked, seen', "chn")
    BY <1>3, <1>6, <2>1 DEF Stores, WaitsForVerdict
  <2>3. WaitsForVerdict(p, asked, seen')
    BY <1>6, <2>1, <2>2 DEF Stores, WaitsForVerdict
  <2> QED
    BY <1>2, <2>1, <2>3
<1>7. ASSUME NEW r, NEW qid, NEW a \in Ask, NEW q \in Query, Enters(r, a, qid, q)
      PROVE  WaitInv'
  <2>0. EntersAlone(r, a, qid, q)
    BY <1>7, EntersFacts
  <2>1. /\ DOMAIN query_list' = DOMAIN query_list \cup {qid} /\ query_list'[qid] = q
        /\ \A i \in DOMAIN query_list : query_list'[i] = query_list[i]
        /\ q.req = r /\ q.tag = TagOf[a.name] /\ q.verdict = VerdictFlag(a)
        /\ q.trust_msg = {}
        /\ asked \subseteq asked' /\ seen' = seen
        /\ \A x \in asked' : x \in asked \/ x.req = r
        /\ \A x \in seen' : x.req # r
        /\ \A i \in DOMAIN query_list : query_list[i].req # r
        /\ Reached(r, a, q)
    BY <2>0 DEF EntersAlone
  <2>2. \A i \in DOMAIN query_list : Waits(query_list[i], reqs', asked', seen')
    <3> SUFFICES ASSUME NEW i \in DOMAIN query_list
                 PROVE  Waits(query_list[i], reqs', asked', seen')
      OBVIOUS
    <3>1. /\ reqs'[query_list[i].req] = reqs[query_list[i].req]
          /\ \A x \in asked' : x.req = query_list[i].req => x \in asked
      BY <1>0, <1>7, <2>1 DEF Enters
    <3> QED
      BY <1>0, <2>1, <3>1, WaitsKept
  <2> DEFINE targets == Targets(TagOf[a.name], VerdictFlag(a))
  <2>3. PICK sent \in SUBSET targets :
          /\ sent # {} /\ sent \subseteq Groups /\ targets \ sent \subseteq MayFail
          /\ q.trust_failed = TrustFailed(TagOf[a.name], targets, sent)
          /\ \A grp \in sent : {} \notin Says[grp]
                                 => \E x \in asked' : x.req = r /\ x.grp = grp
    BY <2>1 DEF Reached
  <2>4. \A grp \in sent : grp \in Groups => Owes(q, asked', seen', grp)
    BY <2>1, <2>3 DEF Owes, RepliesTo
  <2>5. Waits(q, reqs', asked', seen')
    <3>1. CASE Racing(q, reqs')
      <4>1. TagOf[a.name] = "none"
        BY <2>1, <3>1 DEF Racing
      <4>2. "chn" \in Groups /\ "gfw" \in Groups
        BY DEF Groups
      <4>3. CASE VerdictFlag(a) = "is_china"
        <5>1. targets = {"chn"}
          BY <4>1, <4>3 DEF Targets
        <5>2. "chn" \in sent
          BY <2>3, <5>1
        <5> QED
          BY <2>1, <2>4, <3>1, <4>2, <4>3, <5>2 DEF Waits, WaitsForVerdict
      <4>4. CASE VerdictFlag(a) = "non_china"
        <5>1. targets = {"gfw"}
          BY <4>1, <4>4 DEF Targets
        <5>2. "gfw" \in sent /\ ~q.trust_failed
          BY <2>3, <5>1 DEF TrustFailed
        <5> QED
          BY <2>1, <2>4, <3>1, <4>2, <4>4, <5>2 DEF Waits, WaitsForVerdict
      <4>5. CASE VerdictFlag(a) = "nil"
        <5>1. targets = {"chn", "gfw"}
          BY <4>1, <4>5 DEF Targets
        <5>2. "chn" \in sent /\ (~q.trust_failed => "gfw" \in sent)
          BY <2>3, <4>1, <5>1 DEF TrustFailed
        <5> QED
          BY <2>1, <2>4, <3>1, <4>2, <4>5, <5>2 DEF Waits, WaitsForVerdict
      <4> QED
        BY <4>3, <4>4, <4>5 DEF VerdictFlag
    <3>2. CASE ~Racing(q, reqs')
      <4>1. \E x \in asked' : x.req = r
        <5>1. PICK grp : grp \in sent
          BY <2>3
        <5>2. grp \in Groups
          BY <2>3, <5>1
        <5> QED
          BY <2>3, <5>1, <5>2
      <4> QED
        BY <2>1, <3>2, <4>1 DEF Waits, WaitsForFirst
    <3> QED
      BY <3>1, <3>2
  <2> QED
    BY <1>0, <2>1, <2>2, <2>5
<1> QED
  BY <1>1, <1>5, <1>6, <1>7, RaceStep

(* A query never waits for a reply that cannot come, if the china group can *)
(* always be sent to and every upstream that was sent to has a reply: also  *)
(* when the trust group was not reached, when its reply came first and when *)
(* a cached verdict sends the query to one group only (on_query, on_reply). *)
(* The china_unsent run shows what happens without the first hypothesis.    *)
THEOREM NoQueryWaitsInVain ==
  ASSUME MaxReq < NQid, MayFail \subseteq {"gfw"},
         \A grp \in Groups : {} \notin Says[grp]
  PROVE  Spec => []NeverWaitsInVain
<1>1. Init => OwnerInv /\ WaitInv
  BY DEF Init, OwnerInv, WaitInv
<1>2. TypeOK /\ FreshIdInv /\ OwnerInv /\ WaitInv /\ [Next]_vars => OwnerInv' /\ WaitInv'
  BY NextOwner, NextWait
<1>3. WaitInv => NeverWaitsInVain
  <2> SUFFICES ASSUME WaitInv, NEW i \in DOMAIN query_list
               PROVE  \E a \in asked : /\ a.req = query_list[i].req
                                       /\ a \notin seen \/ DropTc(query_list[i], a.msg)
    BY DEF NeverWaitsInVain
  <2>1. ASSUME NEW grp, Owes(query_list[i], asked, seen, grp)
        PROVE  \E a \in asked : /\ a.req = query_list[i].req
                                /\ a \notin seen \/ DropTc(query_list[i], a.msg)
    BY <2>1 DEF Owes, RepliesTo
  <2>2. CASE WaitsForFirst(query_list[i], asked, seen)
    BY <2>2 DEF WaitsForFirst
  <2>3. CASE WaitsForVerdict(query_list[i], asked, seen)
    BY <2>1, <2>3 DEF WaitsForVerdict
  <2> QED
    BY <2>2, <2>3 DEF WaitInv
<1> QED
  BY <1>1, <1>2, <1>3, AnswersAlways, PTL DEF Spec

-----------------------------------------------------------------------------
(* The outcome of a race *)

(* Every step keeps the queries that this program answers out of the list.  *)
LEMMA NextUnfiltered ==
  ASSUME TypeOK, FreshIdInv, UnfilteredInv, [Next]_vars
  PROVE  UnfilteredInv'
<1>0. \A i \in DOMAIN query_list : query_list[i].req \in 1..Len(reqs)
  BY DEF TypeOK, FreshIdInv, Query, Requests
<1>1. CASE KeepsRaces
  <2>1. \A i \in DOMAIN query_list' :
          /\ i \in DOMAIN query_list
          /\ reqs'[query_list'[i].req] = reqs[query_list[i].req]
    BY <1>0, <1>1 DEF KeepsRaces
  <2> QED
    BY <2>1 DEF UnfilteredInv, AnswersItself, FilteredQuery, HasLocalRR
<1>2. ASSUME NEW a, NEW grp, NEW q, NEW p, ChangesRace(a, grp, q, p) PROVE UnfilteredInv'
  <2>1. \A i \in DOMAIN query_list' :
          /\ i \in DOMAIN query_list
          /\ reqs'[query_list'[i].req] = reqs[query_list[i].req]
    BY <1>0, <1>2 DEF ChangesRace
  <2> QED
    BY <2>1 DEF UnfilteredInv, AnswersItself, FilteredQuery, HasLocalRR
<1>3. ASSUME NEW r, NEW qid, NEW a \in Ask, NEW q \in Query, Enters(r, a, qid, q)
      PROVE  UnfilteredInv'
  <2>0. EntersAlone(r, a, qid, q)
    BY <1>3, EntersFacts
  <2>1. \A i \in DOMAIN query_list' :
          \/ i \in DOMAIN query_list /\ reqs'[query_list'[i].req] = reqs[query_list[i].req]
          \/ reqs'[query_list'[i].req] = a
    BY <1>0, <1>3, <2>0 DEF Enters, EntersAlone
  <2>2. ~AnswersItself(a)
    BY <1>3 DEF Enters
  <2> QED
    BY <2>1, <2>2 DEF UnfilteredInv, AnswersItself, FilteredQuery, HasLocalRR
<1> QED
  BY <1>1, <1>2, <1>3, RaceStep DEF Rejects, Stores

(* The reference of the race, when the china group has at most one reply.   *)
LEMMA RaceWinnerCases ==
  ASSUME NEW known \in BOOLEAN, NEW c, NEW t, \A m, n \in c : m = n
  PROVE  /\ c = {} => RaceWinner(known, c, t) = t
         /\ \A m \in c :
              RaceWinner(known, c, t) =
                IF known \/ use_china_reply(m) THEN c
                ELSE IF t = {} THEN {servfail_reply(m)} ELSE t
<1>1. c = {} => RaceWinner(known, c, t) = t
  BY DEF RaceWinner
<1>2. ASSUME NEW m \in c
      PROVE  RaceWinner(known, c, t) =
               IF known \/ use_china_reply(m) THEN c
               ELSE IF t = {} THEN {servfail_reply(m)} ELSE t
  <2>1. c # {} /\ (CHOOSE x \in c : TRUE) = m
    OBVIOUS
  <2>2. CASE known
    BY <2>1, <2>2 DEF RaceWinner
  <2>3. CASE ~known
    BY <2>1, <2>3 DEF RaceWinner
  <2> QED
    BY <2>2, <2>3
<1> QED
  BY <1>1, <1>2

(* A step of a client sends nothing to the client of another query. *)
LEMMA ClientSendsToItself ==
  ASSUME TypeOK, NEW r \in Requests, NEW a \in Asks,
         \/ OnBadQuery(r, a) \/ OnQueryLocal(r, a)
         \/ OnQueryHit(r, a) \/ OnQueryMiss(r, a)
  PROVE  Arrives(r, a) /\ \A s \in Requests \ {r} : outbox'[s] = outbox[s]
<1>0. a \in Ask /\ a.from \in Froms /\ outbox \in [Requests -> Seq(Msg)]
  BY EnvAssumption DEF Ask, Froms, TypeOK
<1>1. CASE OnBadQuery(r, a)
  BY <1>0, <1>1 DEF OnBadQuery
<1>2. CASE OnQueryLocal(r, a)
  BY <1>0, <1>2 DEF OnQueryLocal, send_reply
<1>3. ASSUME NEW out, Forward(r, a, a.from, out) \/ Forward(r, a, RefreshFrom(a), out),
             DOMAIN out = Requests
      PROVE  \A s \in Requests \ {r} : outbox'[s] = out[s]
  <2>1. \/ outbox' = out
        \/ \E from : outbox' = NobodyReached(r, a, from, out)
    BY <1>3, Zenon DEF Forward
  <2> QED
    BY <1>3, <2>1 DEF NobodyReached, send_reply
<1>4. CASE OnQueryHit(r, a)
  <2> DEFINE m == cache[<<a.name, a.qtype>>].msg
             out == send_reply(outbox, r, m, a.from, a.bufsz)
  <2>1. Arrives(r, a) /\ (outbox' = out \/ Forward(r, a, RefreshFrom(a), out))
    BY <1>4 DEF OnQueryHit
  <2>2. DOMAIN out = Requests /\ \A s \in Requests \ {r} : out[s] = outbox[s]
    BY <1>0 DEF send_reply
  <2> HIDE DEF out
  <2> QED
    BY <1>3, <2>1, <2>2
<1>5. CASE OnQueryMiss(r, a)
  BY <1>0, <1>3, <1>5 DEF OnQueryMiss
<1> QED
  BY <1>1, <1>2, <1>4, <1>5

\* what the group says to q
Mine(q, grp) == {a.msg : a \in {x \in asked : x.req = q.req /\ x.grp = grp}}

\* the client of query q waits, gets its answer in this step and each group
\* has at most one reply to the query, which races
Decided(q) ==
  /\ q.tag = "none" /\ q.from # "local" /\ is_A_AAAA(reqs[q.req].qtype)
  /\ outbox[q.req] = <<>> /\ outbox'[q.req] # <<>>
  /\ \A grp \in Groups : \A m, n \in Mine(q, grp) : m = n

Winner(q) == RaceWinner(q.verdict = "is_china", Mine(q, "chn"), Mine(q, "gfw"))

Outcomes(q) ==
  {Sent(FilterByOwnIp(q.tag, m), q.from, q.bufsz) : m \in Winner(q)}

\* the AAAA filter of tag:none names is off, or it is on for every address
FilterIsTotal == Ip6Filter["none"].china_ip = Ip6Filter["none"].non_china_ip

(* A filter that is off passes every reply, and what a filter that is on    *)
(* for every address would remove, on_query has answered already.           *)
LEMMA NoRaceIsFiltered ==
  ASSUME FilterIsTotal, TypeOK, FreshIdInv, UnfilteredInv,
         NEW i \in DOMAIN query_list, query_list[i].tag = "none"
  PROVE  reqs[query_list[i].req].qtype = "AAAA"
           => \A m, res : ~filter_reply(Ip6Filter["none"], m, res)
<1>1. /\ ~AnswersItself(reqs[query_list[i].req])
      /\ TagOf[reqs[query_list[i].req].name] = "none"
  BY DEF UnfilteredInv, FreshIdInv
<1>2. Ip6Filter["none"] \in [china_ip : BOOLEAN, non_china_ip : BOOLEAN]
  BY ConfigAssumption DEF Tags
<1>3. reqs[query_list[i].req].qtype = "AAAA"
        => ~Ip6Filter["none"].china_ip /\ ~Ip6Filter["none"].non_china_ip
  BY <1>1, <1>2 DEF AnswersItself, FilteredQuery, FilterIsTotal
<1> QED
  BY <1>3 DEF filter_reply

(* EndQuery with the winner of a race sends the outcome of the race. *)
LEMMA EndSendsOutcome ==
  ASSUME FilterIsTotal, TypeOK, OneAnswerInv, FreshIdInv, UnfilteredInv,
         NEW i \in DOMAIN query_list, Decided(query_list[i]),
         NEW a, a.qid \in DOMAIN query_list, NEW chosen \in Msg, NEW res,
         EndQuery(a, query_list[a.qid], chosen, res),
         a.msg.qtype = reqs[query_list[a.qid].req].qtype,
         chosen.qtype = a.msg.qtype,
         a.qid = i => chosen \in Winner(query_list[i])
  PROVE  outbox'[query_list[i].req][1] \in Outcomes(query_list[i])
<1> DEFINE q == query_list[i]
<1>1. q \in Query /\ q.req \in Requests /\ query_list[a.qid].req \in Requests
  BY DEF TypeOK, Query
<1>2. outbox \in [Requests -> Seq(Msg)]
  BY DEF TypeOK
<1>3. PICK m : Ended(a, query_list[a.qid], chosen, m)
  BY EndQueryEffect
<1>4. m \in Msg
  BY <1>3, RewriteType DEF Ended
<1>5. a.qid = i
  <2> SUFFICES ASSUME a.qid # i PROVE FALSE
    OBVIOUS
  <2>1. query_list[a.qid].req # q.req
    BY DEF OneAnswerInv
  <2>2. outbox'[q.req] = outbox[q.req]
    BY <1>1, <1>2, <1>3, <1>4, <2>1, SendReplyType DEF Ended
  <2> QED
    BY <2>2 DEF Decided
<1>6. q.tag = "none" /\ q.from # "local" /\ outbox[q.req] = <<>>
  BY DEF Decided
<1>7. ~(chosen.qtype = "AAAA" /\ filter_reply(Ip6Filter["none"], chosen, res))
  BY <1>5, <1>6, NoRaceIsFiltered
<1>8. ~(chosen.qtype = "AAAA" /\ filter_reply(Ip6Filter["none"], chosen, {}))
  BY <1>5, <1>6, NoRaceIsFiltered
<1>9. outbox' = send_reply(outbox, q.req, chosen, q.from, q.bufsz)
  BY <1>5, <1>6, <1>7 DEF EndQuery
<1>10. FilterByOwnIp(q.tag, chosen) = chosen
  BY <1>6, <1>8 DEF FilterByOwnIp
<1>11. outbox'[q.req][1] = Sent(chosen, q.from, q.bufsz)
  <2>1. outbox'[q.req] = Append(outbox[q.req], Sent(chosen, q.from, q.bufsz))
    BY <1>1, <1>2, <1>9, SendReplyType
  <2>2. Sent(chosen, q.from, q.bufsz) \in Msg
    BY SentType
  <2> QED
    BY <1>6, <2>1, <2>2
<1> QED
  BY <1>5, <1>10, <1>11 DEF Outcomes

(* Whatever ends a race chooses the winner. *)
LEMMA RaceOutcome ==
  ASSUME FilterIsTotal, TypeOK, OneAnswerInv, FreshIdInv, AnswerInv, RaceInv,
         UnfilteredInv, [Next]_vars,
         NEW i \in DOMAIN query_list, Decided(query_list[i])
  PROVE  outbox'[query_list[i].req][1] \in Outcomes(query_list[i])
<1> DEFINE q == query_list[i]
           c == Mine(q, "chn")
           t == Mine(q, "gfw")
           known == q.verdict = "is_china"
           Goal == outbox'[q.req][1] \in Outcomes(q)
<1>0. /\ q.req \in Requests /\ q.req <= Len(reqs) /\ outbox'[q.req] # outbox[q.req]
      /\ known \in BOOLEAN /\ \A m, n \in c : m = n
  BY DEF TypeOK, Query, FreshIdInv, Decided, Groups
<1>1. RaceFacts(q, asked)
  BY DEF RaceInv
<1>2. /\ \A x \in asked : x.req = q.req /\ x.grp = "chn" => x.msg \in c
      /\ \A x \in asked : x.req = q.req /\ x.grp = "gfw" => x.msg \in t
      /\ RepliesTo(q, asked, "gfw") = {} => t = {}
      /\ RepliesTo(q, asked, "chn") = {} => c = {}
  BY DEF Mine, RepliesTo
<1>3. /\ c = {} => Winner(q) = t
      /\ \A m \in c : Winner(q) = IF known \/ use_china_reply(m) THEN c
                                  ELSE IF t = {} THEN {servfail_reply(m)} ELSE t
  <2>1. Winner(q) = RaceWinner(known, c, t)
    BY DEF Winner
  <2> HIDE DEF c, t, known
  <2> QED
    BY <1>0, <2>1, RaceWinnerCases
<1> HIDE DEF c, t
<1>4. ASSUME NEW r \in Requests, NEW a \in Asks,
             \/ OnBadQuery(r, a) \/ OnQueryLocal(r, a)
             \/ OnQueryHit(r, a) \/ OnQueryMiss(r, a)
      PROVE  Goal
  <2>1. Arrives(r, a) /\ \A s \in Requests \ {r} : outbox'[s] = outbox[s]
    BY <1>4, ClientSendsToItself
  <2>2. r = Len(reqs) + 1 /\ Len(reqs) \in Nat
    BY <2>1 DEF Arrives, TypeOK
  <2> QED
    BY <1>0, <2>1, <2>2
<1>5. ASSUME NEW a \in asked, Matches(a)
      PROVE  /\ a.qid \in DOMAIN query_list /\ a.msg \in Msg
             /\ a.msg.qtype = reqs[query_list[a.qid].req].qtype
             /\ a.qid = i => a.req = q.req
             /\ \A m \in query_list[a.qid].trust_msg : m \in Msg /\ m.qtype = a.msg.qtype
  <2> DEFINE p == query_list[a.qid]
  <2>1. /\ a.qid \in DOMAIN query_list /\ p \in Query /\ a.msg \in Msg
        /\ question(a.msg) = AskedBy(reqs, p.req)
    BY <1>5, MatchFacts
  <2>2. \A m \in p.trust_msg : m \in Msg /\ question(m) = AskedBy(reqs, p.req)
    BY <2>1 DEF AnswerInv, QueriesFine, Query
  <2> QED
    BY <2>1, <2>2 DEF question, AskedBy, FreshIdInv
<1>6. ASSUME NEW a \in asked, OnChinaReply(a) PROVE Goal
  <2> DEFINE p == query_list[a.qid]
             res == IF p.verdict = "is_china" THEN {} ELSE {test_ip(a.msg)}
  <2>1. Matches(a) /\ a.grp = "chn"
    BY <1>6 DEF OnChinaReply
  <2>2. /\ a.qid \in DOMAIN query_list /\ a.msg \in Msg
        /\ a.msg.qtype = reqs[p.req].qtype /\ (a.qid = i => a.req = q.req)
        /\ \A m \in p.trust_msg : m \in Msg /\ m.qtype = a.msg.qtype
    BY <1>5, <2>1
  <2>3. a.qid = i => a.msg \in c /\ p = q
    BY <1>2, <2>1, <2>2
  <2>4. CASE (p.verdict = "is_china" \/ use_china_reply(a.msg)) /\ EndQuery(a, p, a.msg, res)
    <3>1. a.qid = i => a.msg \in Winner(q)
      BY <1>3, <2>3, <2>4
    <3> QED
      BY <2>2, <2>4, <3>1, EndSendsOutcome
  <2>5. ASSUME NEW m \in p.trust_msg, p.verdict # "is_china", ~use_china_reply(a.msg),
               EndQuery(a, p, m, res)
        PROVE  Goal
    <3>1. a.qid = i => m \in t
      BY <1>1, <1>2, <2>3, <2>5 DEF RaceFacts, RepliesTo
    <3>2. a.qid = i => m \in Winner(q)
      BY <1>3, <2>3, <2>5, <3>1
    <3> QED
      BY <2>2, <2>5, <3>2, EndSendsOutcome
  <2>6. CASE /\ p.verdict # "is_china" /\ ~use_china_reply(a.msg) /\ p.trust_failed
             /\ EndQuery(a, p, servfail_reply(a.msg), res)
    <3>1. a.qid = i => servfail_reply(a.msg) \in Winner(q)
      BY <1>1, <1>2, <1>3, <2>3, <2>6 DEF RaceFacts
    <3>2. servfail_reply(a.msg) \in Msg /\ servfail_reply(a.msg).qtype = a.msg.qtype
      BY <2>2, RewriteEmpties DEF Emptied
    <3> QED
      BY <2>2, <2>6, <3>1, <3>2, EndSendsOutcome
  <2>7. CASE UNCHANGED outbox
    BY <1>0, <2>7
  <2> QED
    BY <1>6, <2>4, <2>5, <2>6, <2>7 DEF OnChinaReply
<1>7. ASSUME NEW a \in asked, OnTrustReply(a) PROVE Goal
  <2>1. Matches(a) /\ a.grp = "gfw"
    BY <1>7 DEF OnTrustReply
  <2>2. /\ a.qid \in DOMAIN query_list /\ a.msg \in Msg
        /\ a.msg.qtype = reqs[query_list[a.qid].req].qtype /\ (a.qid = i => a.req = q.req)
    BY <1>5, <2>1
  <2>3. CASE /\ query_list[a.qid].verdict = "non_china"
             /\ EndQuery(a, query_list[a.qid], a.msg, {})
    <3>1. a.qid = i => a.msg \in t /\ q.verdict = "non_china"
      BY <1>2, <2>1, <2>2, <2>3
    <3>2. a.qid = i => c = {} \/ \E m \in c : ~use_china_reply(m)
      BY <1>1, <1>2, <3>1 DEF RaceFacts, RepliesTo
    <3>3. a.qid = i => a.msg \in Winner(q)
      BY <1>3, <3>1, <3>2
    <3> QED
      BY <2>2, <2>3, <3>3, EndSendsOutcome
  <2>4. CASE UNCHANGED outbox
    BY <1>0, <2>4
  <2> QED
    BY <1>7, <2>3, <2>4 DEF OnTrustReply, TrustMayAnswer
<1>8. ASSUME NEW a \in asked, OnFirstReply(a) PROVE Goal
  <2>1. Matches(a) /\ ~Races(query_list[a.qid], a.msg)
        /\ EndQuery(a, query_list[a.qid], a.msg, {})
    BY <1>8 DEF OnFirstReply
  <2>2. /\ a.qid \in DOMAIN query_list /\ a.msg \in Msg
        /\ a.msg.qtype = reqs[query_list[a.qid].req].qtype
    BY <1>5, <2>1
  <2>3. a.qid # i
    BY <2>1, <2>2 DEF Races, Decided
  <2> QED
    BY <2>1, <2>2, <2>3, EndSendsOutcome
<1>9. CASE UNCHANGED outbox
  BY <1>0, <1>9
<1>10. \/ \E r \in Requests, a \in Asks : \/ OnBadQuery(r, a) \/ OnQueryLocal(r, a)
                                          \/ OnQueryHit(r, a) \/ OnQueryMiss(r, a)
       \/ \E a \in asked : OnChinaReply(a) \/ OnTrustReply(a) \/ OnFirstReply(a)
       \/ UNCHANGED outbox
  BY DEF Next, ClientStep, UpstreamStep, IgnoreReply, LoopTop, ClockInBatch, vars
<1> QED
  BY <1>4, <1>6, <1>7, <1>8, <1>9, <1>10

(* The race has one outcome: with at most one reply of each group, what the *)
(* client of a tag:none A or AAAA query gets is a function of the replies,  *)
(* of the cached verdict and of nothing else, in whichever order the        *)
(* replies come (on_reply, use_china_reply).  The AAAA filter must not tell *)
(* addresses apart: the aaaa_filter run shows what a one-sided filter does. *)
THEOREM RaceIsDecidedByTheReplies ==
  ASSUME MaxReq < NQid, FilterIsTotal
  PROVE  Spec => RaceHasOneOutcome
<1>1. Init => OwnerInv /\ RaceInv /\ UnfilteredInv
  BY DEF Init, OwnerInv, RaceInv, UnfilteredInv
<1>2. /\ TypeOK /\ FreshIdInv /\ OwnerInv /\ RaceInv /\ UnfilteredInv /\ [Next]_vars
      => OwnerInv' /\ RaceInv' /\ UnfilteredInv'
  BY NextOwner, NextRace, NextUnfiltered
<1>3. /\ TypeOK /\ OneAnswerInv /\ FreshIdInv /\ AnswerInv
      /\ RaceInv /\ UnfilteredInv /\ [Next]_vars
      => [\A i \in DOMAIN query_list :
            LET q == query_list[i]
                mine(grp) == {a.msg : a \in {x \in asked : x.req = q.req /\ x.grp = grp}}
                ans == outbox'[q.req]
            IN /\ q.tag = "none" /\ q.from # "local"
               /\ is_A_AAAA(reqs[q.req].qtype)
               /\ outbox[q.req] = <<>> /\ ans # <<>>
               /\ \A grp \in Groups : \A m, n \in mine(grp) : m = n
               => ans[1] \in {Sent(FilterByOwnIp(q.tag, m), q.from, q.bufsz) :
                                m \in RaceWinner(q.verdict = "is_china",
                                                 mine("chn"), mine("gfw"))}]_vars
  <2>1. ASSUME TypeOK, OneAnswerInv, FreshIdInv, AnswerInv, RaceInv, UnfilteredInv,
               [Next]_vars, NEW i \in DOMAIN query_list, Decided(query_list[i])
        PROVE  outbox'[query_list[i].req][1] \in Outcomes(query_list[i])
    BY <2>1, RaceOutcome
  <2> QED
    BY <2>1 DEF Decided, Outcomes, Winner, Mine
<1> QED
  BY <1>1, <1>2, <1>3, AnswersAlways, PTL DEF Spec, RaceHasOneOutcome

-----------------------------------------------------------------------------
(* The cache is used by its contract *)

(* The cache of the query server, next to the file it was loaded from.  The *)
(* server neither dumps nor reloads it.                                     *)
Contract == INSTANCE CacheContract WITH
              store <- cache, db <- DbCache,
              Keys <- Questions, Messages <- Msg, InitDb <- DbCache

(* A question that is looked up is a hit or a miss of the contract. *)
LEMMA LookupByContract ==
  ASSUME TypeOK, NEW r, NEW a \in Asks, OnQueryHit(r, a) \/ OnQueryMiss(r, a)
  PROVE  Contract!ContractNext
<1>1. PICK k : k = <<a.name, a.qtype>>
  OBVIOUS
<1>2. k \in Questions
  BY <1>1, EnvAssumption DEF Ask, Questions
<1>3. CASE OnQueryHit(r, a)
  <2>1. k \in DOMAIN cache /\ cache' = cache_hit(cache, k)
    BY <1>1, <1>3 DEF OnQueryHit
  <2>2. Contract!Hit(k)
    BY <2>1 DEF Contract!Hit, Contract!cache_hit, Contract!Put, Contract!CacheEntry,
                cache_hit, Put, CacheEntry
  <2> QED
    BY <1>2, <2>2 DEF Contract!ContractNext
<1>4. CASE OnQueryMiss(r, a)
  <2>1. cache' = cache_miss(cache, k)
    BY <1>1, <1>4 DEF OnQueryMiss
  <2>2. Contract!Miss(k)
    BY <2>1 DEF Contract!Miss, Contract!cache_miss, Contract!Without, cache_miss, Without
  <2> QED
    BY <1>2, <2>2 DEF Contract!ContractNext
<1> QED
  BY <1>3, <1>4

(* What ends a query is added by the contract. *)
LEMMA EndByContract ==
  ASSUME NEW a, NEW q, NEW chosen \in Msg, NEW res, EndQuery(a, q, chosen, res)
  PROVE  Contract!ContractNext
<1>1. PICK m : Ended(a, q, chosen, m)
  BY EndQueryEffect
<1>2. m \in Msg
  BY <1>1, RewriteType DEF Ended
<1>3. cache' \in cache_add(cache, m)
  BY <1>1 DEF Ended
<1>4. Contract!cache_add(cache, m) = cache_add(cache, m)
  BY DEF Contract!cache_add, Contract!Put, Contract!Without, Contract!CacheEntry,
         Contract!is_good, Contract!question, cache_add, Put, Without, CacheEntry,
         is_good, question
<1>5. Contract!Add(m)
  BY <1>3, <1>4 DEF Contract!Add
<1> QED
  BY <1>2, <1>5 DEF Contract!ContractNext

(* Every step of the query server is an operation of the cache's contract,  *)
(* or leaves the cache alone: on_query and on_reply use the cache only      *)
(* through get and add, with questions and messages of their type, from the *)
(* state that cache.load made.  What CacheProofs shows of Cache is the      *)
(* other half: the detailed cache keeps the same contract.                  *)
THEOREM CacheIsUsedByContract == Spec => Contract!ContractSpec
<1>1. Init => Contract!ContractInit
  <2> SUFFICES ASSUME Init PROVE Contract!ContractInit
    OBVIOUS
  <2>1. cache = Contract!Reloaded(DOMAIN DbCache)
    BY DEF Init, DbEntry, CacheEntry, Contract!Reloaded, Contract!CacheEntry
  <2> QED
    BY <2>1 DEF Contract!ContractInit
<1>2. ASSUME TypeOK, [Next]_vars PROVE [Contract!ContractNext]_(Contract!contractVars)
  <2>1. ASSUME UNCHANGED cache PROVE UNCHANGED Contract!contractVars
    BY <2>1 DEF Contract!contractVars
  <2>2. ASSUME NEW r \in Requests, NEW a \in Asks, OnBadQuery(r, a) \/ OnQueryLocal(r, a)
        PROVE  UNCHANGED cache
    BY <2>2 DEF OnBadQuery, OnQueryLocal
  <2>3. ASSUME NEW r \in Requests, NEW a \in Asks, OnQueryHit(r, a) \/ OnQueryMiss(r, a)
        PROVE  Contract!ContractNext
    BY <1>2, <2>3, LookupByContract
  <2>4. ASSUME NEW a \in asked, OnChinaReply(a) \/ OnTrustReply(a) \/ OnFirstReply(a)
        PROVE  Contract!ContractNext \/ UNCHANGED cache
    <3> DEFINE q == query_list[a.qid]
    <3>1. a.msg \in Msg /\ q \in Query
      BY <1>2, <2>4 DEF TypeOK, Reply, OnChinaReply, OnTrustReply, OnFirstReply, Matches
    <3>2. servfail_reply(a.msg) \in Msg /\ q.trust_msg \subseteq Msg
      BY <3>1, RewriteType DEF Query
    <3>3. \/ \E chosen \in Msg : \E res : EndQuery(a, q, chosen, res)
          \/ UNCHANGED cache
      BY <2>4, <3>1, <3>2 DEF OnChinaReply, OnTrustReply, OnFirstReply
    <3> QED
      BY <3>3, EndByContract
  <2>5. ASSUME NEW a \in asked, IgnoreReply(a) PROVE UNCHANGED cache
    BY <2>5 DEF IgnoreReply
  <2>6. CASE (\E d \in {0, 1} : LoopTop(d)) \/ ClockInBatch \/ UNCHANGED vars
    BY <2>1, <2>6 DEF LoopTop, ClockInBatch, vars
  <2> QED
    BY <1>2, <2>1, <2>2, <2>3, <2>4, <2>5, <2>6 DEF Next, ClientStep, UpstreamStep
<1> QED
  BY TypeCorrect, <1>1, <1>2, PTL DEF Spec, Contract!ContractSpec

=============================================================================
