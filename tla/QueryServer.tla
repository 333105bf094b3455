----------------------------- MODULE QueryServer -----------------------------
(***************************************************************************)
(* The life of a query in chinadns-ng (server.zig): a client's question is *)
(* answered at once (filtered, local record, cache) or forwarded; a        *)
(* tag:none question goes to the china and the trust group, and the two    *)
(* replies race; the query leaves the list with an answer, with SERVFAIL,  *)
(* or when its deadline passes.                                            *)
(*                                                                         *)
(* One action is one nosuspend handler of the single event loop.  What the *)
(* loop does not control is nondeterministic: which groups accept a query, *)
(* what they reply, whether and when a reply arrives, how often it is      *)
(* repeated, and in which order replies overtake each other.               *)
(***************************************************************************)
EXTENDS CacheOps, VerdictCache, Sequences

CONSTANTS
  Names,         \* domain names
  TagOf,         \* dnl.get_tag: the tag of each name
  Ip6Filter,     \* tag -> [china_ip, non_china_ip], the AAAA filter of a tag
  FilterQtypes,  \* g.filter_qtypes
  LocalRR,       \* questions <<name, qtype>> that local_rr answers
  NoipAsChnip,   \* g.flags.noip_as_chnip
  AddIpTags,     \* tags whose answers go to an ipset/nftset
  DbCache,       \* what cache.load found: question -> message
  MayFail,       \* groups whose send may fail (behind the socks5 proxy)
  Says,          \* group -> what its upstreams may reply: sets of bodies
  Asks,          \* what a client may ask: [name, qtype, from, bufsz]
  NQid,          \* number of query ids (2^16 in the code)
  QidTries,      \* tries of List.add (10 in the code)
  Timeout,       \* g.upstream_timeout in clock units
  MaxReq,        \* bound: client queries in a behaviour
  MaxTime        \* bound: last clock value

Tags == {"chn", "gfw", "tag1", "null", "none"}

Groups == {"chn", "gfw", "tag1"}

Froms == {"udp", "tcp", "local"}

Verdicts == {"nil", "is_china", "non_china"}

Requests == 1..MaxReq

Questions == Names \X Qtypes

Body == [rcode : Rcodes, tc : BOOLEAN, ip : IpKinds, len : Nat]

\* "by" is the group whose upstream sent the message; "self" is this program.
Msg == [name : Names, qtype : Qtypes, rcode : Rcodes, tc : BOOLEAN,
        ip : IpKinds, len : Nat, by : Groups \cup {"self"}]

Ask == [name : Names, qtype : Qtypes, from : {"udp", "tcp"}, bufsz : Nat]

ASSUME ConfigAssumption ==
  /\ TagOf \in [Names -> Tags]
  /\ Ip6Filter \in [Tags -> [china_ip : BOOLEAN, non_china_ip : BOOLEAN]]
  /\ FilterQtypes \subseteq Qtypes
  /\ LocalRR \subseteq Questions
  /\ NoipAsChnip \in BOOLEAN
  /\ AddIpTags \subseteq Tags \ {"none", "null"}
  /\ CacheEnabled \in BOOLEAN
  /\ MayFail \subseteq Groups

ASSUME DbAssumption ==
  /\ DOMAIN DbCache \subseteq Questions
  /\ CacheEnabled \/ DOMAIN DbCache = {}
  /\ \A k \in DOMAIN DbCache : DbCache[k] \in Msg /\ question(DbCache[k]) = k

ASSUME EnvAssumption == Says \in [Groups -> SUBSET SUBSET Body] /\ Asks \subseteq Ask

ASSUME BoundAssumption ==
  /\ NQid \in Nat \ {0}
  /\ QidTries \in Nat \ {0}
  /\ Timeout \in Nat \ {0}
  /\ MaxReq \in Nat
  /\ MaxTime \in Nat

VARIABLES
  now,         \* g.evloop.time
  reqs,        \* the client queries received so far (history)
  query_list,  \* Query.List: qid -> Query; the linked list is in order of .req
  last_qid,    \* Query.List.last_qid
  cache,       \* the DNS cache: question -> [msg, added_ip]
  verdict,     \* the verdict cache: name -> BOOLEAN
  ipset,       \* <<tag, message>> whose addresses were put in the tag's set
  asked,       \* the network: replies that upstreams have for queries sent
  seen,        \* replies of asked that on_reply was called with (history)
  outbox       \* the messages sent to the client of each request (history)

vars == <<now, reqs, query_list, last_qid, cache, verdict, ipset, asked, seen,
          outbox>>

Query == [req : Requests, from : Froms, tag : Tags, bufsz : Nat,
          verdict : Verdicts, trust_failed : BOOLEAN,
          trust_msg : SUBSET Msg, req_time : Nat]

Reply == [qid : 0..NQid - 1, req : Requests, grp : Groups, msg : Msg]

-----------------------------------------------------------------------------
(* cache.load *)

(* mutant: an entry of the db file counts as already in the ipset *)
DbEntryAdded(k) == CacheEntry(DbCache[k], TRUE)

DbEntry(k) == CacheEntry(DbCache[k], FALSE)

-----------------------------------------------------------------------------
(* Messages this program makes itself, and what it sends to clients. *)

(* The client's own question turned into an empty reply. *)
QueryMsg(a) == [name |-> a.name, qtype |-> a.qtype, rcode |-> "noerror",
                tc |-> FALSE, ip |-> "no_ip_found", len |-> MinLen,
                by |-> "self"]

(* make_reply with the records of local_rr. *)
LocalMsg(a) == [QueryMsg(a) EXCEPT !.len = MinLen + 1]

(* send_reply_bad: the message as it came, with the header of an empty reply; *)
(* nobody looks at its length.                                              *)
BadMsg(a) == [QueryMsg(a) EXCEPT !.len = 0]

Sent(m, from, bufsz) ==
  IF from = "udp" /\ m.len > bufsz THEN truncate(m) ELSE m

send_reply(out, r, m, from, bufsz) ==
  [out EXCEPT ![r] = Append(@, Sent(m, from, bufsz))]

-----------------------------------------------------------------------------
(* Query.List *)

Qid(i) == (last_qid + i) % NQid

(* mutant: the map is not asked whether the id is in use *)
FreeQidUnchecked(i) == i = 1

(* The i-th candidate is the first one that is not in the map. *)
FreeQid(i) ==
  /\ Qid(i) \notin DOMAIN query_list
  /\ \A j \in 1..(i - 1) : Qid(j) \in DOMAIN query_list

(* mutant: the id counter is not stored *)
AdvanceQidLost(i) == last_qid

(* mutant: the id counter does not wrap *)
AdvanceQidUnwrapped(i) == last_qid + i

AdvanceQid(i) == Qid(i)

ListFull == Cardinality(DOMAIN query_list) >= NQid

NoFreeQid == \A j \in 1..QidTries : Qid(j) \in DOMAIN query_list

NewQuery(r, a, from, v, tf) ==
  [req |-> r, from |-> from, tag |-> TagOf[a.name], bufsz |-> a.bufsz,
   verdict |-> v, trust_failed |-> tf, trust_msg |-> {}, req_time |-> now]

-----------------------------------------------------------------------------
(* on_query *)

(* The paths that end without looking at the cache. *)
FilteredQuery(a) ==
  \/ /\ a.qtype = "AAAA"
     /\ Ip6Filter[TagOf[a.name]].china_ip /\ Ip6Filter[TagOf[a.name]].non_china_ip
  \/ a.qtype \in FilterQtypes

HasLocalRR(a) == <<a.name, a.qtype>> \in LocalRR

AnswersItself(a) == FilteredQuery(a) \/ HasLocalRR(a) \/ TagOf[a.name] = "null"

VerdictFlag(a) ==
  IF TagOf[a.name] = "none" /\ a.name \in DOMAIN verdict
  THEN IF verdict[a.name] THEN "is_china" ELSE "non_china"
  ELSE "nil"

Targets(tag, v) == CASE tag # "none" -> {tag}
                     [] v = "is_china" -> {"chn"}
                     [] v = "non_china" -> {"gfw"}
                     [] OTHER -> {"chn", "gfw"}

(* mutant: nobody remembers that the trust group was not reached *)
TrustFailedForgotten(tag, targets, sent) == FALSE

TrustFailed(tag, targets, sent) == tag = "none" /\ "gfw" \in targets \ sent

(* External: what the upstreams of the groups that were reached will reply. *)
UpstreamReplies(qid, r, a, said) ==
  UNION {{[qid |-> qid, req |-> r, grp |-> grp,
           msg |-> [name |-> a.name, qtype |-> a.qtype, rcode |-> b.rcode,
                    tc |-> b.tc, ip |-> b.ip, len |-> b.len, by |-> grp]] :
             b \in said[grp]} : grp \in DOMAIN said}

NobodyReached(r, a, from, out) ==
  IF from = "local" THEN out
  ELSE send_reply(out, r, servfail_reply(QueryMsg(a)), from, a.bufsz)

(* The second half of on_query: take an id, forward, give up if no group    *)
(* could be reached.  out is the outbox after a cached reply, if any.       *)
Forward(r, a, from, out) ==
  LET tag == TagOf[a.name]
      v == VerdictFlag(a)
      targets == Targets(tag, v)
  IN \/ /\ ListFull \/ NoFreeQid
        /\ last_qid' = IF ListFull THEN last_qid ELSE AdvanceQid(QidTries)
        /\ outbox' = out
        /\ UNCHANGED <<query_list, asked>>
     \/ /\ ~ListFull
        /\ \E i \in 1..QidTries, sent \in SUBSET targets :
             /\ FreeQid(i)
             /\ last_qid' = AdvanceQid(i)
             /\ targets \ sent \subseteq MayFail
             /\ \/ /\ sent = {}
                   /\ outbox' = NobodyReached(r, a, from, out)
                   /\ UNCHANGED <<query_list, asked>>
                \/ /\ sent # {}
                   /\ outbox' = out
                   /\ query_list' = Put(query_list, Qid(i),
                        NewQuery(r, a, from, v, TrustFailed(tag, targets, sent)))
                   /\ \E said \in [sent -> UNION {Says[grp] : grp \in sent}] :
                        /\ \A grp \in sent : said[grp] \in Says[grp]
                        /\ asked' = asked \cup UpstreamReplies(Qid(i), r, a, said)

(* Request number r arrives and is a.  The bound on the clock leaves every  *)
(* query time to reach its deadline.                                        *)
Arrives(r, a) ==
  /\ Len(reqs) < MaxReq
  /\ now + Timeout <= MaxTime
  /\ r = Len(reqs) + 1
  /\ reqs' = Append(reqs, a)

(* check_query failed: the sender gets a bare header back. *)
OnBadQuery(r, a) ==
  /\ Arrives(r, a)
  /\ outbox' = [outbox EXCEPT ![r] = Append(@, BadMsg(a))]
  /\ UNCHANGED <<now, query_list, last_qid, cache, verdict, ipset, asked, seen>>

OnQueryLocal(r, a) ==
  /\ Arrives(r, a)
  /\ AnswersItself(a)
  /\ outbox' = send_reply(outbox, r,
                 IF ~FilteredQuery(a) /\ HasLocalRR(a) THEN LocalMsg(a)
                                                       ELSE QueryMsg(a),
                 a.from, a.bufsz)
  /\ UNCHANGED <<now, query_list, last_qid, cache, verdict, ipset, asked, seen>>

(* mutant: the refresh of a cached answer keeps the client *)
RefreshFromClient(a) == a.from

RefreshFrom(a) == "local"

(* cache.get hits; the reply goes out, and the answer is refreshed in the   *)
(* background when its TTL has fallen to ttl_r or below.                    *)
OnQueryHit(r, a) ==
  LET k == <<a.name, a.qtype>>
      tag == TagOf[a.name]
      m == cache[k].msg
      out == send_reply(outbox, r, m, a.from, a.bufsz)
  IN /\ Arrives(r, a)
     /\ ~AnswersItself(a)
     /\ k \in DOMAIN cache
     /\ cache' = cache_hit(cache, k)
     /\ ipset' = IF /\ ~cache[k].added_ip /\ tag \in AddIpTags
                    /\ is_A_AAAA(a.qtype) /\ is_good(m)
                 THEN ipset \cup {<<tag, m>>} ELSE ipset
     /\ \/ /\ outbox' = out
           /\ UNCHANGED <<query_list, last_qid, asked>>
        \/ Forward(r, a, RefreshFrom(a), out)
     /\ UNCHANGED <<now, verdict, seen>>

(* No entry, or an entry that turns out to be expired and is deleted. *)
OnQueryMiss(r, a) ==
  /\ Arrives(r, a)
  /\ ~AnswersItself(a)
  /\ cache' = cache_miss(cache, <<a.name, a.qtype>>)
  /\ Forward(r, a, a.from, outbox)
  /\ UNCHANGED <<now, verdict, ipset, seen>>

-----------------------------------------------------------------------------
(* on_reply *)

(* mutant: every china reply with an address will do *)
use_china_reply_any(m) == test_ip(m) \in {"is_china_ip", "non_china_ip"}

use_china_reply(m) == CASE test_ip(m) = "is_china_ip" -> TRUE
                        [] test_ip(m) = "non_china_ip" -> FALSE
                        [] test_ip(m) = "no_ip_found" -> NoipAsChnip
                        [] OTHER -> is_tc(m)

(* mutant: a reply without addresses counts as a verdict too *)
HasVerdictLoose(m) == test_ip(m) # "other_case"

HasVerdict(m) == test_ip(m) \in {"is_china_ip", "non_china_ip"}

(* IP6Filter.filter_reply: res is the test result handed over, if any. *)
filter_reply(filter, m, res) ==
  LET t == IF res = {} THEN test_ip(m) ELSE CHOOSE x \in res : TRUE
  IN \/ t = "is_china_ip" /\ filter.china_ip
     \/ t = "non_china_ip" /\ filter.non_china_ip

(* The end of on_reply: filter, ipset, cache, client, delete. *)
EndQuery(a, q, chosen, res) ==
  LET filtered == /\ a.msg.qtype = "AAAA"
                  /\ filter_reply(Ip6Filter[q.tag], chosen, res)
      m == IF filtered THEN empty_reply(chosen) ELSE chosen
  IN /\ ipset' = IF /\ is_A_AAAA(a.msg.qtype) /\ ~filtered
                    /\ q.tag \in AddIpTags /\ is_good(m)
                 THEN ipset \cup {<<q.tag, m>>} ELSE ipset
     /\ cache' \in cache_add(cache, m)
     /\ outbox' = IF q.from = "local" THEN outbox
                  ELSE send_reply(outbox, q.req, m, q.from, q.bufsz)
     /\ query_list' = Without(query_list, a.qid)

DropTc(q, m) == q.from # "udp" /\ is_tc(m)

(* Nobody waits for the reply any more, or it is truncated and the client   *)
(* did not come over UDP.                                                   *)
IgnoreReply(a) ==
  /\ a.qid \in DOMAIN query_list => DropTc(query_list[a.qid], a.msg)
  /\ seen' = seen \cup {a}
  /\ UNCHANGED <<now, reqs, query_list, last_qid, cache, verdict, ipset, asked,
                 outbox>>

Matches(a) ==
  /\ a.qid \in DOMAIN query_list
  /\ ~DropTc(query_list[a.qid], a.msg)
  /\ seen' = seen \cup {a}
  /\ UNCHANGED <<now, reqs, last_qid, asked>>

Races(q, m) == q.tag = "none" /\ is_A_AAAA(m.qtype)

(* mutant: the query is not marked as waiting for the trust group *)
RejectChinaUnmarked(a, q) == UNCHANGED query_list

(* A rejected china reply, and the trust group has not answered yet. *)
RejectChina(a, q) ==
  query_list' = Put(query_list, a.qid, [q EXCEPT !.verdict = "non_china"])

OnChinaReply(a) ==
  LET q == query_list[a.qid]
      known == q.verdict = "is_china"
      res == IF known THEN {} ELSE {test_ip(a.msg)}
  IN /\ Matches(a)
     /\ Races(q, a.msg) /\ a.grp = "chn"
     /\ IF ~known /\ HasVerdict(a.msg)
        THEN verdict' \in verdict_add(verdict, a.msg.name,
                                      test_ip(a.msg) = "is_china_ip")
        ELSE UNCHANGED verdict
     /\ \/ /\ known \/ use_china_reply(a.msg)
           /\ EndQuery(a, q, a.msg, res)
        \/ /\ ~known /\ ~use_china_reply(a.msg)
           /\ \/ \E t \in q.trust_msg : EndQuery(a, q, t, res)
              \/ /\ q.trust_msg = {} /\ q.trust_failed
                 /\ EndQuery(a, q, servfail_reply(a.msg), res)
              \/ /\ q.trust_msg = {} /\ ~q.trust_failed
                 /\ RejectChina(a, q)
                 /\ UNCHANGED <<cache, ipset, outbox>>

(* mutant: the trust reply does not wait for the verdict *)
TrustMayAnswerAlways(q) == TRUE

TrustMayAnswer(q) == q.verdict = "non_china"

OnTrustReply(a) ==
  LET q == query_list[a.qid]
  IN /\ Matches(a)
     /\ Races(q, a.msg) /\ a.grp = "gfw"
     /\ UNCHANGED verdict
     /\ \/ /\ TrustMayAnswer(q)
           /\ EndQuery(a, q, a.msg, {})
        \/ /\ ~TrustMayAnswer(q)
           /\ query_list' = Put(query_list, a.qid,
                [q EXCEPT !.trust_msg = IF @ = {} THEN {a.msg} ELSE @])
           /\ UNCHANGED <<cache, ipset, outbox>>

(* Any other tag or type: the first reply ends the query. *)
OnFirstReply(a) ==
  LET q == query_list[a.qid]
  IN /\ Matches(a)
     /\ ~Races(q, a.msg)
     /\ UNCHANGED verdict
     /\ EndQuery(a, q, a.msg, {})

-----------------------------------------------------------------------------
(* check_timeout, and the clock *)

(* mutant: only queries of clients are timed out *)
ExpiredClients(t) ==
  {i \in DOMAIN query_list :
     \A j \in DOMAIN query_list :
       query_list[j].req <= query_list[i].req
         => /\ t >= query_list[j].req_time + Timeout
            /\ query_list[j].from # "local"}

(* mutant: the deadline is exclusive *)
ExpiredLate(t) ==
  {i \in DOMAIN query_list :
     \A j \in DOMAIN query_list :
       query_list[j].req <= query_list[i].req
         => t > query_list[j].req_time + Timeout}

(* The list is walked from the head and left at the first query whose       *)
(* deadline is in the future.                                               *)
Expired(t) ==
  {i \in DOMAIN query_list :
     \A j \in DOMAIN query_list :
       query_list[j].req <= query_list[i].req
         => t >= query_list[j].req_time + Timeout}

(* The top of EvLoop.run: read the clock, then check_timeout. *)
LoopTop(d) ==
  /\ now + d <= MaxTime
  /\ now' = now + d
  /\ query_list' = [i \in DOMAIN query_list \ Expired(now + d) |-> query_list[i]]
  /\ UNCHANGED <<reqs, last_qid, cache, verdict, ipset, asked, seen, outbox>>

(* The clock is also read between two batches of ten events. *)
ClockInBatch ==
  /\ now < MaxTime
  /\ now' = now + 1
  /\ UNCHANGED <<reqs, query_list, last_qid, cache, verdict, ipset, asked, seen,
                 outbox>>

-----------------------------------------------------------------------------
Init ==
  /\ now = 0
  /\ reqs = <<>>
  /\ query_list = [i \in {} |-> 0]
  /\ last_qid = 0
  /\ cache = [k \in DOMAIN DbCache |-> DbEntry(k)]
  /\ verdict = [n \in {} |-> FALSE]
  /\ ipset = {}
  /\ asked = {}
  /\ seen = {}
  /\ outbox = [r \in Requests |-> <<>>]

ClientStep ==
  \E r \in Requests, a \in Asks :
    \/ OnBadQuery(r, a)
    \/ OnQueryLocal(r, a)
    \/ OnQueryHit(r, a)
    \/ OnQueryMiss(r, a)

UpstreamStep ==
  \E a \in asked :
    \/ IgnoreReply(a)
    \/ OnChinaReply(a)
    \/ OnTrustReply(a)
    \/ OnFirstReply(a)

Next ==
  \/ ClientStep
  \/ UpstreamStep
  \/ \E d \in {0, 1} : LoopTop(d)
  \/ ClockInBatch

Spec == Init /\ [][Next]_vars

(* epoll_wait sleeps no longer than the first deadline, so the loop comes   *)
(* back to its top and the clock moves on.                                  *)
FairSpec == Spec /\ \A d \in {0, 1} : WF_vars(LoopTop(d))

-----------------------------------------------------------------------------
(* Properties *)

TypeOK ==
  /\ now \in 0..MaxTime
  /\ reqs \in Seq(Ask) /\ Len(reqs) <= MaxReq
  /\ DOMAIN query_list \subseteq 0..NQid - 1
  /\ \A i \in DOMAIN query_list : query_list[i] \in Query
  /\ last_qid \in 0..NQid - 1
  /\ DOMAIN cache \subseteq Questions
  /\ \A k \in DOMAIN cache : cache[k] \in [msg : Msg, added_ip : BOOLEAN]
  /\ DOMAIN verdict \subseteq Names
  /\ \A n \in DOMAIN verdict : verdict[n] \in BOOLEAN
  /\ ipset \subseteq Tags \X Msg
  /\ asked \subseteq Reply /\ seen \subseteq asked
  /\ outbox \in [Requests -> Seq(Msg)]

(* A client query is answered at most once, whatever is duplicated, late,   *)
(* cached or refreshed (on_query, on_reply, send_reply).                    *)
AtMostOneReply == \A r \in Requests : Len(outbox[r]) <= 1

(* List.get matches a reply by its id alone.  As long as the ids have not   *)
(* wrapped around, a client still gets an answer to the question it asked.  *)
AnswersItsOwnQuestion ==
  \A r \in 1..Len(reqs) : \A i \in DOMAIN outbox[r] :
    question(outbox[r][i]) = <<reqs[r].name, reqs[r].qtype>>

(* A china upstream has replied to a query for the tag:none name n with an  *)
(* address of the given kind.                                               *)
ChinaSaid(n, kind) ==
  \E e \in seen : /\ e.grp = "chn" /\ e.msg.name = n /\ TagOf[n] = "none"
                  /\ test_ip(e.msg) = kind

(* The verdict cache only holds what an ip test of a china reply said:      *)
(* use_china_reply is its only writer.                                      *)
VerdictFromEvidence ==
  \A n \in DOMAIN verdict :
    ChinaSaid(n, IF verdict[n] THEN "is_china_ip" ELSE "non_china_ip")

(* w holds the verdict b of the name as vc does those of the other names;   *)
(* one of these at most is missing, and none if the name was known or there *)
(* was room.                                                                *)
Stored(vc, w, name, b) ==
  LET others == DOMAIN vc \ {name}
      kept == others \cap DOMAIN w
  IN /\ name \in DOMAIN w
     /\ w[name] = b
     /\ name \in DOMAIN vc \/ Cardinality(DOMAIN vc) < VerdictCacheSize => kept = others
     /\ Cardinality(others \ kept) <= 1
     /\ \A x \in kept : w[x] = vc[x]

(* The verdict cache never outgrows its size, and a verdict that a china    *)
(* reply brings is in it afterwards, whichever other entry new_key frees in *)
(* hash order to make room for it.                                          *)
VerdictsFit ==
  [][/\ Cardinality(DOMAIN verdict') <= VerdictCacheSize
     /\ \A a \in asked :
          /\ OnChinaReply(a) /\ HasVerdict(a.msg) /\ VerdictCacheSize > 0
          /\ query_list[a.qid].verdict # "is_china"
          => Stored(verdict, verdict', a.msg.name, test_ip(a.msg) = "is_china_ip")]_vars

SentToClients == UNION {{outbox[r][i] : i \in DOMAIN outbox[r]} : r \in Requests}

InCache == {cache[k].msg : k \in DOMAIN cache}

\* what clients were sent or may be sent, leaving out the questions that an
\* earlier process answered (the db file)
Served ==
  {m \in SentToClients \cup InCache : question(m) \notin DOMAIN DbCache}

(* A china reply with a foreign address (the polluted answer this program   *)
(* exists to discard) is neither sent nor cached for a tag:none name,       *)
(* unless a verdict from an earlier reply says the name is a china domain.  *)
NoPollutedAnswer ==
  \A m \in Served :
    /\ TagOf[m.name] = "none" /\ is_A_AAAA(m.qtype) /\ m.by = "chn"
    /\ test_ip(m) = "non_china_ip"
    => ChinaSaid(m.name, "is_china_ip")

(* The trust group's addresses are used for a tag:none name only after a    *)
(* china reply for the name was rejected (README: "otherwise the trust      *)
(* group is adopted").                                                      *)
TrustOnlyAfterRejection ==
  \A m \in Served :
    /\ TagOf[m.name] = "none" /\ is_A_AAAA(m.qtype) /\ m.by = "gfw"
    => \E e \in seen : /\ e.grp = "chn" /\ e.msg.name = m.name
                       /\ ~use_china_reply(e.msg)

(* An address that reaches a client of a tag with an ipset is in the ipset  *)
(* by then, also when the answer comes from the db file's cache.            *)
ServedIpsAreRouted ==
  \A r \in 1..Len(reqs) : \A i \in DOMAIN outbox[r] :
    LET m == outbox[r][i]
        tag == TagOf[reqs[r].name]
    IN tag \in AddIpTags /\ is_A_AAAA(m.qtype) /\ HasVerdict(m)
         => <<tag, m>> \in ipset

(* A query never waits for a reply that cannot come: some upstream that it  *)
(* was sent to has not replied yet (or its reply was dropped as truncated,  *)
(* when the client is expected to have used UDP).                           *)
NeverWaitsInVain ==
  \A i \in DOMAIN query_list :
    \E a \in asked : /\ a.req = query_list[i].req
                     /\ a \notin seen \/ DropTc(query_list[i], a.msg)

Pending(r) ==
  \E i \in DOMAIN query_list : query_list[i].req = r /\ query_list[i].from # "local"

TimedOut(r) ==
  \E i \in DOMAIN query_list : /\ query_list[i].req = r
                               /\ now' >= query_list[i].req_time + Timeout

(* A client's query is answered, pending, timed out or, when no query id is *)
(* free, refused: no step makes it vanish otherwise (List.add, List.del).   *)
NoSilentLoss ==
  [][\A r \in 1..Len(reqs') :
       /\ Pending(r) \/ r > Len(reqs)
       /\ ~Pending(r)'
       => \/ Len(outbox'[r]) = 1
          \/ TimedOut(r)
          \/ r > Len(reqs) /\ (ListFull \/ NoFreeQid)]_vars

(* check_timeout stops at the first query that is not overdue; none that is *)
(* overdue stays behind it.                                                 *)
NoOverdueAfterCheck ==
  [][\A d \in {0, 1} : LoopTop(d) =>
       \A i \in DOMAIN query_list' : now' < query_list'[i].req_time + Timeout]_vars

(* Every query, also a background refresh, leaves the list. *)
EveryQueryLeaves ==
  \A r \in Requests :
    (\E i \in DOMAIN query_list : query_list[i].req = r)
      ~> ~(\E i \in DOMAIN query_list : query_list[i].req = r)

(* The reference for the race: what the client should get, given what the   *)
(* two groups say (c and t have at most one element), whatever comes first. *)
RaceWinner(known, c, t) ==
  LET m == CHOOSE x \in c : TRUE
  IN CASE c = {} -> t
       [] c # {} /\ (known \/ use_china_reply(m)) -> c
       [] OTHER -> IF t = {} THEN {servfail_reply(m)} ELSE t

FilterByOwnIp(tag, m) ==
  IF m.qtype = "AAAA" /\ filter_reply(Ip6Filter[tag], m, {})
  THEN empty_reply(m) ELSE m

(* When each group has at most one reply to a tag:none A/AAAA query, the    *)
(* answer is a function of the two replies and not of their order of        *)
(* arrival; the AAAA filter looks at the addresses of the answer itself.    *)
RaceHasOneOutcome ==
  [][\A i \in DOMAIN query_list :
       LET q == query_list[i]
           mine(grp) == {a.msg : a \in {x \in asked : x.req = q.req /\ x.grp = grp}}
           ans == outbox'[q.req]
       IN /\ q.tag = "none" /\ q.from # "local"
          /\ is_A_AAAA(reqs[q.req].qtype)
          /\ outbox[q.req] = <<>> /\ ans # <<>>
          /\ \A grp \in Groups : \A m, n \in mine(grp) : m = n
          => ans[1] \in {Sent(FilterByOwnIp(q.tag, m), q.from, q.bufsz) :
                           m \in RaceWinner(q.verdict = "is_china",
                                            mine("chn"), mine("gfw"))}]_vars

=============================================================================
