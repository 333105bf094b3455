----------------------------- MODULE UdpSession -----------------------------
(***************************************************************************)
(* UDP sessions to upstreams (Upstream.zig, struct UDP, SessionNode and    *)
(* check_timeout), with the socks5 UDP ASSOCIATE start-up of a proxied     *)
(* session and the process-wide proxy backoff (g.zig).                     *)
(*                                                                         *)
(* A session is retired when it has sent its share of queries or has       *)
(* outlived its life; the upstream then moves on to a new one, and the old *)
(* one is kept until its outstanding queries are answered or time out.     *)
(* Two coroutines can be suspended inside a session: reply_receiver and    *)
(* proxy_init.  Session objects are numbered and never reused, so that a   *)
(* use of a freed one shows.                                               *)
(***************************************************************************)
EXTENDS LinkedLists

CONSTANTS
  Upstreams,   \* upstreams with protocol udp or udpi
  CountMax,    \* upstream -> ?count=N (0: no limit)
  Life,        \* upstream -> ?life=N (0: no limit)
  Proxied,     \* upstream -> use_proxy()
  NewMayFail,  \* may socket() fail?
  Timeout,     \* g.upstream_timeout
  DelayMax,    \* the longest proxy backoff (30 s in the code)
  Qids,        \* query ids
  MaxSess,     \* bound: sessions in a behaviour
  MaxSend,     \* bound: calls of Upstream.send
  MaxTime      \* bound: last clock value

ASSUME UdpAssumption ==
  /\ CountMax \in [Upstreams -> Nat]
  /\ Life \in [Upstreams -> Nat]
  /\ Proxied \in [Upstreams -> BOOLEAN]
  /\ NewMayFail \in BOOLEAN
  /\ Timeout \in Nat \ {0}
  /\ DelayMax \in Nat \ {0}
  /\ MaxSess \in Nat /\ MaxSend \in Nat /\ MaxTime \in Nat

VARIABLES
  now,           \* g.evloop.time
  nsess,         \* sessions created so far; their numbers are 1..nsess
  nsend,         \* calls of send so far
  sess,          \* the sessions
  cur,           \* upstream.session (0: null)
  session_list,  \* _session_list: busy sessions, in the order of the list
  backoff        \* [until, step]: g.proxy_backoff_until, g.proxy_backoff_step

vars == <<now, nsess, nsend, sess, cur, session_list, backoff>>

Sessions == 1..nsess

\* proxy: "off" not proxied, "down" not ready, "starting" proxy_init is
\* suspended, "ready".  receiving: reply_receiver is suspended in read_udp.
Session == [up : Upstreams, freed : BOOLEAN, query_list : SUBSET Qids,
            create_time : Nat, query_time : Nat, query_count : Nat,
            proxy : {"off", "down", "starting", "ready"}, receiving : BOOLEAN]

-----------------------------------------------------------------------------
(* The proxy backoff, in clock units instead of 200 ms. *)

proxy_can_try == now >= backoff.until

Delay(step) == LET d == 2 ^ (step - 1) IN IF d > DelayMax THEN DelayMax ELSE d

proxy_note_fail ==
  LET step == IF backoff.step < 10 THEN backoff.step + 1 ELSE backoff.step
  IN [until |-> now + Delay(step), step |-> step]

(* mutant: a success takes back one failure *)
proxy_note_success_one == [until |-> 0, step |-> backoff.step - 1]

proxy_note_success == [until |-> 0, step |-> 0]

-----------------------------------------------------------------------------
(* Parts of a session, as functions of its record. *)

is_idle(s) == s.query_list = {}

Worn(s) ==
  \/ CountMax[s.up] > 0 /\ s.query_count >= CountMax[s.up]
  \/ Life[s.up] > 0 /\ now >= s.create_time + Life[s.up]

(* is_retire(self) for session i; it also makes a worn session leave its    *)
(* upstream, which the caller's cur' takes into account.                    *)
is_retire(i) == cur[sess[i].up] # i \/ Worn(sess[i])

deadline(s) == s.query_time + Timeout

new(u) == [up |-> u, freed |-> FALSE, query_list |-> {}, create_time |-> now,
           query_time |-> 0, query_count |-> 0,
           proxy |-> IF Proxied[u] THEN "down" ELSE "off", receiving |-> FALSE]

(* mutant: only a session that was busy before is put in the list *)
OnWorkUnlinked(list, i, idle) ==
  IF idle THEN list ELSE Append(Unlist(list, i), i)

(* mutant: a busy session keeps its place in the list *)
OnWorkInPlace(list, i, idle) == IF idle THEN Append(list, i) ELSE list

on_work(list, i, idle) == Append(IF idle THEN list ELSE Unlist(list, i), i)

(* mutant: the pending read is not cancelled *)
FreedReading(s) == [s EXCEPT !.freed = TRUE, !.query_list = {}]

(* free: the pending read fails and ends reply_receiver; proxy_init, which  *)
(* waits on a descriptor of its own until it is done, is not woken.         *)
Freed(s) == [s EXCEPT !.freed = TRUE, !.query_list = {}, !.receiving = FALSE]

(* free resets upstream.session, if it is this session. *)
Leave(c, S) == [u \in Upstreams |-> IF c[u] \in S THEN 0 ELSE c[u]]

-----------------------------------------------------------------------------
(* send_query on session i, which is not retired; s is its record, table    *)
(* the sessions with s among them.  A proxied session that is not ready     *)
(* refuses the query and, outside the backoff, starts proxy_init: that runs *)
(* up to its first wait, or returns at once if it gets no socket (a connect  *)
(* that fails at once is the first, followed by ProxyFails).  The first     *)
(* query that is sent starts reply_receiver.                                *)
SendOn(i, s, table, q) ==
  \/ /\ s.proxy \in {"down", "starting"}
     /\ \/ /\ ~proxy_can_try \/ s.proxy = "starting" \/ NewMayFail
           /\ sess' = table
        \/ /\ proxy_can_try /\ s.proxy = "down"
           /\ sess' = [table EXCEPT ![i].proxy = "starting"]
     /\ UNCHANGED session_list
  \/ /\ s.proxy \in {"off", "ready"}
     /\ session_list' = on_work(session_list, i, is_idle(s))
     /\ sess' = [table EXCEPT ![i].query_list = @ \cup {q},
                              ![i].query_time = now,
                              ![i].query_count = @ + 1,
                              ![i].receiving = @ \/ s.query_count = 0]

(* get_session finds no session, or send_query finds it retired. *)
NeedsNew(u) == cur[u] # 0 => is_retire(cur[u])

(* Upstream.send with a socket at hand for a new session, should one be     *)
(* needed.  The old session is left alone, idle or not.  The bound on the   *)
(* clock leaves every query time to reach its deadline.                     *)
Send(u, q) ==
  /\ nsend < MaxSend /\ now + Timeout <= MaxTime
  /\ nsend' = nsend + 1
  /\ \/ /\ ~NeedsNew(u)
        /\ SendOn(cur[u], sess[cur[u]], sess, q)
        /\ UNCHANGED <<nsess, cur>>
     \/ /\ NeedsNew(u)
        /\ nsess < MaxSess
        /\ nsess' = nsess + 1
        /\ cur' = [cur EXCEPT ![u] = nsess + 1]
        /\ SendOn(nsess + 1, new(u), Append(sess, new(u)), q)
  /\ UNCHANGED <<now, backoff>>

(* Upstream.send when socket() fails: a retired session that is idle is     *)
(* freed here.                                                              *)
SendNoSocket(u) ==
  /\ NewMayFail /\ nsend < MaxSend
  /\ nsend' = nsend + 1
  /\ NeedsNew(u)
  /\ cur' = [cur EXCEPT ![u] = 0]
  /\ sess' = IF cur[u] # 0 /\ is_idle(sess[cur[u]])
             THEN [sess EXCEPT ![cur[u]] = Freed(@)] ELSE sess
  /\ UNCHANGED <<now, nsess, session_list, backoff>>

-----------------------------------------------------------------------------
(* free() of every session in S, but for its node in the list. *)
FreeAll(S) ==
  /\ sess' = [i \in Sessions |-> IF i \in S THEN Freed(sess[i]) ELSE sess[i]]
  /\ cur' = Leave(cur, S)

(* mutant: a session that has become idle stays, retired or not *)
ReplyEndsNever(i, rest) == FALSE

(* After a reply: is this the end of reply_receiver? *)
ReplyEnds(i, rest) == rest = {} /\ is_retire(i)

(* reply_receiver gets a datagram with id q, asked for or not.              *)
OnReply(i, q) ==
  LET rest == sess[i].query_list \ {q}
  IN /\ sess[i].receiving
     /\ \/ /\ ReplyEnds(i, rest)
           /\ FreeAll({i})
           /\ session_list' = Unlist(session_list, i)
        \/ /\ ~ReplyEnds(i, rest)
           /\ sess' = [sess EXCEPT ![i].query_list = rest]
           /\ session_list' = IF rest = {} /\ ~is_idle(sess[i])
                              THEN Unlist(session_list, i) ELSE session_list
           /\ UNCHANGED cur
     /\ UNCHANGED <<now, nsess, nsend, backoff>>

(* read_udp fails. *)
OnRecvError(i) ==
  /\ sess[i].receiving
  /\ FreeAll({i})
  /\ session_list' = Unlist(session_list, i)
  /\ UNCHANGED <<now, nsess, nsend, backoff>>

(* proxy_init comes to its end: connected, greeted and associated, or not. *)
ProxyUp(i) ==
  /\ sess[i].proxy = "starting"
  /\ sess' = [sess EXCEPT ![i].proxy = "ready"]
  /\ backoff' = proxy_note_success
  /\ UNCHANGED <<now, nsess, nsend, cur, session_list>>

ProxyFails(i) ==
  /\ sess[i].proxy = "starting"
  /\ sess' = [sess EXCEPT ![i].proxy = "down"]
  /\ backoff' = proxy_note_fail
  /\ UNCHANGED <<now, nsess, nsend, cur, session_list>>

-----------------------------------------------------------------------------
(* check_timeout walks the list from its head, frees what is overdue, and   *)
(* stops at the first session whose deadline is in the future, or behind    *)
(* the last one.                                                            *)
OverdueAt(t, k) == t >= deadline(sess[session_list[k]])

StopsAt(t) ==
  CHOOSE k \in 1..(Len(session_list) + 1) :
    /\ \A j \in 1..(k - 1) : OverdueAt(t, j)
    /\ k <= Len(session_list) => ~OverdueAt(t, k)

Overdue(t) == {session_list[k] : k \in 1..(StopsAt(t) - 1)}

LoopTop(d) ==
  /\ now + d <= MaxTime
  /\ now' = now + d
  /\ FreeAll(Overdue(now + d))
  /\ session_list' = SubSeq(session_list, StopsAt(now + d), Len(session_list))
  /\ UNCHANGED <<nsess, nsend, backoff>>

ClockInBatch ==
  /\ now < MaxTime
  /\ now' = now + 1
  /\ UNCHANGED <<nsess, nsend, sess, cur, session_list, backoff>>

-----------------------------------------------------------------------------
Init ==
  /\ now = 0 /\ nsess = 0 /\ nsend = 0
  /\ sess = <<>>
  /\ cur = [u \in Upstreams |-> 0]
  /\ session_list = <<>>
  /\ backoff = [until |-> 0, step |-> 0]

Next ==
  \/ \E u \in Upstreams, q \in Qids : Send(u, q)
  \/ \E u \in Upstreams : SendNoSocket(u)
  \/ \E i \in Sessions : \/ \E q \in Qids : OnReply(i, q)
                         \/ OnRecvError(i)
                         \/ ProxyUp(i)
                         \/ ProxyFails(i)
  \/ \E d \in {0, 1} : LoopTop(d)
  \/ ClockInBatch

Spec == Init /\ [][Next]_vars

FairSpec == Spec /\ \A d \in {0, 1} : WF_vars(LoopTop(d))

-----------------------------------------------------------------------------
(* Properties *)

TypeOK ==
  /\ now \in 0..MaxTime /\ nsess \in 0..MaxSess /\ nsend \in 0..MaxSend
  /\ sess \in [Sessions -> Session]
  /\ cur \in [Upstreams -> 0..nsess]
  /\ session_list \in Seq(Sessions)
  /\ backoff \in [until : Nat, step : 0..10]

Busy(i) == ~sess[i].freed /\ ~is_idle(sess[i])

(* The timeout list holds exactly the sessions with outstanding queries,    *)
(* once each (on_work, on_idle and free agree about who is linked), and     *)
(* each of them still has its reply_receiver.                               *)
BusySessionsAreWatched ==
  /\ ToSet(session_list) = {i \in Sessions : Busy(i)}
  /\ Len(session_list) = Cardinality(ToSet(session_list))
  /\ \A i \in Sessions : Busy(i) => sess[i].receiving

(* No coroutine is left suspended in a freed session: free is called by     *)
(* reply_receiver and check_timeout only, as its comment has it.            *)
NoUseAfterFree ==
  \A i \in Sessions : sess[i].freed => sess[i].proxy # "starting" /\ ~sess[i].receiving

(* "no more queries will be sent. freed when the queries completes": a      *)
(* session that its upstream has left, and that waits for nothing, is gone. *)
RetiredSessionIsFreed ==
  \A i \in Sessions :
    cur[sess[i].up] # i /\ is_idle(sess[i]) /\ sess[i].proxy # "starting"
      => sess[i].freed

(* The same for upstreams without ?life, whose sessions are retired by      *)
(* their number of queries.                                                 *)
RetiredByCountIsFreed ==
  \A i \in Sessions :
    Life[sess[i].up] = 0 /\ cur[sess[i].up] # i /\ is_idle(sess[i])
      => sess[i].freed

(* The walk of check_timeout stops early and misses nothing: no session     *)
(* with an overdue query stays in the list.                                 *)
NoOverdueSessionAfterCheck ==
  [][\A d \in {0, 1} : LoopTop(d) =>
       \A k \in DOMAIN session_list' : now' < deadline(sess[session_list'[k]])]_vars

(* A session that waits for replies gets them or is freed by the timeout.   *)
EverySessionIsReleased ==
  \A i \in 1..MaxSess : (i \in Sessions /\ Busy(i)) ~> ~(i \in Sessions /\ Busy(i))

=============================================================================
