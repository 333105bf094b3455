----------------------------- MODULE TcpSession -----------------------------
(***************************************************************************)
(* TCP and TLS sessions to upstreams (Upstream.zig, struct TCP), their     *)
(* list and timeout (SessionNode, check_timeout) and the process-wide      *)
(* proxy backoff (g.zig).                                                  *)
(*                                                                         *)
(* Queries wait in send_list until query_sender has written them, then in  *)
(* ack_list for their replies.  When the connection ends, stop() closes it *)
(* and, if queries are outstanding, makes a new one and sends them again.  *)
(* Two coroutines live in a session: query_sender, whose place is the      *)
(* field sender, and reply_receiver, which waits in recv() exactly while   *)
(* the sender waits for messages or for room to write.  Session objects    *)
(* are numbered and never reused.                                          *)
(***************************************************************************)
EXTENDS LinkedLists

CONSTANTS
  Upstreams,   \* upstreams with protocol tcp, tcpi or tls
  CountMax,    \* upstream -> ?count=N (0: no limit)
  Life,        \* upstream -> ?life=N (0: no limit)
  Proxied,     \* upstream -> use_proxy()
  Tls,         \* upstream -> is its protocol tls?
  PendingMax,  \* PENDING_MAX (65535 in the code)
  Timeout,     \* g.upstream_timeout
  DelayMax,    \* the longest proxy backoff (30 s in the code)
  Qids,        \* query ids
  MaxSess,     \* bound: sessions in a behaviour
  MaxSend,     \* bound: calls of Upstream.send
  MaxTime      \* bound: last clock value

ASSUME TcpAssumption ==
  /\ CountMax \in [Upstreams -> Nat]
  /\ Life \in [Upstreams -> Nat]
  /\ Proxied \in [Upstreams -> BOOLEAN]
  /\ Tls \in [Upstreams -> BOOLEAN]
  /\ IsFiniteSet(Qids)
  /\ PendingMax \in Nat \ {0}
  /\ Timeout \in Nat \ {0}
  /\ DelayMax \in Nat \ {0}
  /\ MaxSess \in Nat /\ MaxSend \in Nat /\ MaxTime \in Nat

VARIABLES
  nsend,   \* calls of Upstream.send so far
  world    \* [now, sess, cur, list, backoff], see below

vars == <<nsend, world>>

(* now: g.evloop.time.  sess: the sessions created so far.  cur: upstream   *)
(* -> upstream.session (0: null).  list: _session_list.  backoff: [until,   *)
(* step] of the proxy.  The methods of a session call one another, so each  *)
(* is a function from the world before to the world after.                  *)
Sessions == DOMAIN world.sess

\* where query_sender is suspended: in connect() up to and including the
\* socks5 requests, in the TLS handshake, in pop_qmsg, in send
Places == {"none", "connect", "tls", "wait", "write"}

Session == [up : Upstreams, freed : BOOLEAN, sender : Places,
            send_list : Seq(Qids), ack_list : SUBSET Qids, pending_n : Nat,
            create_time : Nat, query_time : Nat, query_count : Nat]

new(w, u) == [up |-> u, freed |-> FALSE, sender |-> "none", send_list |-> <<>>,
           ack_list |-> {}, pending_n |-> 0, create_time |-> w.now,
           query_time |-> 0, query_count |-> 0]

-----------------------------------------------------------------------------
(* The proxy backoff, in clock units instead of 200 ms. *)

proxy_can_try(w) == w.now >= w.backoff.until

Delay(step) == LET d == 2 ^ (step - 1) IN IF d > DelayMax THEN DelayMax ELSE d

proxy_note_fail(w) ==
  LET step == IF w.backoff.step < 10 THEN w.backoff.step + 1 ELSE w.backoff.step
  IN [w EXCEPT !.backoff = [until |-> w.now + Delay(step), step |-> step]]

proxy_note_success(w) == [w EXCEPT !.backoff = [until |-> 0, step |-> 0]]

-----------------------------------------------------------------------------
(* Parts of a session. *)

is_idle(s) == s.pending_n = 0

deadline(s) == s.query_time + Timeout

connected(s) == s.sender \in {"wait", "write"}

(* A worn session also leaves its upstream; wherever is_retire is asked, a  *)
(* retired session is then replaced or freed, which says the same.          *)
is_retire(w, i) ==
  LET s == w.sess[i]
  IN \/ w.cur[s.up] # i
     \/ CountMax[s.up] > 0 /\ s.query_count >= CountMax[s.up]
     \/ Life[s.up] > 0 /\ w.now >= s.create_time + Life[s.up]

(* on_idle unlinks the session's node. *)
on_idle(w, i) == [w EXCEPT !.list = Unlist(@, i)]

(* mutant: only a session that was idle is put in the list *)
on_work_once(w, i) ==
  IF is_idle(w.sess[i]) THEN [w EXCEPT !.list = Append(@, i)] ELSE on_idle(w, i)

on_work(w, i) == [on_idle(w, i) EXCEPT !.list = Append(@, i)]

(* free: a sender that is suspended in connect() to the proxy is cancelled, *)
(* which counts as a failure of the proxy; every other coroutine just ends. *)
(* Nothing is left of the session but its number and that it is gone.       *)
free(w, i) ==
  LET s == w.sess[i]
      gone == [on_idle(w, i) EXCEPT
                 !.sess[i] = [new(w, s.up) EXCEPT !.freed = TRUE, !.create_time = 0],
                 !.cur[s.up] = IF @ = i THEN 0 ELSE @]
  IN IF s.sender = "connect" /\ Proxied[s.up] THEN proxy_note_fail(gone) ELSE gone

(* The queries of a session are given up. *)
Drop(w, i) ==
  [on_idle(w, i) EXCEPT !.sess[i].send_list = <<>>, !.sess[i].ack_list = {},
                        !.sess[i].pending_n = 0]

(* mutant: the id of a query that is on its way already is counted twice *)
on_send_msg_counted(s) ==
  [s EXCEPT !.send_list = Tail(@), !.ack_list = @ \cup {Head(s.send_list)},
            !.sender = "write"]

(* pop_qmsg and on_send_msg: the next message goes to the connection.  A    *)
(* message with the id of one that waits for its reply replaces that one.   *)
on_send_msg(s) ==
  LET q == Head(s.send_list)
  IN [s EXCEPT !.send_list = Tail(@), !.ack_list = @ \cup {q}, !.sender = "write",
               !.pending_n = IF q \in s.ack_list THEN @ - 1 ELSE @]

(* The loop of query_sender: write the next message, or wait for one.  A    *)
(* write that needs no waiting is one whose wait ends at once.              *)
NextMessage(s) ==
  IF s.send_list = <<>> THEN [s EXCEPT !.sender = "wait"] ELSE on_send_msg(s)

-----------------------------------------------------------------------------
(* What the kernel says to the socket() and the connect() of a new          *)
(* connection: nothing yet, no socket, or that it is refused at once.       *)
Outcomes == {"waits", "no_socket", "refused"}

(* start: query_sender runs to its first wait, or fails on the spot, which  *)
(* it does without trying in the backoff of the proxy; then stop(), called  *)
(* with the flag starting set, gives the queries up.                        *)
start(w, i, outcome) ==
  LET up == w.sess[i].up
      tries == Proxied[up] => proxy_can_try(w)
      begun == [w EXCEPT !.sess[i].create_time = w.now]
      failed == IF outcome = "refused" /\ Proxied[up] /\ tries
                THEN Drop(proxy_note_fail(begun), i) ELSE Drop(begun, i)
      after == IF outcome = "waits" /\ tries
               THEN [begun EXCEPT !.sess[i].sender = "connect"] ELSE failed
  IN IF is_idle(after.sess[i]) /\ is_retire(after, i) THEN free(after, i) ELSE after

(* mutant: what was sent and not answered is forgotten *)
resend_unsent(s) == [s EXCEPT !.ack_list = {}, !.pending_n = Len(s.send_list)]

(* clear_ack_list(.resend), in the order of the hash table. *)
resend(s) == [s EXCEPT !.ack_list = {}, !.send_list = SetToSeq(s.ack_list) \o @]

(* mutant: a session without queries stays, retired or not *)
stop_idle_kept(w, i, outcome) ==
  LET closed == [w EXCEPT !.sess[i].sender = "none"]
  IN IF is_idle(w.sess[i]) THEN closed
     ELSE start([closed EXCEPT !.sess[i] = resend(@)], i, outcome)

(* stop: the connection is closed, which ends the other coroutine. *)
stop(w, i, outcome) ==
  LET closed == [w EXCEPT !.sess[i].sender = "none"]
  IN CASE ~is_idle(w.sess[i]) /\ Proxied[w.sess[i].up] /\ ~proxy_can_try(w) ->
            Drop(closed, i)
       [] ~is_idle(w.sess[i]) /\ (Proxied[w.sess[i].up] => proxy_can_try(w)) ->
            start([closed EXCEPT !.sess[i] = resend(@)], i, outcome)
       [] is_idle(w.sess[i]) ->
            IF is_retire(w, i) THEN free(closed, i) ELSE closed

(* What the kernel says to the write of a message that query_sender was     *)
(* waiting for: nothing wrong yet, or that it fails at once; then stop()    *)
(* makes a new connection, with this outcome.                               *)
Writes == {"written"} \cup Outcomes

(* push: a sender that waits for a message goes on with it. *)
push(w, i, q, write) ==
  LET s == w.sess[i]
      pushed == [s EXCEPT !.pending_n = @ + 1, !.send_list = Append(@, q)]
      v == [on_work(w, i) EXCEPT
              !.sess[i] = IF s.sender = "wait" THEN on_send_msg(pushed) ELSE pushed]
  IN IF s.sender = "wait" /\ write \in Outcomes THEN stop(v, i, write) ELSE v

(* send_query on a session that is not retired.  A proxied session without  *)
(* a connection refuses the query and, outside the backoff, starts one.     *)
(* After a push whose write and new connection have both failed the session *)
(* connects once more, with nothing to send.                                *)
send_query(w, i, q, write, outcome) ==
  LET s == w.sess[i]
      queued == [push(w, i, q, write) EXCEPT !.sess[i].query_time = w.now,
                                             !.sess[i].query_count = @ + 1]
  IN CASE Proxied[s.up] /\ ~proxy_can_try(w) -> w
       [] Proxied[s.up] /\ proxy_can_try(w) /\ s.sender = "none" -> start(w, i, outcome)
       [] (Proxied[s.up] => proxy_can_try(w) /\ s.sender # "none") ->
            IF s.pending_n >= PendingMax THEN w
            ELSE IF queued.sess[i].sender = "none" THEN start(queued, i, outcome)
            ELSE queued

-----------------------------------------------------------------------------
(* Upstream.send: with the session of the upstream, or with a new one if    *)
(* there is none or it is retired; the old one is freed, if it is idle,     *)
(* after the new one has sent.  The bound on the clock leaves every query   *)
(* time to reach its deadline.                                              *)
Send(u, q) ==
  LET old == world.cur[u]
      i == Len(world.sess) + 1
      fresh == [world EXCEPT !.sess = Append(@, new(world, u)), !.cur[u] = i]
  IN /\ nsend < MaxSend /\ world.now + Timeout <= MaxTime
     /\ nsend' = nsend + 1
     /\ \E write \in Writes, outcome \in Outcomes :
          \/ /\ old # 0 /\ ~is_retire(world, old)
             /\ world' = send_query(world, old, q, write, outcome)
          \/ /\ old # 0 => is_retire(world, old)
             /\ i <= MaxSess
             /\ LET sent == send_query(fresh, i, q, write, outcome)
                IN world' = IF old # 0 /\ is_idle(world.sess[old])
                            THEN free(sent, old) ELSE sent

(* query_sender, resumed in connect(): connected, and with a proxy greeted  *)
(* and forwarded.                                                           *)
ConnectDone(i) ==
  LET s == world.sess[i]
      w == IF Proxied[s.up] THEN proxy_note_success(world) ELSE world
  IN /\ s.sender = "connect"
     /\ world' = [w EXCEPT !.sess[i] = IF Tls[s.up] THEN [@ EXCEPT !.sender = "tls"]
                                       ELSE NextMessage(@)]
     /\ UNCHANGED nsend

ConnectFails(i) ==
  /\ world.sess[i].sender = "connect"
  /\ \E outcome \in Outcomes :
       world' = stop(IF Proxied[world.sess[i].up] THEN proxy_note_fail(world) ELSE world,
                     i, outcome)
  /\ UNCHANGED nsend

(* The TLS handshake ends, or the sender has written a message. *)
Unblocked(i) ==
  /\ world.sess[i].sender \in {"tls", "write"}
  /\ world' = [world EXCEPT !.sess[i] = NextMessage(@)]
  /\ UNCHANGED nsend

(* The handshake, a write or a read fails, or the upstream closes the       *)
(* connection: one coroutine calls stop, which ends the other.              *)
ConnectionEnds(i) ==
  /\ world.sess[i].sender = "tls" \/ connected(world.sess[i])
  /\ \E outcome \in Outcomes : world' = stop(world, i, outcome)
  /\ UNCHANGED nsend

(* on_recv_msg: the query is done; a session whose last one this was leaves *)
(* the list.                                                                *)
on_recv_msg(w, i, q) ==
  LET got == [w EXCEPT !.sess[i].ack_list = @ \ {q}, !.sess[i].pending_n = @ - 1]
  IN IF q \notin w.sess[i].ack_list THEN w
     ELSE IF is_idle(got.sess[i]) THEN on_idle(got, i) ELSE got

(* reply_receiver gets a message with id q, asked for or not. *)
OnReply(i, q) ==
  LET w == on_recv_msg(world, i, q)
      ends == is_idle(w.sess[i]) /\ is_retire(w, i)
  IN /\ connected(world.sess[i])
     /\ \/ ~ends /\ world' = w
        \/ ends /\ \E outcome \in Outcomes : world' = stop(w, i, outcome)
     /\ UNCHANGED nsend

-----------------------------------------------------------------------------
(* check_timeout walks the list from its head, frees what is overdue and    *)
(* stops at the first session whose deadline is in the future, or behind    *)
(* the last one.  freed[k]: the world after it has freed k sessions.        *)
OverdueAt(w, k) == w.now >= deadline(w.sess[w.list[k]])

StopsAt(w) ==
  CHOOSE k \in 1..(Len(w.list) + 1) :
    /\ \A j \in 1..(k - 1) : OverdueAt(w, j)
    /\ k <= Len(w.list) => ~OverdueAt(w, k)

check_timeout(w) ==
  LET freed[k \in Nat] == IF k = 0 THEN w ELSE free(freed[k - 1], w.list[k])
  IN freed[StopsAt(w) - 1]

LoopTop(d) ==
  /\ world.now + d <= MaxTime
  /\ world' = check_timeout([world EXCEPT !.now = @ + d])
  /\ UNCHANGED nsend

(* The clock is read again between two batches of events. *)
ClockInBatch ==
  /\ world.now < MaxTime
  /\ world' = [world EXCEPT !.now = @ + 1]
  /\ UNCHANGED nsend

-----------------------------------------------------------------------------
Init ==
  /\ nsend = 0
  /\ world = [now |-> 0, sess |-> <<>>, cur |-> [u \in Upstreams |-> 0],
              list |-> <<>>, backoff |-> [until |-> 0, step |-> 0]]

Next ==
  \/ \E u \in Upstreams, q \in Qids : Send(u, q)
  \/ \E i \in Sessions : \/ ConnectDone(i)
                         \/ ConnectFails(i)
                         \/ Unblocked(i)
                         \/ ConnectionEnds(i)
                         \/ \E q \in Qids : OnReply(i, q)
  \/ \E d \in {0, 1} : LoopTop(d)
  \/ ClockInBatch

Spec == Init /\ [][Next]_vars

(* EvLoop.run always comes round to the timeouts. *)
FairSpec == Spec /\ WF_vars(\E d \in {0, 1} : LoopTop(d))

-----------------------------------------------------------------------------
(* Properties *)

Outstanding(s) == ToSet(s.send_list) \cup s.ack_list

Busy(i) == ~is_idle(world.sess[i])

(* pending_n is the number of queries in send_list and ack_list, through    *)
(* duplicated ids, restarts and drops; the timeout list holds exactly the   *)
(* sessions with outstanding queries, once each; each of those has, or is   *)
(* making, a connection; nothing waits for an answer before it was written; *)
(* and a freed session is used by nobody.                                   *)
SessionsAreAccountedFor ==
  /\ ToSet(world.list) = {i \in Sessions : Busy(i)}
  /\ Len(world.list) = Cardinality(ToSet(world.list))
  /\ \A i \in Sessions : LET s == world.sess[i] IN
       /\ s \in Session
       /\ s.pending_n = Len(s.send_list) + Cardinality(s.ack_list)
       /\ s.pending_n <= PendingMax
       /\ Busy(i) => s.sender # "none"
       /\ s.ack_list # {} => connected(s)
       /\ s.send_list # <<>> => s.sender # "wait"
       /\ s.freed => s.sender = "none" /\ ~Busy(i) /\ world.cur[s.up] # i

(* "no more queries will be sent. freed when the queries completes": a      *)
(* session without a proxy that its upstream has left is freed as soon as   *)
(* it waits for nothing, whichever of a reply, the end of the connection    *)
(* and a local error comes last.                                            *)
RetiredTcpSessionIsFreed ==
  \A i \in Sessions :
    LET s == world.sess[i]
    IN ~Proxied[s.up] /\ world.cur[s.up] # i /\ is_idle(s) => s.freed

(* A send whose write and new connection have both failed at once. *)
GivenUp(s, t) == is_idle(t) /\ t.query_count > s.query_count

(* A query that was taken leaves a session that has or makes a connection   *)
(* only by its reply: when the connection ends and stop() makes another,    *)
(* all that was outstanding, written or not, is in the queue again; and a   *)
(* session that is connected has all it had but what the step answers.  The *)
(* one exception: when a write and the new connection stop() makes for it   *)
(* have both failed at once, send_query connects a session that has given   *)
(* everything up.                                                           *)
ReconnectLosesNothing ==
  [][\A i \in Sessions :
       LET s == world.sess[i]
           t == world'.sess[i]
       IN /\ t.sender = "connect" =>
                Outstanding(s) \subseteq ToSet(t.send_list) \/ GivenUp(s, t)
          /\ connected(t) =>
                /\ ToSet(s.send_list) \subseteq Outstanding(t)
                /\ \A q \in Outstanding(s) \ Outstanding(t) : OnReply(i, q)]_vars

(* Once no more queries come (their number is bounded here), every session  *)
(* ends up without outstanding ones, for good, however often connections    *)
(* end and stop() makes them again.                                         *)
EveryTcpSessionIsReleased == <>[](\A i \in Sessions : ~Busy(i))

=============================================================================
