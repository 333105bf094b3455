-------------------------------- MODULE Ipset --------------------------------
(***************************************************************************)
(* ipset/nftset over netlink (ipset.c, nl.h): contexts for testing and for *)
(* adding addresses, the messages they are batched into, and the socket    *)
(* whose receive queue all operations share.  The kernel answers a request *)
(* before the send call returns (the comment in init), it numbers nothing, *)
(* and what an operation does not read is found by the next one.           *)
(*                                                                         *)
(* Sizes and offsets are in words of four bytes, to which everything in a  *)
(* netlink message is aligned.  A family is 4 or 6.                        *)
(***************************************************************************)
EXTENDS LinkedLists, PartialFunctions

CONSTANTS
  IP_N,      \* addresses of a family in one request (10 in the code)
  Base,      \* values of a byte of an address (256)
  Bytes,     \* bytes of an address of a family (4 and 16)
  Loopback,  \* the first byte of loopback addresses (127)
  Blacklist, \* ipset_blacklist
  Configs,   \* sequences of [kind, name46], the contexts made at start-up
  StrLen,    \* strlen of a part of a name
  Kernels,   \* possible contents of the kernel's sets at the start
  Answers    \* sequences of addresses, the A and AAAA records of a reply

Families == {4, 6}

Addresses == UNION {[1..Bytes[f] -> 0..(Base - 1)] : f \in Families}

ASSUME IpsetAssumption ==
  /\ IP_N \in Nat \ {0} /\ Base \in Nat \ {0} /\ Loopback \in 0..(Base - 1)
  /\ Bytes \in [Families -> Nat \ {0}] /\ Bytes[4] # Bytes[6]
  /\ Blacklist \in BOOLEAN

\* Left out: the address of all ones, whose interval ends at 0.
ASSUME EnvironmentAssumption ==
  /\ \A cs \in Configs : cs \in Seq([kind : {"test", "add"}, name46 : Seq(Seq(STRING))])
  /\ \A k \in Kernels :
       k \in [DOMAIN k -> [single : SUBSET Addresses, wide : SUBSET Addresses]]
  /\ \A ips \in Answers :
       /\ ips \in Seq(Addresses)
       /\ \A ip \in ToSet(ips) : \E i \in DOMAIN ip : ip[i] # Base - 1

VARIABLES
  pc,       \* "start", "idle", "adding" (in dns_add_ip), "exit"
  config,   \* contexts that are still to be made
  backend,  \* "none" before init, then "ipset" or "nftset"
  ctxs,     \* the contexts
  kernel,   \* set name -> [single, wide]: what the kernel's sets hold
  queue,    \* receive queue of the socket
  cur,      \* context of the addition that is going on
  left,     \* addresses that it has still to offer
  answer,   \* the last answer of ipset_test_ip, None after other operations
  offered,  \* addresses offered in this addition (history)
  due,      \* <<set, address>> that must be in the sets (history)
  faulty    \* a send failed during this operation (history)

vars == <<pc, config, backend, ctxs, kernel, queue, cur, left, answer, offered, due, faulty>>

None == <<>>

-----------------------------------------------------------------------------
(* Names.  name46 is split at its first comma, a name at every '@'. *)

BackendOf(name46) ==
  IF \E i \in DOMAIN name46 : Len(name46[i]) > 1 THEN "nftset" ELSE "ipset"

(* The set of family f, None if there is none. *)
NameOf(name46, f) ==
  LET i == IF f = 4 THEN 1 ELSE 2
  IN IF i > Len(name46) \/ name46[i] = <<"null">> THEN None ELSE name46[i]

(* NAME_MAXLEN is 7 + 256 + 256, with the 0 at the end. *)
parse_name46_ok(name46) ==
  /\ \A i \in DOMAIN name46 :
       FoldLeft(LAMBDA n, part : n + StrLen[part], Len(name46[i]) - 1, name46[i]) \in 1..518
  /\ \E f \in Families : NameOf(name46, f) # None

(* family@table@set, with nothing after a last '@'. *)
Fields(name) == IF Last(name) = "" THEN Front(name) ELSE name

parse_name_nftset_ok(name) ==
  /\ Len(Fields(name)) = 3
  /\ name[1] \in {"ip", "ip6", "inet", "arp", "bridge", "netdev"}
  /\ \A i \in {2, 3} : StrLen[name[i]] \in 1..255

get_namelen_ipset_ok(name) == StrLen[name[1]] \in 1..31

NameOk(be, name) ==
  IF be = "ipset" THEN get_namelen_ipset_ok(name) ELSE parse_name_nftset_ok(name)

-----------------------------------------------------------------------------
(* Messages *)

iplen(f) == IF f = 4 THEN 1 ELSE 4

HeaderLen == 5

nla_size(n) == 1 + n

StrWords(s) == (StrLen[s] + 4) \div 4

(* The nlmsg_len without addresses. *)
init_addmsg_ipset(name) ==
  HeaderLen + nla_size(1) + nla_size(StrWords(name[1])) + nla_size(1) + nla_size(0)

init_addmsg_nftset(name) ==
  HeaderLen + nla_size(StrWords(name[2])) + nla_size(StrWords(name[3])) + nla_size(0)

BaseLen(be, name) ==
  IF be = "ipset" THEN init_addmsg_ipset(name) ELSE init_addmsg_nftset(name)

(* What an element takes: add_elem_ipset, or add_elem_nftset twice. *)
elemsz(be, f) == IF be = "ipset" THEN 3 + iplen(f) ELSE 7 + 1 + 2 * iplen(f)

BUFSZ_ADD_IPSET(f) ==
  HeaderLen + nla_size(1) + nla_size(8) + nla_size(1) + nla_size(0)
    + IP_N * (nla_size(0) + nla_size(0) + nla_size(iplen(f)))

BUFSZ_ADD_NFTSET(f) ==
  HeaderLen + nla_size(64) + nla_size(64) + nla_size(0)
    + IP_N * (2 * (nla_size(0) + nla_size(0) + nla_size(iplen(f))) + nla_size(1))

BUFSZ_ADD(be, f) == IF be = "ipset" THEN BUFSZ_ADD_IPSET(f) ELSE BUFSZ_ADD_NFTSET(f)

(* The length of a test message. *)
init_testmsg_ipset(name, f) ==
  HeaderLen + nla_size(1) + nla_size(StrWords(name[1])) + 3 + iplen(f)

init_testmsg_nftset(name, f) ==
  HeaderLen + nla_size(StrWords(name[2])) + nla_size(StrWords(name[3])) + 4 + iplen(f)

TestLen(be, name, f) ==
  IF be = "ipset" THEN init_testmsg_ipset(name, f) ELSE init_testmsg_nftset(name, f)

BUFSZ_TEST_IPSET(f) == HeaderLen + nla_size(1) + nla_size(8) + 2 + nla_size(iplen(f))

BUFSZ_TEST_NFTSET(f) == HeaderLen + nla_size(64) + nla_size(64) + 3 + nla_size(iplen(f))

BUFSZ_TEST(be, f) == IF be = "ipset" THEN BUFSZ_TEST_IPSET(f) ELSE BUFSZ_TEST_NFTSET(f)

Larger(a, b) == IF a > b THEN a ELSE b

IOV_N == Larger(IP_N * 2, 2 + IP_N + 1) * 2

MSG_N == IP_N * 2

NewCtx(be, c) ==
  [kind |-> c.kind,
   name |-> [f \in Families |-> LET n == NameOf(c.name46, f)
                                IN IF n = None THEN None ELSE Fields(n)],
   baselen |-> [f \in Families |-> LET n == NameOf(c.name46, f)
                                   IN IF n = None THEN 0 ELSE BaseLen(be, n)],
   nlmsg_len |-> [f \in Families |-> 0],
   ipcnt |-> [f \in Families |-> 0],
   mem |-> [f \in Families |-> <<>>]]   \* offset -> address written there

(* mutant: the carry is lost *)
EndOfIntervalNoCarry(ip) ==
  [i \in DOMAIN ip |-> IF i = Len(ip) THEN (ip[i] + 1) % Base ELSE ip[i]]

(* The end of the interval [ip, ip + 1): counted up byte by byte, from the  *)
(* last one, until no byte wraps.                                           *)
EndOfInterval(ip) ==
  LET Wraps(i) == \A j \in i..Len(ip) : ip[j] = Base - 1
  IN [i \in DOMAIN ip |-> IF Wraps(i) THEN 0
                          ELSE IF i = Len(ip) \/ Wraps(i + 1) THEN ip[i] + 1
                          ELSE ip[i]]

(* add_ip_ipset, add_ip_nftset: an element at the end of the message. *)
Element(c, f, ip) ==
  LET at == c.nlmsg_len[f] + 3
      start == Put(c.mem[f], at, ip)
  IN [c EXCEPT !.nlmsg_len[f] = @ + elemsz(backend, f),
               !.mem[f] = IF backend = "ipset" THEN start
                          ELSE Put(start, at + iplen(f) + 5, EndOfInterval(ip))]

(* The element of the k-th address, as next_ip and end_add_ip find it. *)
ElementAt(c, f, k) ==
  LET at == c.baselen[f] + (k - 1) * elemsz(backend, f) + 3
  IN [set |-> c.name[f], start |-> c.mem[f][at],
      end |-> IF backend = "ipset" THEN None ELSE c.mem[f][at + iplen(f) + 5]]

ElementsOf(c, f) == [k \in 1..c.ipcnt[f] |-> ElementAt(c, f, k)]

-----------------------------------------------------------------------------
(* The kernel (external).  Its sets are of the interval type with nftset;   *)
(* wide holds the addresses that are part of a larger interval.             *)

InSet(set, ip) == set \in DOMAIN kernel /\ ip \in kernel[set].single \cup kernel[set].wide

(* A test of ipset is answered if it asks for an acknowledgement or fails.  *)
KernelTest(set, ip, ack) ==
  CASE InSet(set, ip) /\ backend = "nftset" -> <<"NEWSETELEM">>
    [] InSet(set, ip) /\ backend # "nftset" -> IF ack THEN <<"OK">> ELSE <<>>
    [] ~InSet(set, ip) /\ set \in DOMAIN kernel /\ backend = "ipset" -> <<"IPSET_ERR_EXIST">>
    [] OTHER -> <<"ENOENT">>

Num(ip) ==
  LET num[k \in Nat] == IF k = 0 THEN 0 ELSE num[k - 1] * Base + ip[k]
  IN num[Len(ip)]

(* The addresses that an element stands for. *)
Covered(e) ==
  IF backend = "ipset" THEN {e.start}
  ELSE {ip \in [1..Len(e.start) -> 0..(Base - 1)] : Num(e.start) <= Num(ip) /\ Num(ip) < Num(e.end)}

SetOf(m) == m[1].set

(* A message fails if its set is missing, with nftset also if it overlaps   *)
(* a larger interval.                                                       *)
Fails(m) ==
  \/ SetOf(m) \notin DOMAIN kernel
  \/ /\ backend = "nftset"
     /\ \E i \in DOMAIN m : Covered(m[i]) \cap kernel[SetOf(m)].wide # {}

(* The messages of an addition and what comes back.  With nftset they are   *)
(* one transaction.                                                         *)
KernelAdd(msgs) ==
  LET errors == {i \in DOMAIN msgs : Fails(msgs[i])}
      done == IF backend = "nftset" /\ errors # {} THEN {} ELSE DOMAIN msgs \ errors
      New(s) == UNION {UNION {Covered(msgs[i][k]) : k \in DOMAIN msgs[i]} :
                         i \in {i \in done : SetOf(msgs[i]) = s}}
  IN [sets |-> [s \in DOMAIN kernel |-> [kernel[s] EXCEPT !.single = @ \cup New(s)]],
      responses |-> [i \in 1..Cardinality(errors) |-> "ADD_ERROR"]]

-----------------------------------------------------------------------------
(* Sending and receiving *)

(* send_req, sendall: all n messages, or fewer (-1: none) if a send fails.  *)
Sent(n) == {n, -1} \cup 1..(n - 1)

(* recv_res: up to n messages; what is left of the queue. *)
Received(q, n) == SubSeq(q, 1, IF n < Len(q) THEN n ELSE Len(q))
Unread(q, n) == SubSeq(q, n + 1, Len(q))

test_res(r) == r = IF backend = "ipset" THEN "OK" ELSE "NEWSETELEM"

(* init_testctx: the requests of an adding context ask for acknowledgements *)
AckOf(kind) == kind = "add"

(* test_ips: the queue and the positions of the addresses that are in the   *)
(* set already, if n of the requests are sent.                              *)
test_ips(requests, n) ==
  LET answers[i \in Nat] ==
        IF i = 0 THEN <<>>
        ELSE answers[i - 1] \o KernelTest(requests[i].set, requests[i].start, AckOf("add"))
      got == Received(queue \o answers[n], n)
  IN IF n < 0 THEN [queue |-> queue, exists |-> {}]
     ELSE [queue |-> Unread(queue \o answers[n], n),
           exists |-> {i \in DOMAIN got : test_res(got[i])}]

(* The places in the batch of family f whose addresses are not in the set.  *)
Kept(c, f, exists) ==
  LET bit == IF f = 4 THEN 0 ELSE c.ipcnt[4]
  IN Within([k \in 1..c.ipcnt[f] |-> k], {k \in 1..c.ipcnt[f] : bit + k \notin exists})

(* end_add_ip_ipset, end_add_ip_nftset: one message for each family that    *)
(* has an address which is not in the set.                                  *)
AddMessages(c, exists) ==
  LET Message(f) == LET ks == Kept(c, f, exists)
                    IN IF ks = <<>> THEN <<>>
                       ELSE << [j \in DOMAIN ks |-> ElementAt(c, f, ks[j])] >>
  IN Message(4) \o Message(6)

(* The context after it: the messages end behind the elements that are left *)
(* and the counters are 0.                                                  *)
EmptyBatch(c, exists) ==
  [c EXCEPT !.nlmsg_len = [f \in Families |->
                             IF c.ipcnt[f] = 0 THEN c.nlmsg_len[f]
                             ELSE c.baselen[f] + Len(Kept(c, f, exists)) * elemsz(backend, f)],
            !.ipcnt = [f \in Families |-> 0]]

(* mutant: as many answers as messages are read *)
AddReadsSent(n) == n

(* "nft send v4 and v6 together, but the res are separate" *)
AddReads(n) == Larger(n, 2)

NMsg(msgs) == IF backend = "nftset" THEN 1 ELSE Len(msgs)

Requests(c) == ElementsOf(c, 4) \o ElementsOf(c, 6)

(* What is sent and read after the tests, if k of the requests and m of the *)
(* messages are sent.                                                       *)
Outcome(c, k, m) ==
  LET tested == test_ips(Requests(c), k)
      msgs == AddMessages(c, tested.exists)
      total == NMsg(msgs)
      sent == IF m < 0 THEN <<>>
              ELSE IF backend = "nftset" THEN msgs ELSE SubSeq(msgs, 1, m)
      res == KernelAdd(sent)
      q == tested.queue \o res.responses
  IN IF msgs = <<>>
     THEN [c |-> EmptyBatch(c, tested.exists), kernel |-> kernel, queue |-> tested.queue,
           faulty |-> k # Len(Requests(c))]
     ELSE [c |-> EmptyBatch(c, tested.exists), kernel |-> res.sets,
           queue |-> IF m < 0 THEN q ELSE Unread(q, AddReads(total)),
           faulty |-> k # Len(Requests(c)) \/ m # total]

(* ipset_end_add_ip on context c: a set of outcomes.                        *)
ipset_end_add_ip(c) ==
  LET Msgs(k) == AddMessages(c, test_ips(Requests(c), k).exists)
  IN IF Requests(c) = <<>>
     THEN {[c |-> c, kernel |-> kernel, queue |-> queue, faulty |-> FALSE]}
     ELSE UNION {{Outcome(c, k, m) : m \in Sent(NMsg(Msgs(k)))} : k \in Sent(Len(Requests(c)))}

-----------------------------------------------------------------------------
(* Operations *)

Init ==
  /\ pc = "start" /\ config \in Configs
  /\ backend = "none" /\ ctxs = <<>>
  /\ kernel \in Kernels
  /\ queue = <<>>
  /\ cur = 0 /\ left = <<>> /\ answer = None
  /\ offered = {} /\ due = {} /\ faulty = FALSE

(* ipset_new_testctx, ipset_new_addctx: the next context, or exit. *)
NewContext ==
  LET c == Head(config)
      be == BackendOf(c.name46)
      ok == /\ backend \in {"none", be}
            /\ parse_name46_ok(c.name46)
            /\ \A f \in Families : NameOf(c.name46, f) # None => NameOk(be, NameOf(c.name46, f))
  IN /\ pc = "start" /\ config # <<>>
     /\ \/ /\ ok
           /\ backend' = be
           /\ ctxs' = Append(ctxs, NewCtx(be, c))
           /\ config' = Tail(config)
           /\ pc' = IF Tail(config) = <<>> THEN "idle" ELSE "start"
        \/ /\ ~ok
           /\ pc' = "exit"
           /\ UNCHANGED <<backend, ctxs, config>>
     /\ UNCHANGED <<kernel, queue, cur, left, answer, offered, due, faulty>>

FamilyOf(ip) == IF Len(ip) = Bytes[4] THEN 4 ELSE 6

(* ipset_test_ip for the address of a reply. *)
TestIp(i, ip) ==
  LET set == ctxs[i].name[FamilyOf(ip)]
      Result(n) ==
        LET all == queue \o KernelTest(set, ip, AckOf("test"))
        IN [res |-> n > 0 /\ (all = <<>> \/ test_res(Head(all))),
            queue |-> IF n > 0 THEN Unread(all, 1) ELSE queue]
      Answered(r) == answer' = [set |-> set, ip |-> ip, res |-> r]
  IN /\ pc = "idle" /\ ctxs[i].kind = "test"
     /\ \/ /\ set = None
           /\ Answered(FALSE)
           /\ faulty' = FALSE
           /\ UNCHANGED queue
        \/ /\ set # None
           /\ \E n \in Sent(1) : /\ Answered(Result(n).res)
                                 /\ queue' = Result(n).queue
                                 /\ faulty' = (n # 1)
     /\ UNCHANGED <<pc, config, backend, ctxs, kernel, cur, left, offered, due>>

(* dns_add_ip begins. *)
BeginAdd(i, ips) ==
  /\ pc = "idle" /\ ctxs[i].kind = "add"
  /\ pc' = "adding" /\ cur' = i /\ left' = ips
  /\ answer' = None /\ offered' = {} /\ faulty' = FALSE
  /\ UNCHANGED <<config, backend, ctxs, kernel, queue, due>>

(* mutant: the unspecified IPv6 address is let through *)
in_blacklist_1(ip) ==
  IF FamilyOf(ip) = 4 THEN ip[1] \in {Loopback, 0}
  ELSE Last(ip) = 1 /\ \A i \in 1..(Len(ip) - 1) : ip[i] = 0

in_blacklist(ip) ==
  IF FamilyOf(ip) = 4 THEN ip[1] \in {Loopback, 0}
  ELSE Last(ip) \in {0, 1} /\ \A i \in 1..(Len(ip) - 1) : ip[i] = 0

(* mutant: one address too many *)
FullLate(c, f) == c.ipcnt[f] > IP_N

Full(c, f) == c.ipcnt[f] >= IP_N

StartOver(c, f) == IF c.ipcnt[f] = 0 THEN [c EXCEPT !.nlmsg_len[f] = c.baselen[f]] ELSE c

Appended(c, f, ip) == [Element(StartOver(c, f), f, ip) EXCEPT !.ipcnt[f] = @ + 1]

(* ipset_add_ip.  A full message is sent first, together with the other     *)
(* family's.                                                                *)
AddIp ==
  LET ip == Head(left)
      f == FamilyOf(ip)
      c == ctxs[cur]
  IN /\ pc = "adding" /\ left # <<>>
     /\ left' = Tail(left)
     /\ offered' = offered \cup {ip}
     /\ \/ /\ c.name[f] = None \/ (Blacklist /\ in_blacklist(ip))
           /\ UNCHANGED <<ctxs, kernel, queue, faulty>>
        \/ /\ c.name[f] # None /\ ~(Blacklist /\ in_blacklist(ip))
           /\ ~Full(c, f)
           /\ ctxs' = [ctxs EXCEPT ![cur] = Appended(c, f, ip)]
           /\ UNCHANGED <<kernel, queue, faulty>>
        \/ /\ c.name[f] # None /\ ~(Blacklist /\ in_blacklist(ip))
           /\ Full(c, f)
           /\ \E o \in ipset_end_add_ip(c) :
                /\ ctxs' = [ctxs EXCEPT ![cur] = Appended(o.c, f, ip)]
                /\ kernel' = o.kernel /\ queue' = o.queue
                /\ faulty' = (faulty \/ o.faulty)
     /\ UNCHANGED <<pc, config, backend, cur, answer, due>>

\* The addresses of this addition that a reader of the sets may count on: no
\* send failed and the set is there, with nftset the other family's as well.
Wanted(c) == {ip \in offered : c.name[FamilyOf(ip)] # None /\ ~(Blacklist /\ in_blacklist(ip))}
Owed(c, failed) ==
  LET missing == {ip \in Wanted(c) : c.name[FamilyOf(ip)] \notin DOMAIN kernel}
  IN IF failed \/ (backend = "nftset" /\ missing # {}) THEN {}
     ELSE {<<c.name[FamilyOf(ip)], ip>> : ip \in Wanted(c) \ missing}

(* dns_add_ip ends. *)
EndAdd ==
  /\ pc = "adding" /\ left = <<>>
  /\ \E o \in ipset_end_add_ip(ctxs[cur]) :
       /\ ctxs' = [ctxs EXCEPT ![cur] = o.c]
       /\ kernel' = o.kernel /\ queue' = o.queue
       /\ due' = due \cup Owed(ctxs[cur], faulty \/ o.faulty)
  /\ pc' = "idle" /\ cur' = 0 /\ offered' = {} /\ faulty' = FALSE
  /\ UNCHANGED <<config, backend, left, answer>>

Next ==
  \/ NewContext
  \/ \E i \in DOMAIN ctxs : \/ \E ips \in Answers : BeginAdd(i, ips)
                            \/ \E ip \in UNION {ToSet(ips) : ips \in Answers} : TestIp(i, ip)
  \/ AddIp
  \/ EndAdd

Spec == Init /\ [][Next]_vars

-----------------------------------------------------------------------------
(* Properties *)

(* The fixed arrays of ipset.c hold every batch: a message with its         *)
(* addresses fits its buffer, for a name of the greatest length too, and    *)
(* the requests of test_ips and the messages of end_add_ip fit s_iov,       *)
(* s_msgv and s_buf_res, whatever mix of addresses ipset_add_ip was given.  *)
BuffersSuffice ==
  \A i \in DOMAIN ctxs :
    LET c == ctxs[i]
        n == c.ipcnt[4] + c.ipcnt[6]
    IN /\ n <= MSG_N /\ AddReads(1) <= MSG_N
       /\ 2 * n <= IOV_N /\ 2 + Cardinality(Families) + n <= IOV_N
       /\ \A f \in Families :
            c.name[f] # None => /\ c.nlmsg_len[f] <= BUFSZ_ADD(backend, f)
                                /\ TestLen(backend, c.name[f], f) <= BUFSZ_TEST(backend, f)

(* The answer of ipset_test_ip is about the address it was asked for and    *)
(* the set as it is: no response of an earlier operation is left in the     *)
(* queue to be taken for it.  A request that cannot be sent is answered     *)
(* with false.                                                              *)
TestAnswersItsOwnIp ==
  answer # None =>
    answer.res = (~faulty /\ answer.set # None /\ InSet(answer.set, answer.ip))

(* An address of a reply that was to be added is in the set: the addresses  *)
(* that test_ips found there already, and only those, are left out of the   *)
(* messages, and no full batch, repeated address or larger interval makes   *)
(* another address get lost.                                                *)
OfferedIpsReachTheSet == \A d \in due : InSet(d[1], d[2])

(* Nothing else gets into the sets: what the kernel adds was in the reply,  *)
(* and with the built-in blacklist it is no loopback and no unspecified     *)
(* address.                                                                 *)
OnlyOfferedIpsAreAdded ==
  [][\A s \in DOMAIN kernel :
       \A ip \in kernel'[s].single \ kernel[s].single :
         /\ ip \in offered \cup offered'
         /\ Blacklist => /\ FamilyOf(ip) = 4 => ip[1] \notin {0, Loopback}
                         /\ FamilyOf(ip) = 6 => Num(ip) > 1]_vars

=============================================================================
