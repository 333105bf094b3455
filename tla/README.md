# chinadns-ng in TLA+

chinadns-ng is a DNS forwarder for split routing. A name on the china list goes
to the *china* group of upstreams, a name on the gfw list to the *trust* group,
and any other name (`tag:none`) to both: the china group's answer counts if its
address is in the chnroute set, otherwise the trust group's does. The program is
one thread: an epoll loop (`EvLoop.zig`) that resumes coroutines, whose handlers
(`on_query`, `on_reply`, `check_timeout`) run without suspension.

Paths below are relative to the repository (`src/server.zig` is the query
server). Line numbers of what each definition models are in `PROJECT.json`.

## 1. Inventory

| Component | State | Operations | What is hard |
|---|---|---|---|
| query server, `server.zig` | pending queries by id (`Query.List`), `last_qid` | `on_query`, `on_reply`, `check_timeout`, `send_reply` | two replies race; replies repeat, come late, or never; ids run out and wrap around; one group is unreachable |
| DNS messages, `dns.c` | none | `check_query`, `check_reply`, `test_ip`, `add_ip`, `empty_reply`, `servfail_reply`, `truncate`, `make_reply`, `get_ttl`, `update_ttl`, conversions of names | lengths taken from the message; rewrites in sequence; which message a rewrite is applied to; TTLs at zero and with the sign bit set |
| verdict cache, `verdict_cache.zig` | name -> is it a china domain | `get`, `add`, `load`, `dump` | stale verdicts, eviction |
| DNS cache, `cache.zig`, `CacheMsg.zig` | LRU list and hash map over the same entries, db file | `get`, `add`, `load`, `dump`; `dns_cache_mgr -r` on the file | two structures kept in step; lazy TTLs; a wall clock that is set back; crash during dump |
| UDP sessions, `Upstream.zig` | session per upstream, outstanding ids, list of busy sessions | `send_query`, `reply_receiver`, `proxy_init`, `free`, `check_timeout` | retirement, freeing while a coroutine is suspended, timeouts |
| TCP/TLS sessions, `Upstream.zig` | send queue, unanswered queries, connection | `send_query`, `query_sender`, `reply_receiver`, `start`, `stop` | reconnect and resend, two coroutines per connection |
| proxy, `g.zig`, `socks5.zig` | backoff | `proxy_can_try`, `proxy_note_fail`, `proxy_note_success` | one backoff for all sessions |
| event loop, `EvLoop.zig`, `co.zig`, `RcMsg.zig` | descriptor objects with reference counts, changes to apply | `run`, `Timer`, `read`, `write`, `cancel` | events for descriptors destroyed in the same batch |
| replies over TCP, `server.zig` `TcpSender` | pending writes, 100 ms deadlines | `send`, `on_timeout` | partial writes, cancel |
| names and tags, `dnl.c`, `tag.c`, `local_rr.zig`, `ip6_filter.zig` | pool of names, hash map of two levels, made at the start | `load_list`, `add_list`, `get_tag`, `find_answer`, `filter_*` | precedence of lists; lists that move to the second level; resizing in place |
| ipset/nftset, `ipset.c` | netlink socket, batch buffers | `ipset_test_ip`, `ipset_add_ip`, `ipset_end_add_ip` | answers left in the queue; full batches; sends that fail; interval ends |
| signals, start-up, configuration | | dumps on SIGTERM/SIGINT/SIGUSR1 | |

How they interact: `on_query` reads the DNS cache and the verdict cache, takes
an id and calls `Group.send`, which calls `send_query` of a UDP or TCP session.
A session's `reply_receiver` calls `on_reply`, which tests the addresses against
the kernel's set, writes the verdict cache, the ipset and the DNS cache, answers
the client and deletes the query. At the top of the loop `check_timeout` of the
server and of the sessions delete what is overdue. Signals dump the caches,
which are loaded again at the next start.

The properties that make it correct: a client gets at most one answer, to its
own question, and none is lost except by a timeout or for want of an id; the
verdict decides which group's answer counts, whatever the order of arrival; a
polluted answer is not served, nor cached; nobody waits for what cannot come; a
session is freed once, and only when nobody is suspended in it; list and map of
the cache agree, and its TTLs follow the clock; a TCP session that reconnects
loses no query; a name has the tag of its longest listed suffix; an address that
is to be added reaches the set, and a test is about the address asked for; no
operation on a message leaves its bytes. The hazards list of
`PROJECT.json` has each of them at its line.

## 2. Modules

| Module | Models |
|---|---|
| `DnsMsg` | messages as far as decisions tell them apart: question, rcode, TC, length, sender, kind of the first address |
| `PartialFunctions` | `Put`, `Without` on maps |
| `LinkedLists` | the linked lists of `Node.zig` and what a loop over one keeps, as sequences |
| `VerdictCache` | `add` and eviction, as operators that return the possible results |
| `CacheOps` | the DNS cache as its user sees it |
| `QueryServer` | the query server, composed with `VerdictCache`, `CacheOps` and an ipset |
| `UdpSession` | UDP sessions, the list of busy sessions, `proxy_init`, the proxy backoff |
| `CacheContract` | abstract specification of the DNS cache, made of the operators of `CacheOps` |
| `Cache` | the DNS cache in detail; implements `CacheContract` |
| `TcpSession` | TCP and TLS sessions: queue, unanswered queries, reconnect, retirement |
| `Dnl` | the name lists: loading, the map of two levels, lookup |
| `Ipset` | testing and adding addresses over netlink, the two backends |
| `DnsWire` | `dns.c` on the bytes of a message, from receipt to the cache |
| `MCQueryServer`, `MCUdpSession`, `MCCache`, `MCTcpSession`, `MCDnl`, `MCIpset`, `MCDnsWire` | values of the constants for TLC |
| `QueryServerProofs`, `UdpSessionProofs`, `TcpSessionProofs`, `CacheProofs`, `IpsetProofs`, `DnsWireProofs`, `DnlProofs` | theorems about the module of that name |
| `SequenceLemmas` | facts about sequences, powers of two and remainders that these proofs share |

An operator named `...Lost`, `...Loose`, `..._no_split` and so on, with a comment
that starts with "mutant", is a wrong variant of the definition that follows it.
No specification uses it; it serves to show that a property can fail.

### QueryServer

`query_list` is the map of `Query.List`. Its linked list is the same set in order
of `req`, the number of the client query: entries are only ever appended.
`reqs`, `seen` and `outbox` are history. One action is one handler:

- `OnBadQuery`, `OnQueryLocal`, `OnQueryHit`, `OnQueryMiss`: the four ways
  through `on_query`. The last two end in `Forward` (id, groups, SERVFAIL if
  nobody could be reached). A hit goes on to `Forward` as a background refresh
  when the TTL has fallen to `ttl_r`; TTLs are not part of this module, so the
  refresh may or may not happen. `Cache` has the TTLs.
- `IgnoreReply`, `OnChinaReply`, `OnTrustReply`, `OnFirstReply`: the ways through
  `on_reply`; those that end the query share `EndQuery`. A reply that
  `check_reply` refuses changes nothing and is not among the replies of `Says`.
- `LoopTop`: the clock is read, then `check_timeout`. `ClockInBatch`: the clock is
  read again between two batches of ten events.

The environment: a group in `MayFail` may refuse a query (its upstreams are
behind the proxy); an upstream gives any of the sets of replies in `Says`;
replies stay available in `asked`, so each may arrive never, once or many times,
in any order, also after the query has gone or its id has a new owner.

A late reply of a user tag's upstream that meets a `tag:none` query with its id comes
to an `else => unreachable` (`server.zig:771`). What happens there depends on the build;
the module has no action for it, and no run has replies of a user tag.

Lengths are numbers; only their order against the client's buffer matters. A
message's addresses are one value, the kind of the first one, as in
`dns_test_ip`. `send_reply` to a TCP client is one step here.

### UdpSession

Sessions are numbered and never reused, so a use of a freed one shows as a
property of its record. `SendOn` is `send_query` from its second condition on,
`Send` and `SendNoSocket` are `Upstream.send` with and without success of
`socket()`. `proxy_pending` is never filled by the code and is left out. The
number of repeated packets to trust upstreams is left out: the datagrams have
the same id. `SendOn` starts the receiver with the first query of a session, as the
code does when `query_count` has become 1.

### Cache

`buckets[i]` is the chain of one bucket. `list` holds the entries themselves.
`rttl` stands for the TTL in the records of the message: one record, which is the
one with the least TTL. `Dump(lost)` leaves the last `lost` entries out of the file:
what there is of a dump that did not come to its end. `db` has the records that are
whole; behind them `tail` may have one that ends within its header or within its
message. `Restart` is the end of the process at any moment (a crash, or an exit after
`Dump`) and the load, which takes records from the file (`File`) until `load_ok`, the
check of lengths in `CacheMsg.load`, refuses one. A disk that is full for one
`write` of `dump` and has room again for the next, so that records behind a torn one
are misread, is left out. A dump to
`/tmp` without a configured db file is not loaded again and is left out. The map
that a load builds is a recursive function of the number of entries read.
`Delete(S)` is a run of `dns_cache_mgr -r` on the file, at any moment. `Tick` moves
the wall clock, also backwards.

### TcpSession

All of `struct TCP`, `SessionNode` and the backoff is one record, `world`, which the
operators that model functions take and return: `stop` calls `start` calls the
sender, and their order matters. A session's `sender` says where its coroutine is:
`none`, `connect`, `wait` (for the queue), `write`. A session has two coroutines once
it is connected; what `reply_receiver` does is `OnReply` and `ConnectionEnds`, what
`query_sender` does is `ConnectDone`, `ConnectFails` and `Unblocked`. While a write is
suspended (`in_sender`) the end of the connection is put off by `stopping`. A write
that needs no waiting is a wait that ends at once. The write that `push` starts in a
waiting sender may also fail on the spot (`Writes`): then `stop` runs inside
`send_query`, and if the connection it makes fails too, `send_query` connects a second
time with nothing to send (`GivenUp`). Bytes of TLS and socks5 are left
out: a connection succeeds or fails. Sessions are numbered and never reused. The
reference counts of messages are left out.

Two things the model shows and no property speaks of: a retired session of a
proxied upstream that drops its queries in the backoff (`Upstream.zig:916`) is left
without being freed, and freeing a session while it connects to the proxy counts as
a failure of the proxy, so the others back off.

### Dnl

A name is the sequence of its labels; labels are only compared, and told to be
empty, a comment or too long. `LoadName` is one word of a file, `EndLoad` the sizing
of the first level, `AddNext` one call of `add_to_dnl` from the loop of `add_list`,
`NextList` the next turn of the loop of `dnl_init` over the tags.
Addresses are positions in the pool, a name or a bucket taking one unit; alignment
is left out. Words longer than the buffer of `fscanf` (which splits them) are left
out.

### Ipset

The state is that of the process: contexts with the batch of each family, the
receive queue of the one socket. The kernel is external: it answers each request
before `sendmsg` returns, as the comment in `init` says, with the answers the code
expects (`res` of a test; errors; with nftset one transaction for both families and
an answer of its own for each message). Message lengths are computed as the code
computes them, in words of four bytes, so that `BuffersSuffice` is about the real
sizes of buffers with the real maxima of names; `IP_N` and the bytes of addresses are
scaled (`Bytes` has the lengths of addresses). `Outcome` is one way through
`ipset_end_add_ip`, chosen by how many of the requests and of the messages are sent.
Any send may fail in the middle (`faulty` marks the operation). Left out: a
full set, an overrun of the receive buffer, and the address of all ones
(255.255.255.255), whose interval end wraps to 0; `EnvironmentAssumption` says so.

### DnsWire

A message goes through what the server does with it: `CheckReply`/`CheckQuery`,
`GetBufsz`, `TestIp`, `AddIp`, `CacheAdd`, `UpdateTtl`, `Answer`. The walk over
records is one operator, `foreach_record`, that takes the name of the callback and
recurses over the number of records (`Visit` is one turn of the loop), and records the
last cell it touched. Names are walked label by label (`LabelAt`). A message that
arrives may be taken for a query or for a reply: `check_msg` looks at its QR bit.
A cell stands for a byte of `Bits`
bits; the limits that the top bits of a byte set (labels, pointers) and the sign of
the TTL are scaled with it. Types, classes and lengths take one cell each, an address
one or two. The header is a record. A query that its check refuses goes back as it came
but for its header (`send_reply_bad`), and `RepliesAreWellFormed` leaves it out: its
counts are the client's.

What it shows of limits: the root name and labels that contain a dot do not come
back from their text form (`NamesAgree` excepts them), a TTL of 2^31 or more
reads as negative, so the reply is not cached unless `min-ttl` raises it, and if
`max-ttl` is below `min-ttl` the maximum wins.

## 3. Runs

| Run | Question | Result |
|---|---|---|
| `race` | two queries, all orders of china and trust replies, repeated and truncated ones, trust unreachable at times, an answer from the db file | holds |
| `flood` | more queries than ids, more names than verdicts; liveness | holds |
| `udp` | sessions of a direct and of a proxied upstream | holds |
| `cache` | cache of two for three questions, crash and restart, a clock that is set back | holds |
| `tcp` | sessions of a direct and of a proxied TLS upstream; liveness | holds |
| `dnl` | all ways to fill the lists of four tags with four names | holds |
| `ipset` | both backends, all orders of additions and tests, failing sends | holds |
| `wire` | whole, cut and overlong messages with up to two records | holds |
| `aaaa_filter` | the AAAA filter of one kind of address | violated |
| `china_unsent` | the china group unreachable | violated |
| `udp_leak` | retired sessions are freed | violated |
| `udp_free` | `free` is called when nobody is suspended in the session | violated |

Bounds, and why they are enough. `race`: two queries are enough for every
property, which relates one query's replies with each other or with an earlier
query's effect on a cache; there are ids enough, so that they do not wrap.
`flood`: two ids for three queries, so that `Qid` wraps, a taken id is skipped
and refused (`QidTries` = 1; the code has ten), and a late reply meets the next
owner of its id. The clock ends one unit after the last deadline of a query that
`Arrives` admits. `udp`: three sessions cover old, current and next; two ids
cover busy, half answered and idle. `cache`: two places and three questions give
eviction; two first buckets (the code has 16) give a resize at the second entry
and collisions before and after it; the clock jumps by three, forwards and back:
past the TTL of 1 plus the stale time of 1, to the stale time of the TTL of 3, and
leaving the TTL of 4 fresh but due for a refresh. One value of the clock beyond the
first is enough, since bringing an entry up to date a second time is the same step
from a state of the same kind; three values with setbacks exceed a million states.

`tcp`: three sessions (old, current, next) and two ids, sent three times, so that
an id is sent again while it waits; `PendingMax` 2 is reached; both upstreams retire
by age, the proxied one also by count; three units of time hold a timeout and a
backoff. `dnl`: one name per list of the first level (the code has four) and a
second level of two buckets make four names enough for a hand-over and two
resizes; the hash values collide in the first level and separate in the second by
one to three bits; names are cut at two labels (the code has eight). `ipset`: `IP_N` 2
(the code has 10) is passed by an answer of three addresses of a family, with
the other family in between; four values of a byte and addresses of two and three
bytes carry over one and two bytes; the sets exist or not, hold an address alone or
in a larger interval; names are at their greatest lengths. `wire`: four bits of a
cell leave labels of up to three cells, pointers from 12 and TTLs from -8 to 7;
the records include both kinds of addresses, a wrong data length, an OPT in any
section, an illegal label and data that ends too late; every body is also tried
with its last cell missing and with one more. The dot is the cell 3, which is also
the length of a label, as '.' (46) is in the code; the bounds of TTLs are a maximum
alone, a minimum alone, and a maximum below the minimum.

Fairness: `LoopTop` is weakly fair. The loop comes back to its top after each
batch of events, handlers do not suspend, and `epoll_wait` sleeps no longer than
the first deadline (`Timer.get_timeout`). Replies, clients and the proxy have no
fairness: they may never act. `tcp` assumes the same of its `LoopTop`; there too,
connections, replies and the proxy owe nothing, so that every session is released
by the timeouts alone.

Deadlock is checked where the system runs on: `LoopTop(0)` is always possible in
the event-loop modules, and `Restart` in `Cache`. It is not checked in `dnl` (start-up
comes to its end), `ipset` (a malformed name ends the process) and `wire` (a message
that was answered or dropped is done with).

What the violated runs show:

1. `aaaa_filter` (`server.zig:782`): with `--no-ipv6 tag:none@ip:non_china`, a
   trust reply that waited for the verdict is filtered by the address of the
   rejected china reply; the same reply coming second is filtered by its own.
2. `china_unsent` (`server.zig:560`, `763`): `trust_failed` exists, its
   counterpart for the china group does not. With the china group behind the
   proxy and the proxy down, the trust reply is kept and never sent. The default
   proxy group is gfw, where this cannot happen.
3. `udp_leak` (`Upstream.zig:289`): a session whose `?life` ends while it is idle
   is replaced and not freed; `TCP.send_query` frees it.
4. `udp_free` (`Upstream.zig:297`): if `socket()` fails, a session may be freed
   while `proxy_init` is suspended in it. It takes a proxied upstream with
   `?life` (the default), a proxy that is slow, and no descriptors left.

`udp` checks the same two properties where they hold: without `?life` for the
proxied upstream, and for the retirement by `?count`.

## 4. Proofs

Each theorem is about the specification that the runs check, for every value of
the constants under the named assumptions of its module: types of the
configuration and of the environment, bounds that are natural numbers, sizes and
timeouts that are not 0, a db file whose entries are stored under their own
question, finitely many ids on a TCP session (`IsFiniteSet(Qids)`; they are 16 bits
wide), for `Ipset` no address of all ones, for `DnsWire` ignored names that are names
and local records that are records (both are made by the code that loads them). Where
a theorem needs more, it has a hypothesis of its own, given below.

### QueryServer

- `TypeCorrect`: one step per action; the lemmas say what the rewrites of
  messages, `send_reply`, the cache operators and `verdict_add` return.
- `OneReplyPerQuery`: `AtMostOneReply` is not inductive: a second answer could
  come from a second entry for the same request, or from an entry that outlived
  its answer. `OneAnswerInv` adds that two entries never belong to the same
  request, that an entry of a client's query belongs to a request that has
  arrived and has no answer yet, and that requests to come have none. It holds
  for any number of ids, so also when ids wrap around. `NoQueryVanishes`
  (`NoSilentLoss`) rests on the same invariant.
- `NoOverdueQueryStays`: from `DeadlineOrderInv`: a later request has no earlier
  `req_time`, and none lies in the future.
- `VerdictCacheFits`: `FitsIn` adds that the cache is finite, without which its
  cardinality says nothing. `VerdictsFit` is about steps: the new verdict is in the
  cache afterwards, and at most one of the others has gone.

The other theorems assume `MaxReq < NQid`, so that no id is used twice.
`FreshIdInv` ties ids to requests (a reply that finds a query was made for it).
The assumption is needed: after 65536 queries a late reply can meet a new query
with its id, and `List.get` compares nothing else.

- `OwnQuestion`, `VerdictsHaveEvidence`, `NoPollution`, `TrustWaitsForChina`:
  `AnswerInv` says of every message that was sent, is cached, or waits as
  `trust_msg` that it answers its question and is *clean*: a foreign address from
  the china group for a `tag:none` name comes with evidence (a china reply with a
  china address was seen for that name), and an answer of the trust group comes
  with a rejected china reply. It carries `VerdictFromEvidence` with it, and the
  evidence for the verdict that a pending query has reached.
- `ServedAddressesAreInTheSet`: `RouteInv` says the same of the cache as of the
  answers: a cached message with `added_ip` has its address in the set.
- `NoQueryWaitsInVain`: `WaitInv` says what each pending query waits for, by its
  verdict, `trust_msg` and `trust_failed`: a reply of that group is still to come.
  `OwnerInv` is the converse of `FreshIdInv`, so that the reply is found by its
  id. Hypotheses: only the trust group can be unreachable (`china_unsent` shows
  what happens otherwise) and no upstream stays silent (else the query does wait,
  for its timeout).
- `RaceIsDecidedByTheReplies`: `RaceInv` ties `trust_msg`, `trust_failed` and a
  `non_china` verdict to the replies they came from; `UnfilteredInv` says that what
  `on_query` answers itself is never pending. Hypothesis `FilterIsTotal`: the AAAA
  filter of `tag:none` is the same for both kinds of addresses (`aaaa_filter` shows
  what happens otherwise).

`CacheIsUsedByContract` has no hypothesis: with `cache` for its store and the db file
that was loaded, every step of `QueryServer` is a step of `CacheContract` or leaves the
cache alone. `CacheImplementsContract` below is the other half of the composition.

### UdpSession

`UdpInv` is the type invariant with: the list has each busy session once and
nothing else (`Listed`), in the order of the last query (`Sorted`); a busy session
has its receiver, as has a live one that has sent anything, and a receiver's session
is alive (`Reading`); an upstream's session
is its own and alive (`Current`); a session whose proxy is not up has sent nothing
(`Unsent`); a session that has sent its share waits or is gone (`SpentIsBusy`). The
last two are what `RetiredByCountIsFreed` needs: freeing happens on the last reply
or timeout, so no session may be spent and idle before it is retired.

`UdpTypeCorrect`, `UdpBusySessionsAreWatched`, `UdpRetiredByCountIsFreed` and
`UdpNoOverdueSession` have no hypothesis. `UdpNoUseAfterFree` assumes that a proxied
upstream has no `?life` or that `socket()` does not fail, the exact negation of what
the run `udp_free` needs for its violation.

### TcpSession

`TcpInv` is about a world, since `stop`, `start` and the sender pass worlds on:
`Sound` (types, upstreams own live sessions, the list has each busy session once),
and for each session `Settled` (`pending_n` counts both lists; a busy session has a
sender; only a connected one has unanswered queries; the sender does not wait
while the queue has queries; a freed one has neither) and `Gone` (left, idle and
direct means freed). Inside a handler `Settled` does not hold, so each method has a
lemma about the weaker state in which it is called, and `Touches` says that it
leaves the other sessions alone. `HasRoom` (the session is its upstream's and has not
sent its share) says that a failing restart inside `push` does not free the session
that `send_query` goes on with. From it: `TcpSessionsAreAccountedFor`,
`TcpRetiredSessionIsFreed`, and the action property `TcpReconnectLosesNothing`:
every step loses nothing (`LosesNothing`) or answers one query (`LosesOnly`).

### Cache

`CacheInv`: `ttl + update_time = expires` in the list and in the db file; keys are
distinct; `nitems` is the length and at most `CacheSize`; `Mapped`, that each listed
key is in the chain where `get` looks, once, and nothing else is; the entry used
last is the head. `FileRecords` and `LoadsWholeRecords` say that what a load takes is a
beginning of `db`, never a part of `tail`. The hard step is the resize, which splits chains in place while
the number of buckets doubles: `HomeSplits` is the arithmetic of the assert in
`try_resize`, and the split is followed chain by chain. From it:
`CacheTypeCorrect`, `CacheMapAgreesWithList`, `CacheTtlTracksClock` (the clock may be
set back), `CacheHitIsFresh`, `CacheLastUsedSurvives`, and
`CacheImplementsContract`: every step of `Cache` is a step of `CacheContract` or a
stutter.

### Ipset

`IpsetInv`: between two operations the receive queue is empty and no batch is
begun; each context has room for a full batch, and a batch ends where `nlmsg_len`
says (`CtxFine`); during an addition each element of the batch is that of an offered
address that is to be added, and what is owed to a set is in the set or in the
batch (`Adding`). The lemmas below it follow the code: names that
are accepted leave room for `IP_N` elements (`NamesFit`), elements do not overlap
and `next_ip` finds what `add_ip` wrote (`PlacesDiffer`, `AppendedKeeps`), a test has
one answer in its place (`TestsAnswered`), the places whose bit is not set are sent
(`KeptPlaces`, `MessagesMade`), and the byte-wise count gives the next number, for
addresses of any length (`EndIsNext`, `NumInjective`), so that an interval holds its
address alone (`CoversItself`). `EndAddIpFlushes` puts them together: whatever is
sent, every answer is read. From it: `IpsetBuffersSuffice`,
`IpsetTestAnswersItsOwnIp`, `IpsetOfferedIpsReachTheSet`,
`IpsetOnlyOfferedIpsAreAdded`.

### DnsWire

The messages of the theorems have any cells, any length and any counts.

- `ParserStaysInsideHolds`: `MsgInv` says that a message which passed its check has its
  question inside its cells. A walk from there stays inside (`WalkInside`): a name ends
  no earlier than it began and `skip_name` leaves room for a record, `Pass` compares the
  data length with what is left, and a callback keeps the walk inside
  (`CallbackInside`), also when it writes a TTL.
- `RepliesAreWellFormedHolds`: a message is whole iff its records form a *chain*, a
  sequence of places of which each leads to the next (`WholeIsChain`). A chain depends
  only on the cells that name ends and data lengths are read from, so it survives
  cutting the additional records off, rewriting TTLs (`RewrittenChain`; a record's TTL
  is never part of another record, `RecApart`) and appending local records
  (`LocalAnswerChain`). `WholeInv` is this for each stage.
- `CachedTtlsAgeHolds`: `AgedInv` relates every record of a cached message to the one
  that was stored: `GetTtlWalk` and `UpdateTtlWalk` say what a walk has done to the
  records passed so far and what it leaves of the others. The arithmetic is that a
  signed TTL survives its unsigned form (`SignedRoundTrip`) and that taking `d` off
  twice, at least 1 each time, is taking off the sum.
- `NamesAgreeHolds`: the places where labels begin are determined by the name
  (`SplitsUnique`), so that the text read back is split where it was put together
  (`RoundTrip`); a text that ends, after a dot, in an ignored name comes from a name
  that has this suffix at a label (`SuffixName`), whose level the search looks for
  (`IgnoredIsFound`). Without the exception for dots in labels it is false.

### Dnl

`DnlInv` has four parts. `PoolInv`: names have at most `MaxLevel` labels, `interest` is
the set of their numbers of labels. `ListsInv`: the names of a tag are next to each
other in the pool, from `addr0`. `LoadInv`: the current tag's list ends the pool.
`TodoInv`, with `KeptInv`, is about the maps: each level is in order (every chain has
names of its own bucket, each once; counts; the load; the second level ends the
pool), names kept in the second level are those of buckets that were handed over, what
is kept was added, and what was added is kept or lost to an equal name of a list with
no lower priority. Storing, resizing and handing over each have a lemma about one
level (`StoredOk`, `ResizedOk`, `HandOverOk`); moving a list name by name is an induction
over it (`MoveListOk`), as the second level may be resized between two of its names.

From it: `NamesAreStoredOnceHolds`, the action property
`StoredNamesKeepTheirTagHolds`, and `LookupIsLongestMatchHolds`, which adds that the
suffixes `get_suffix` offers are the ones in question, no listed suffix being among
those it leaves out (`SuffixesAre`), and that the first list in `OrderedTags` that has a
name is the one of the documented priority (`FirstTag`).

### How induction over data is done

The provers are first-order. Where a proof needs induction over a length it uses
the least counterexample (`Least` and `UpTo` in `SequenceLemmas`), and
functions that recurse over a number are unfolded with `NatInductiveDef`. Therefore
`LinkedLists`, `Cache`, `Ipset`, `DnsWire` and `Dnl` recurse with functions over `Nat`, and
`foreach_record` takes the name of its callback, where the code takes a pointer.
Folds with an operator argument, `SelectSeq` and `SortSeq` remain out of reach.

The proofs corrected the models: two CASE expressions (the winner of a race, the
answer of the kernel to a test) had guards that overlap, which TLC reads in order and
TLA+ does not; `CachedTtlsAge` claimed the configured minimum also for a maximum below
it; and `DnsWire` assumed that the dot is no length of a label, which it can be.

### Only model-checked

Every invariant and action property of a passing run is a theorem. What is left:

- liveness: `EveryQueryLeaves`, `EverySessionIsReleased`, `EveryTcpSessionIsReleased`
  (fairness and ENABLED are beyond the prover);
- the four violated runs, of course: the hypotheses of three theorems above are
  what they violate. `udp_leak` has no theorem.

## 5. Not modelled, and the plan

Not modelled:

- `TcpSender` (`server.zig:883`): partial writes to TCP clients and the 100 ms limit.
  Its outcome is one step of `QueryServer`.
- The event loop's descriptor objects and the reference counts of messages
  (`EvLoop.zig`, `RcMsg.zig`): an event of the models names the session it is for.
- `Group`: the choice of upstreams by `udpi`/`tcpi`; `MayFail` stands for the condition
  under which `Group.send` fails.
- socks5 requests as bytes, the text file of the verdict cache, local records,
  names of tags (`tag.c`).
- Configuration parsing, logging, the wrappers of system calls, and `uthash.h`,
  which is vendored: no state of the program's own, or none after the start.

What could come next: `TcpSender` and the descriptor objects of the event loop as
modules of their own, composed with `QueryServer` and the sessions; and a composition
of `QueryServer` with `Cache` in one specification, which the two theorems about
`CacheContract` prepare.
