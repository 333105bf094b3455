-------------------------------- MODULE Cache --------------------------------
(***************************************************************************)
(* The DNS cache (cache.zig, CacheMsg.zig): an LRU list and a hash map of  *)
(* buckets over the same entries, TTLs that are brought up to date when an *)
(* entry is hit, and the db file that survives the process (dump on        *)
(* SIGTERM/SIGINT/SIGUSR1, load at start).  A crash loses what was not     *)
(* dumped, and a crash during dump leaves a beginning of the file, which   *)
(* may end within a record.                                                *)
(***************************************************************************)
EXTENDS CacheOps, LinkedLists

CONSTANTS
  Keys,       \* questions
  Hash,       \* question -> hash value
  Messages,   \* replies that may be offered to the cache
  Ttl,        \* message -> its TTL after min/max (0: dns.get_ttl finds none)
  Ignored,    \* questions whose name is on the cache-ignore list
  CacheSize,  \* g.cache_size
  Stale,      \* g.cache_stale
  Refresh,    \* g.cache_refresh, in percent
  InitLen,    \* first number of buckets (16 in the code), a power of two
  Ticks,      \* bound: how far the wall clock may jump at a time; it may be
              \* set back
  MaxTime,    \* bound: last value of the wall clock
  Removals,   \* sets of questions whose names have a suffix given to dns_cache_mgr
  MaxLost     \* bound: entries missing at the end of a dump

ASSUME CacheAssumption ==
  /\ Hash \in [Keys -> Nat]
  /\ \A m \in Messages : question(m) \in Keys
  /\ Ttl \in [Messages -> Nat]
  /\ CacheSize \in Nat \ {0} /\ CacheEnabled
  /\ Stale \in Nat /\ Refresh \in Nat
  /\ InitLen \in Nat \ {0} /\ Removals \subseteq SUBSET Keys
  /\ Ticks \subseteq Int /\ MaxTime \in Nat /\ MaxLost \in Nat

VARIABLES
  clock,    \* time(NULL)
  list,     \* _list: the entries, most recently used first
  buckets,  \* map._buckets: sequences of questions, head of the chain first
  nitems,   \* map._nitems
  db,       \* the db file: the records that are whole
  tail,     \* and behind them, if dump was cut short, a part of one: a
            \* sequence of at most one Piece
  last      \* the question hit or added last, in this process (history)

vars == <<clock, list, buckets, nitems, db, tail, last>>

\* rttl is the TTL in the records of the message.  expires, the clock plus
\* the TTL when the reply was accepted, is history.
Entry == [msg : Messages, ttl : Int, ttl_r : Int, update_time : Nat, rttl : Nat \ {0},
          added_ip : BOOLEAN, expires : Nat]

\* a record of the db file that ends within its header, or within its message
Piece == [upto : {"header"}] \cup [upto : {"message"}, entry : Entry]

Key(e) == question(e.msg)

KeysOf(es) == {Key(es[i]) : i \in DOMAIN es}

None == <<>>

-----------------------------------------------------------------------------
(* map.  b is the array of buckets; index i of the code is b[i + 1]. *)

Idx(b, k) == (Hash[k] % Len(b)) + 1

InChain(b, k) == Len(b) > 0 /\ k \in ToSet(b[Idx(b, k)])

(* get moves what it finds to the head of its chain. *)
map_get(b, k) ==
  IF InChain(b, k) THEN [b EXCEPT ![Idx(b, k)] = <<k>> \o Unlist(@, k)] ELSE b

map_del(b, k) ==
  IF InChain(b, k) THEN [b EXCEPT ![Idx(b, k)] = Unlist(@, k)] ELSE b

NewLen(b) == IF 2 * Len(b) > InitLen THEN 2 * Len(b) ELSE InitLen

(* mutant: the chains are not split when the array grows *)
try_resize_no_split(b, n) ==
  IF n < (Len(b) * 75) \div 100 THEN b
  ELSE [i \in 1..NewLen(b) |-> IF i <= Len(b) THEN b[i] ELSE <<>>]

(* What belongs into the second part moves there, each to the head of its   *)
(* new chain.                                                               *)
try_resize(b, n) ==
  IF n < (Len(b) * 75) \div 100 THEN b
  ELSE LET len == NewLen(b)
           AtHome(i) == {k \in Keys : (Hash[k] % len) + 1 = i}
       IN [i \in 1..len |->
             IF i <= Len(b) THEN Within(b[i], AtHome(i))
             ELSE IF Len(b) = 0 THEN <<>>
             ELSE Reverse(Within(b[((i - 1) % Len(b)) + 1], AtHome(i)))]

map_add(b, n, k) ==
  LET r == try_resize(b, n) IN [r EXCEPT ![Idx(r, k)] = <<k>> \o @]

-----------------------------------------------------------------------------
(* CacheMsg *)

Elapsed(e) == IF clock > e.update_time THEN clock - e.update_time ELSE 0

get_ttl(e) == e.ttl - Elapsed(e)

(* mutant: a stale message is sent with the TTL it has left *)
AtLeast1Not(t) == t

AtLeast1(t) == IF t > 1 THEN t ELSE 1

(* mutant: the time of the update is forgotten *)
update_ttl_untimed(e) ==
  [e EXCEPT !.ttl = @ - Elapsed(e), !.rttl = AtLeast1(@ - Elapsed(e))]

update_ttl(e) ==
  IF Elapsed(e) = 0 THEN e
  ELSE [e EXCEPT !.ttl = @ - Elapsed(e), !.rttl = AtLeast1(@ - Elapsed(e)),
                 !.update_time = clock]

NewEntry(m, ttl) ==
  [msg |-> m, ttl |-> ttl, ttl_r |-> (ttl * Refresh) \div 100,
   update_time |-> clock, rttl |-> ttl, added_ip |-> TRUE,
   expires |-> clock + ttl]

(* mutant: the flag is not reset *)
LoadEntryAdded(e) == [e EXCEPT !.added_ip = TRUE]

LoadEntry(e) == [e EXCEPT !.added_ip = FALSE]

(* mutant: stale entries count for ever *)
ttl_ok_forever(ttl) == ttl > 0 \/ Stale > 0

ttl_ok(ttl) == ttl > 0 \/ (Stale > 0 /\ -ttl <= Stale)

-----------------------------------------------------------------------------
(* cache.zig *)

Pos(k) == CHOOSE i \in DOMAIN list : Key(list[i]) = k

Others(k) == RemoveAt(list, Pos(k))

GetHit(k) ==
  /\ InChain(buckets, k)
  /\ ttl_ok(get_ttl(list[Pos(k)]))
  /\ buckets' = map_get(buckets, k)
  /\ list' = <<[update_ttl(list[Pos(k)]) EXCEPT !.added_ip = TRUE]>>
               \o Others(k)
  /\ last' = k
  /\ UNCHANGED <<clock, nitems, db, tail>>

GetExpired(k) ==
  /\ InChain(buckets, k)
  /\ ~ttl_ok(get_ttl(list[Pos(k)]))
  /\ buckets' = map_del(buckets, k)
  /\ list' = Others(k)
  /\ nitems' = nitems - 1
  /\ last' = IF k = last THEN None ELSE last
  /\ UNCHANGED <<clock, db, tail>>

(* mutant: the entry at the wrong end is replaced *)
VictimHead == {Key(list[1])}

(* The entry to replace when the cache is full. *)
Victim == {Key(list[Len(list)])}

SameTtl(e, ttl) == LET d == ttl - get_ttl(e) IN d <= 2 /\ d >= -2

(* add: the questions that leave (the old entry for the question, or the    *)
(* victim), then the new entry at the head of list and chain.               *)
AddEntry(m, ttl) ==
  LET k == question(m)
      old == IF InChain(buckets, k) THEN {k}
             ELSE IF nitems < CacheSize THEN {} ELSE Victim
      rest == IF old = {} THEN list ELSE Others(CHOOSE x \in old : TRUE)
      b == IF old = {} THEN buckets
           ELSE map_del(map_get(buckets, k), CHOOSE x \in old : TRUE)
      n == nitems - Cardinality(old)
  IN /\ is_good(m) /\ k \notin Ignored /\ ttl > 0
     /\ InChain(buckets, k) => ~SameTtl(list[Pos(k)], ttl)
     /\ list' = <<NewEntry(m, ttl)>> \o rest
     /\ buckets' = map_add(b, n, k)
     /\ nitems' = n + 1
     /\ last' = k
     /\ UNCHANGED <<clock, db, tail>>

(* The last return FALSE of add: the map was searched. *)
AddSameTtl(m, ttl) ==
  LET k == question(m)
  IN /\ is_good(m) /\ k \notin Ignored /\ ttl > 0
     /\ InChain(buckets, k) /\ SameTtl(list[Pos(k)], ttl)
     /\ buckets' = map_get(buckets, k)
     /\ UNCHANGED <<clock, list, nitems, db, tail, last>>

DumpList == Within(list, {e \in ToSet(list) : ttl_ok(get_ttl(e))})

(* dump; the last entries are lost when the disk is full or the process     *)
(* dies in the middle, and the first of those may be there up to some byte. *)
Dump(lost) ==
  LET n == Len(DumpList) - lost
  IN /\ lost <= Len(DumpList)
     /\ db' = SubSeq(DumpList, 1, n)
     /\ \/ tail' = <<>>
        \/ /\ lost > 0
           /\ \/ tail' = <<[upto |-> "header"]>>
              \/ tail' = <<[upto |-> "message", entry |-> DumpList[n + 1]]>>
     /\ UNCHANGED <<clock, list, buckets, nitems, last>>

(* dns_cache_mgr -r writes the entries without the suffixes to a new file   *)
(* and puts it in the place of the db file (if it stops in between, nothing *)
(* has changed).  A header that is cut ends the file for it; at a message   *)
(* that is cut it gives up.  The program may be running.                    *)
Delete(S) ==
  /\ tail # <<>> => tail[1].upto = "header"
  /\ db' = Within(db, {e \in ToSet(db) : Key(e) \notin S})
  /\ tail' = <<>>
  /\ UNCHANGED <<clock, list, buckets, nitems, last>>

(* map.add of one entry after the other, to an empty map. *)
MapOf(es) ==
  LET added[n \in Nat] == IF n = 0 THEN <<>>
                          ELSE map_add(added[n - 1], n - 1, Key(es[n]))
  IN added[Len(es)]

(* The records of the file, the last one cut or not. *)
File == [i \in DOMAIN db |-> [upto |-> "end", entry |-> db[i]]] \o tail

(* mutant: the length of the message is not compared with what is left *)
load_ok_header(r) == r.upto # "header"

(* CacheMsg.load: what is left of the file has a whole header and a whole   *)
(* message.                                                                 *)
load_ok(r) == r.upto = "end"

(* How many records load takes: up to the first that CacheMsg.load refuses, *)
(* the end of the file or the size of the cache.                            *)
LoadCount ==
  CHOOSE n \in 0..Len(File) :
    /\ n <= CacheSize /\ \A i \in 1..n : load_ok(File[i])
    /\ n < Len(File) /\ n < CacheSize => ~load_ok(File[n + 1])

LoadList == [i \in 1..LoadCount |-> LoadEntry(File[i].entry)]

(* The process ends, with or without a dump before, and starts again. *)
Restart ==
  /\ list' = LoadList
  /\ buckets' = MapOf(LoadList)
  /\ nitems' = Len(LoadList)
  /\ last' = None
  /\ UNCHANGED <<clock, db, tail>>

Tick(d) ==
  /\ clock + d \in 0..MaxTime
  /\ clock' = clock + d
  /\ UNCHANGED <<list, buckets, nitems, db, tail, last>>

Init ==
  /\ clock = 0
  /\ list = <<>> /\ buckets = <<>> /\ nitems = 0
  /\ db = <<>> /\ tail = <<>>
  /\ last = None

Next ==
  \/ \E k \in Keys : GetHit(k) \/ GetExpired(k)
  \/ \E m \in Messages : AddEntry(m, Ttl[m]) \/ AddSameTtl(m, Ttl[m])
  \/ \E lost \in 0..MaxLost : Dump(lost)
  \/ \E S \in Removals : Delete(S)
  \/ Restart
  \/ \E d \in Ticks : Tick(d)

Spec == Init /\ [][Next]_vars

-----------------------------------------------------------------------------
(* Properties *)

TypeOK ==
  /\ clock \in 0..MaxTime
  /\ list \in Seq(Entry) /\ db \in Seq(Entry)
  /\ tail \in Seq(Piece) /\ Len(tail) <= 1
  /\ buckets \in Seq(Seq(Keys))
  /\ nitems \in Nat
  /\ last \in Keys \cup {None}

(* The hash map and the LRU list hold the same entries, once each, every    *)
(* entry in the chain where get looks for it, through all moves, evictions, *)
(* resizes and reloads; and there are never more than cache_size.           *)
MapAgreesWithList ==
  /\ nitems = Len(list) /\ nitems <= CacheSize
  /\ \A i, j \in DOMAIN list : Key(list[i]) = Key(list[j]) => i = j
  /\ \A k \in KeysOf(list) : InChain(buckets, k)
  /\ \A i \in DOMAIN buckets :
       /\ IsInjective(buckets[i])
       /\ \A k \in ToSet(buckets[i]) : k \in KeysOf(list) /\ i = Idx(buckets, k)

(* However often an entry was hit, dumped and loaded, and wherever the wall *)
(* clock was set in between, its TTL is the one it came with minus the time *)
(* since then.  The one exception: after the clock was set back, an entry   *)
(* that was brought up to date later than now keeps the TTL it had then.    *)
TtlTracksClock ==
  \A i \in DOMAIN list :
    get_ttl(list[i]) = list[i].expires
                         - (IF clock > list[i].update_time THEN clock
                            ELSE list[i].update_time)

(* Nothing older than TTL + cache-stale leaves the cache, and a stale       *)
(* answer is always due for a refresh (ttl <= ttl_r in on_query).           *)
HitIsFreshOrRefreshed ==
  [][\A k \in Keys : GetHit(k) =>
       LET e == list'[1]
       IN /\ clock < e.expires + (IF Stale > 0 THEN Stale + 1 ELSE 0)
          /\ clock >= e.expires => e.ttl <= e.ttl_r]_vars

(* LRU: the entry used last survives the next add of another question. *)
LastUsedSurvives ==
  [][\A m \in Messages :
       /\ AddEntry(m, Ttl[m]) /\ CacheSize > 1
       /\ last \in KeysOf(list)
       => last \in KeysOf(list')]_vars

AsStore(es) ==
  [k \in KeysOf(es) |->
     LET i == CHOOSE i \in DOMAIN es : Key(es[i]) = k
     IN CacheEntry(es[i].msg, es[i].added_ip)]

AsDb(es) == [k \in DOMAIN AsStore(es) |-> AsStore(es)[k].msg]

Contract == INSTANCE CacheContract
              WITH store <- AsStore(list), db <- AsDb(db), InitDb <- AsDb(<<>>)

(* The cache implements its contract: whatever dump left of the file, load  *)
(* brings back only messages that were dumped whole.                        *)
ImplementsContract == Contract!ContractSpec

==============================================================================
