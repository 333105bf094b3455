------------------------------ MODULE CacheOps ------------------------------
(***************************************************************************)
(* What the query server may rely on when it uses the DNS cache: the cache *)
(* as a partial function from questions to [msg, added_ip], and the        *)
(* outcomes of its operations.  CacheContract makes a specification of it, *)
(* and Cache (cache.zig, CacheMsg.zig) is shown to implement that.         *)
(***************************************************************************)
EXTENDS DnsMsg, PartialFunctions

CONSTANT CacheEnabled  \* g.cache_size > 0

CacheEntry(m, added) == [msg |-> m, added_ip |-> added]

(* get finds the message and notes that its addresses are (being) added. *)
cache_hit(c, k) == Put(c, k, CacheEntry(c[k].msg, TRUE))

(* get finds nothing, or an expired message, which it deletes. *)
cache_miss(c, k) == Without(c, k)

(* add may refuse (a bad reply, an ignored name, no TTL, nearly the TTL of  *)
(* the entry it has) and may evict any entry.                               *)
cache_add(c, m) ==
  IF CacheEnabled /\ is_good(m)
  THEN {c} \cup {Put(c, question(m), CacheEntry(m, TRUE))}
           \cup {Put(Without(c, old), question(m), CacheEntry(m, TRUE)) :
                   old \in DOMAIN c}
  ELSE {c}

=============================================================================
