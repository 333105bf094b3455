---------------------------- MODULE CacheContract ----------------------------
(***************************************************************************)
(* What the DNS cache and its db file promise, without LRU order, hash     *)
(* buckets or TTLs: a hit returns the message that was last accepted for   *)
(* the question, and a restart brings back messages that were dumped, with *)
(* their addresses not yet added to the ipset.                             *)
(***************************************************************************)
EXTENDS CacheOps

CONSTANTS Keys, Messages, InitDb

VARIABLES store, db

contractVars == <<store, db>>

Reloaded(S) == [k \in S |-> CacheEntry(db[k], FALSE)]

Hit(k) == k \in DOMAIN store /\ store' = cache_hit(store, k) /\ UNCHANGED db

Miss(k) == store' = cache_miss(store, k) /\ UNCHANGED db

Add(m) == store' \in cache_add(store, m) /\ UNCHANGED db

Dump == /\ \E S \in SUBSET DOMAIN store : db' = [k \in S |-> store[k].msg]
        /\ UNCHANGED store

(* dns_cache_mgr may take entries out of the file. *)
Remove == /\ \E S \in SUBSET DOMAIN db : db' = [k \in S |-> db[k]]
          /\ UNCHANGED store

Restart == /\ \E S \in SUBSET DOMAIN db : store' = Reloaded(S)
           /\ UNCHANGED db

ContractInit == db = InitDb /\ \E S \in SUBSET DOMAIN db : store = Reloaded(S)

ContractNext == \/ \E k \in Keys : Hit(k) \/ Miss(k)
                \/ \E m \in Messages : Add(m)
                \/ Dump
                \/ Remove
                \/ Restart

ContractSpec == ContractInit /\ [][ContractNext]_contractVars

=============================================================================
