---------------------------- MODULE VerdictCache ----------------------------
(***************************************************************************)
(* The verdict cache (verdict_cache.zig) as operators on its map, a        *)
(* partial function from tag:none domain names to BOOLEAN (is it a china   *)
(* domain?).  An operation that frees an entry picks it in hash order,     *)
(* which no caller knows: it returns the set of possible results.          *)
(***************************************************************************)
EXTENDS Integers, FiniteSets, PartialFunctions

CONSTANT VerdictCacheSize

ASSUME VerdictCacheSizeAssumption == VerdictCacheSize \in Nat

(* mutant: the name that was just inserted may be the one that is freed *)
new_key_any_victim(vc, name, is_china) ==
  LET put == Put(vc, name, is_china)
  IN IF Cardinality(DOMAIN put) > VerdictCacheSize
     THEN {Without(put, old) : old \in DOMAIN put} ELSE {put}

(* new_key: getOrPut has inserted the name already; when that is one entry  *)
(* too many, the first of the others is freed.                              *)
new_key(vc, name, is_china) ==
  LET put == Put(vc, name, is_china)
  IN IF Cardinality(DOMAIN put) > VerdictCacheSize
     THEN {Without(put, old) : old \in DOMAIN put \ {name}} ELSE {put}

verdict_add(vc, name, is_china) ==
  IF VerdictCacheSize = 0 THEN {vc}
  ELSE IF name \in DOMAIN vc THEN {Put(vc, name, is_china)}
  ELSE new_key(vc, name, is_china)

=============================================================================
