---------------------------- MODULE LinkedLists ----------------------------
(***************************************************************************)
(* The program's linked lists as sequences: the lists of nodes (Node.zig)  *)
(* that hold the sessions that wait for replies and the entries of the     *)
(* cache, and the chains of the cache's hash map.                          *)
(***************************************************************************)
EXTENDS Integers, Sequences, FiniteSets, SequencesExt

(* mutant: the list is not told that the node is gone *)
UnlistNothing(list, i) == list

(* unlink.  A node that is not linked stays so. *)
Unlist(list, i) ==
  IF i \in ToSet(list) THEN RemoveAt(list, CHOOSE k \in DOMAIN list : list[k] = i)
  ELSE list

(* The elements that are in S, in their order: what a loop over the list    *)
(* keeps.  Recursion over the positions, so that proofs can follow it.      *)
Within(list, S) ==
  LET kept[n \in Nat] == IF n = 0 THEN <<>>
                         ELSE IF list[n] \in S THEN Append(kept[n - 1], list[n])
                         ELSE kept[n - 1]
  IN kept[Len(list)]

=============================================================================
