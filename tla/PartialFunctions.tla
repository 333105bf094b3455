-------------------------- MODULE PartialFunctions --------------------------
(* A map of the program is a function whose domain is the set of its keys. *)

Put(f, k, v) == [x \in DOMAIN f \cup {k} |-> IF x = k THEN v ELSE f[x]]

Without(f, k) == [x \in DOMAIN f \ {k} |-> f[x]]

=============================================================================
