------------------------------- MODULE MCCache -------------------------------
(* Values for the constants of Cache. *)
EXTENDS Cache, TLC

CONSTANTS n1, n2, n3

M(name, ip, rcode) ==
  [name |-> name, qtype |-> "A", rcode |-> rcode, tc |-> FALSE, ip |-> ip,
   len |-> 3, by |-> "chn"]

MCKeys == {<<n, "A">> : n \in {n1, n2, n3}}
\* n1 and n2 share a chain of two buckets and part when there are four; n1
\* and n3 share one with four, too
MCHash == (<<n1, "A">> :> 0) @@ (<<n2, "A">> :> 2) @@ (<<n3, "A">> :> 4)
\* n1 is offered again with another address and TTL; one reply is a SERVFAIL
MCMessages == {M(n1, "is_china_ip", "noerror"), M(n1, "non_china_ip", "noerror"),
               M(n2, "is_china_ip", "noerror"), M(n3, "is_china_ip", "noerror"),
               M(n3, "is_china_ip", "servfail")}
\* after a jump of 3 the entry of TTL 1 has expired, that of TTL 3 is stale, those
\* of TTL 4 are fresh and due for a refresh
MCTtl == [m \in MCMessages |->
            IF m.ip = "non_china_ip" \/ m.name = n3 THEN 4
            ELSE IF m.name = n2 THEN 3 ELSE 1]
\* the wall clock may be set back
MCTicks == {3, -3}
\* dns_cache_mgr -r n1
MCRemovals == {{<<n1, "A">>}}
==============================================================================
