---------------------------- MODULE MCQueryServer ----------------------------
(* Values for the constants of QueryServer. *)
EXTENDS QueryServer, TLC

CONSTANTS none1, none2, chn1

MCNames == {none1, none2, chn1}
MCTagOf == (none1 :> "none") @@ (none2 :> "none") @@ (chn1 :> "chn")

Filters(f) == [t \in Tags |-> IF t = "none" THEN f
                              ELSE [china_ip |-> FALSE, non_china_ip |-> FALSE]]
NoFilter == Filters([china_ip |-> FALSE, non_china_ip |-> FALSE])
NonChinaFilter == Filters([china_ip |-> FALSE, non_china_ip |-> TRUE])

B(rcode, tc, ip, len) == [rcode |-> rcode, tc |-> tc, ip |-> ip, len |-> len]
ChinaIp == B("noerror", FALSE, "is_china_ip", 3)
ForeignIp == B("noerror", FALSE, "non_china_ip", 3)
NoIp == B("noerror", FALSE, "no_ip_found", 2)
Truncated == B("noerror", TRUE, "no_ip_found", 1)
Refused == B("servfail", FALSE, "no_ip_found", 1)

A(name, qtype, from, bufsz) ==
  [name |-> name, qtype |-> qtype, from |-> from, bufsz |-> bufsz]

DbMsg == [name |-> chn1, qtype |-> "A", rcode |-> "noerror", tc |-> FALSE,
          ip |-> "is_china_ip", len |-> 3, by |-> "chn"]
MCDbCache == (<<chn1, "A">> :> DbMsg)
NoDb == [k \in {} |-> DbMsg]

\* race: both kinds of address query on the tag:none name, and a tag:chn name
RaceSays ==
  [chn |-> {{ChinaIp}, {ForeignIp}, {NoIp}, {Truncated}, {ChinaIp, ForeignIp}},
   gfw |-> {{ChinaIp}, {Truncated}},
   tag1 |-> {}]
RaceAsks == {A(none1, "A", "udp", 9), A(none1, "AAAA", "tcp", 9),
             A(chn1, "A", "udp", 9)}

\* flood: more queries than ids, more tag:none names than verdicts
FloodSays == [chn |-> {{ForeignIp}}, gfw |-> {{ForeignIp}}, tag1 |-> {}]
FloodAsks == {A(none1, "A", "udp", 2), A(none2, "A", "tcp", 2),
              A(chn1, "AAAA", "udp", 2)}
FloodLocal == {<<chn1, "AAAA">>}

\* aaaa_filter: one AAAA query and the one-sided filter
FilterAsks == {A(none1, "AAAA", "udp", 9)}
=============================================================================
