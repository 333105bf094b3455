------------------------------- MODULE DnsMsg -------------------------------
(***************************************************************************)
(* DNS messages as the rest of chinadns-ng tells them apart (dns.c): the   *)
(* question, the rcode, the TC bit, the length, the group that produced    *)
(* the message and what the first address record of the answer section is  *)
(* with respect to the chnroute set (kernel ipset/nftset, external).       *)
(***************************************************************************)
EXTENDS Integers

IpKinds == {"is_china_ip", "non_china_ip", "no_ip_found", "other_case"}

Rcodes == {"noerror", "nxdomain", "servfail"}

Qtypes == {"A", "AAAA", "other"}

\* dns_msg_minlen: header and question only.  The length is abstracted to one
\* number, the same for every question.
MinLen == 1

is_A_AAAA(qtype) == qtype \in {"A", "AAAA"}

is_tc(m) == m.tc

is_good(m) == ~m.tc /\ m.rcode \in {"noerror", "nxdomain"}

(* dns_test_ip: m.ip is what foreach_record finds when the message is good. *)
test_ip(m) == IF is_good(m) THEN m.ip ELSE "other_case"

(* dns_empty_reply: the records go, the rcode becomes NOERROR, TC stays.    *)
empty_reply(m) ==
  [m EXCEPT !.rcode = "noerror", !.ip = "no_ip_found", !.len = MinLen]

servfail_reply(m) == [empty_reply(m) EXCEPT !.rcode = "servfail"]

(* dns_truncate sets TC and then empties the copy. *)
truncate(m) == empty_reply([m EXCEPT !.tc = TRUE])

question(m) == <<m.name, m.qtype>>

=============================================================================
