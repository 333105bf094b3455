------------------------------ MODULE MCDnsWire ------------------------------
(* Values for the constants of DnsWire: cells of four bits, so that a label  *)
(* has up to 3 cells, pointers begin at 12 and a TTL is between -8 and 7.    *)
EXTENDS DnsWire

\* the root; names of a label, in one of them the length is the cell of the
\* dot; names of two labels; a label with a dot; a label of illegal length; a
\* label that is longer than the name; a name that is too long
MCQnames == {<<0>>, <<1, 5, 0>>, <<3, 5, 6, 7, 0>>, <<1, 6, 1, 5, 0>>, <<1, 5, 1, 6, 0>>,
             <<2, 5, Dot, 0>>, <<5, 1, 0>>, <<3, 5, 0>>, <<1, 5, 1, 5, 1, 5, 0>>}

\* A and AAAA records, good and with a wrong length; another type with a TTL
\* of -7; OPT in any section; an illegal label; data behind the end
MCRecords == {<<12, 0, A, 1, 3, 1, 7>>, <<1, 5, 12, 0, AAAA, 1, 7, 2, 7, 8>>,
              <<0, A, 1, 2, 2, 7, 7>>, <<12, 0, 5, 1, 9, 0>>, <<0, OPT, 15, 0, 0>>,
              <<7, A, 1, 2, 1, 7>>, <<0, A, 1, 2, 9>>}

Question(q) == q \o <<A, 1>>

MCBodies ==
  LET one == {Question(q) \o r : q \in MCQnames, r \in MCRecords}
      two == {Question(<<1, 6, 0>>) \o r1 \o r2 : r1 \in MCRecords, r2 \in MCRecords}
      whole == {Question(q) : q \in MCQnames} \cup one \cup two \cup {<<1, 5, 1, 5>>}
  IN whole \cup {Front(b) : b \in whole} \cup {Append(b, 12) : b \in whole}

MCMessages ==
  {[qr |-> qr, tc |-> f[1], aa |-> 0, ra |-> 0, rcode |-> f[2], qd |-> 1,
    an |-> n[1], ns |-> n[2], ar |-> n[3], body |-> b] :
     qr \in {0, 1}, f \in {<<FALSE, "NOERROR">>, <<TRUE, "NXDOMAIN">>, <<FALSE, "SERVFAIL">>},
     n \in {x \in (0..2) \X (0..1) \X (0..1) : x[1] + x[2] + x[3] <= 2}, b \in MCBodies}
  \cup {[qr |-> qr, tc |-> TRUE, aa |-> 0, ra |-> 0, rcode |-> "NOERROR", qd |-> qd,
         an |-> 0, ns |-> 0, ar |-> 0, body |-> Question(q)] :
           qr \in {0, 1}, qd \in {0, 2}, q \in MCQnames}

MCTtlBounds == {[min |-> 0, max |-> 5], [min |-> 2, max |-> 0], [min |-> 3, max |-> 2]}
MCIgnored == {<<1, 5>>}
MCChinaIps == {<<7>>}
MCLocalAnswer == [cells |-> <<12, 0, A, 1, 2, 1, 7, 12, 0, A, 1, 2, 1, 8>>, n |-> 2]
==============================================================================
