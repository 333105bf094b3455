------------------------------- MODULE DnsWire -------------------------------
(***************************************************************************)
(* The messages as bytes (dns.c): what the parser accepts, and the life of *)
(* a message from there.  A reply is checked and loses its additional      *)
(* records, its addresses are tested and added, its TTLs are bounded when  *)
(* it is cached and brought down while it is served from the cache; a      *)
(* query may be answered with a message made in its place.                 *)
(*                                                                         *)
(* A message is its header and a body of cells.  A cell is a byte of Bits  *)
(* bits, scaled with the limits of labels and pointers that its top bits   *)
(* set; each field of a question or a record is one cell, the TTL a signed *)
(* one, and an address is one cell or two.                                 *)
(***************************************************************************)
EXTENDS Integers, Sequences, FiniteSets, SequencesExt

CONSTANTS
  Bits,         \* bits of a cell (8 in the code, 32 for a TTL)
  WireMax,      \* DNS_NAME_WIRE_MAXLEN
  Dot,          \* the cell that is '.' in text
  BufMin,       \* DNS_EDNS_MINSIZE
  BufMax,       \* DNS_EDNS_MAXSIZE
  NodataTtl,    \* g.cache_nodata_ttl
  TtlBounds,    \* choices for [min, max]: g.cache_min_ttl, g.cache_max_ttl (0: none)
  ChinaIps,     \* addresses for which ipset_test_ip is true
  Ignored,      \* cache_ignore: names without the null label
  LocalAnswer,  \* [cells, n]: records of local_rr
  Messages,     \* messages that may arrive
  MaxElapsed    \* bound: age of a cached message

Cells == 0..(2 ^ Bits - 1)

\* TTLs that are configured
Ttls == 0..(2 ^ (Bits - 1) - 1)

Message ==
  [qr : {0, 1}, tc : BOOLEAN, aa : {0, 1}, ra : {0, 1},
   rcode : {"NOERROR", "NXDOMAIN", "SERVFAIL", "other"},
   qd : Nat, an : Nat, ns : Nat, ar : Nat, body : Seq(Cells)]

ASSUME WireAssumption ==
  /\ Bits \in Nat /\ Bits > 2 /\ Dot \in Cells \ {0}
  /\ WireMax \in Nat /\ BufMin \in Nat /\ BufMax \in Nat
  /\ TtlBounds \subseteq [min : Ttls, max : Ttls] /\ NodataTtl \in Ttls
  /\ MaxElapsed \in Ttls
  /\ Messages \subseteq Message

LabelMax == 2 ^ (Bits - 2) - 1
PtrMin == 3 * 2 ^ (Bits - 2)
A == 1
AAAA == 2
OPT == 3
QuestionLen == 2
RecordLen == 4

VARIABLES
  pc,        \* "received", "reply", "query", "cached", "uncached", "answer", "bad", "dropped"
  m,         \* the message: [qr, tc, aa, ra, rcode, qd, an, ns, ar, body]
  qnamelen,
  ascii,     \* the name as text, if it was decoded
  out,       \* result of the last operation
  far,       \* last cell it touched and length of the body then (history)
  bounds,    \* the bounds that are configured
  entry      \* [ttl, first, elapsed]: the cached message (first: history)

vars == <<pc, m, qnamelen, ascii, out, far, bounds, entry>>

None == <<>>
Bad == <<-1>>

Larger(a, b) == IF a > b THEN a ELSE b

Cell(b, p) == IF p \in DOMAIN b THEN b[p] ELSE 0

Signed(x) == IF x >= 2 ^ (Bits - 1) THEN x - 2 ^ Bits ELSE x

Unsigned(x) == x % 2 ^ Bits

-----------------------------------------------------------------------------
(* Names *)

(* Where k labels from the place p lead: a cell that is no label is not      *)
(* left.  Recursion over k, so that proofs can follow it.                    *)
LabelAt(b, p, k) ==
  LET at[i \in Nat] ==
        IF i = 0 THEN p
        ELSE LET l == at[i - 1]
             IN IF l <= Len(b) /\ b[l] \in 1..LabelMax THEN l + 1 + b[l] ELSE l
  IN at[k]

(* The places where the labels of a name begin, and the one after them.     *)
LabelStarts(q) == {LabelAt(q, 1, k) : k \in 0..Len(q)}

(* A name on the wire as text, or Bad: the name without the first length    *)
(* and the null label, the other lengths overwritten.                       *)
decode_name(q) ==
  LET n == Len(q) - 1
      name == SubSeq(q, 1, n)
  IN IF n = 0 THEN <<Dot>>
     ELSE IF LabelAt(name, 1, n) # n + 1 THEN Bad
     ELSE [i \in 1..(n - 1) |-> IF i + 1 \in LabelStarts(name) THEN Dot ELSE q[i + 1]]

(* A text as name on the wire, None if it is none: a length before the      *)
(* first label and in the place of every dot.                               *)
dns_ascii_to_wire(s) ==
  LET EndOf(p) == CHOOSE e \in p..(Len(s) + 1) :
                    /\ e = Len(s) + 1 \/ s[e] = Dot
                    /\ \A i \in p..(e - 1) : s[i] # Dot
      starts == {1} \cup {i + 1 : i \in {i \in DOMAIN s : s[i] = Dot}}
  IN IF \/ \E p \in starts : EndOf(p) - p \notin 1..LabelMax
        \/ Len(s) + 2 > WireMax
     THEN None
     ELSE [i \in 1..(Len(s) + 2) |-> IF i = Len(s) + 2 THEN 0
                                     ELSE IF i \in starts THEN EndOf(i) - i ELSE s[i - 1]]

(* mutant: a level too few *)
dns_qname_domains_low(q, levels) ==
  LET null == LabelAt(q, 1, Len(q))
      starts == LabelStarts(q) \ {null}
  IN IF null > Len(q) \/ Cell(q, null) # 0 THEN {Bad}
     ELSE {SubSeq(q, p, Len(q) - 1) :
             p \in {p \in starts : Cardinality({i \in starts : i > p}) \in levels}}

(* dns_qname_domains: the suffixes of the name q whose level is of          *)
(* interest, without the null label, or Bad.                                *)
dns_qname_domains(q, levels) ==
  LET null == LabelAt(q, 1, Len(q))
      starts == LabelStarts(q) \ {null}
  IN IF null > Len(q) \/ Cell(q, null) # 0 THEN {Bad}
     ELSE {SubSeq(q, p, Len(q) - 1) :
             p \in {p \in starts : Cardinality({i \in starts : i >= p}) \in levels}}

(* What ends the labels at l: nothing, the null label, a pointer, or a      *)
(* label of illegal length (0).                                             *)
LabelsEndAt(b, l) ==
  IF l > Len(b) THEN l
  ELSE IF b[l] = 0 THEN l + 1
  ELSE IF b[l] >= PtrMin THEN l + 2
  ELSE 0

(* The cell after the name at p. *)
NameEnd(b, p) == LabelsEndAt(b, LabelAt(b, p, Len(b)))

\* a label with a dot in it cannot be told from two labels in a text
NoDotInLabels(q) == \A i \in DOMAIN q : q[i] = Dot => i \in LabelStarts(q)

(* A name gets into cache_ignore by way of dns_ascii_to_wire. *)
ASSUME IgnoredAssumption ==
  \A d \in Ignored : /\ d \in Seq(Cells \ {0}) /\ d # <<>>
                     /\ decode_name(Append(d, 0)) # Bad /\ NoDotInLabels(d)

(* mutant: the record that follows the name may be cut short *)
skip_name_unchecked(b, p) == NameEnd(b, p)

(* ... which a whole record must follow. *)
skip_name(b, p) ==
  LET e == NameEnd(b, p) IN IF e + RecordLen - 1 > Len(b) THEN 0 ELSE e

-----------------------------------------------------------------------------
(* foreach_record.  The walk w is at a cell of b, has come to a stop if one *)
(* of the records says so, and has failed if it is not ok.                  *)

Walk(b, p, ud) ==
  [b |-> b, at |-> p, far |-> 0, ok |-> TRUE, stop |-> FALSE, ud |-> ud]

(* The walk goes past a record, whose name, which ends before r, and data   *)
(* must be there.                                                           *)
PassRecord(w, r) ==
  LET next == r + RecordLen + Cell(w.b, r + 3)
  IN IF r = 0 THEN [w EXCEPT !.ok = FALSE]
     ELSE [w EXCEPT !.far = Larger(@, r + RecordLen - 1), !.ok = next - 1 <= Len(w.b),
                    !.at = IF next - 1 <= Len(w.b) THEN next ELSE @]

Pass(w) == PassRecord(w, skip_name(w.b, w.at))

rtype(w, r) == w.b[r]

Rdata(w, r) == SubSeq(w.b, r + 4, r + 3 + w.b[r + 3])

IsIp(w, r) == rtype(w, r) \in {A, AAAA}

check_ip_datalen(w, r) == w.b[r + 3] = IF rtype(w, r) = A THEN 1 ELSE 2

(* The first address decides. *)
test_ip(w, r) ==
  CASE ~IsIp(w, r) -> w
    [] IsIp(w, r) /\ ~check_ip_datalen(w, r) -> [w EXCEPT !.ok = FALSE]
    [] OTHER -> [w EXCEPT !.stop = TRUE, !.far = w.at - 1,
                          !.ud = IF Rdata(w, r) \in ChinaIps THEN "is_china_ip" ELSE "non_china_ip"]

add_ip(w, r) ==
  CASE ~IsIp(w, r) -> w
    [] IsIp(w, r) /\ ~check_ip_datalen(w, r) -> [w EXCEPT !.ok = FALSE]
    [] OTHER -> [w EXCEPT !.far = w.at - 1, !.ud = Append(@, Rdata(w, r))]

get_bufsz(w, r) ==
  IF rtype(w, r) # OPT THEN w
  ELSE [w EXCEPT !.stop = TRUE, !.ud = IF w.b[r + 1] < BufMin THEN BufMin
                                       ELSE IF w.b[r + 1] > BufMax THEN BufMax ELSE w.b[r + 1]]

(* mutant: the bounds are applied to the result only *)
get_ttl_result(w, r) ==
  LET low == Larger(Signed(w.b[r + 2]), w.ud.min)
  IN IF rtype(w, r) = OPT \/ (~w.ud.nodata /\ low >= w.ud.ttl) THEN w
     ELSE [w EXCEPT !.ud.nodata = FALSE, !.ud.ttl = low]

(* The TTL of a record, put within the bounds; ud has the bounds and the    *)
(* least TTL so far.                                                        *)
Bounded(ttl, min, max) ==
  LET low == IF min > 0 THEN Larger(ttl, min) ELSE ttl
  IN IF max > 0 /\ low > max THEN max ELSE low

get_ttl(w, r) ==
  LET ttl == Bounded(Signed(w.b[r + 2]), w.ud.min, w.ud.max)
      least == IF w.ud.nodata \/ ttl < w.ud.ttl THEN ttl ELSE w.ud.ttl
  IN IF rtype(w, r) = OPT THEN w
     ELSE [w EXCEPT !.b[r + 2] = Unsigned(ttl), !.ud.nodata = FALSE, !.ud.ttl = least]

(* ud is the change, zero or less. *)
update_ttl(w, r) ==
  IF rtype(w, r) = OPT THEN w
  ELSE [w EXCEPT !.b[r + 2] = Larger(Signed(Unsigned(Signed(@) + w.ud)), 1)]

(* f(record, ...), where f is NULL for skip_record. *)
Callback(f, w, r) ==
  CASE f = "skip" -> w
    [] f = "test_ip" -> test_ip(w, r)
    [] f = "add_ip" -> add_ip(w, r)
    [] f = "get_bufsz" -> get_bufsz(w, r)
    [] f = "get_ttl" -> get_ttl(w, r)
    [] f = "update_ttl" -> update_ttl(w, r)

(* The callback is given a record at the place where its name ends. *)
Visit(f, w) ==
  IF ~w.ok \/ w.stop THEN w
  ELSE IF Pass(w).ok THEN Callback(f, Pass(w), skip_name(w.b, w.at))
  ELSE Pass(w)

(* Recursion over the records, so that proofs can follow it. *)
foreach_record(b, p, count, f, ud) ==
  LET walk[i \in Nat] == IF i = 0 THEN Walk(b, p, ud) ELSE Visit(f, walk[i - 1])
  IN walk[count]

-----------------------------------------------------------------------------
(* Messages *)

dns_is_good(h) == ~h.tc /\ h.rcode \in {"NOERROR", "NXDOMAIN"}

FirstRecord(n) == n + QuestionLen + 1

(* memchr finds the end of the queried name: its length, 0 if it has none. *)
QnameLen(b) ==
  IF 0 \in ToSet(b) THEN CHOOSE p \in DOMAIN b : b[p] = 0 /\ \A i \in 1..(p - 1) : b[i] # 0 ELSE 0

Qname(b) == SubSeq(b, 1, QnameLen(b))

check_msg(h, qr, decode) ==
  LET n == QnameLen(h.body)
  IN /\ Len(h.body) >= 1 + QuestionLen
     /\ h.qr = qr /\ h.qd = 1
     /\ n \in 1..WireMax
     /\ decode => decode_name(Qname(h.body)) # Bad
     /\ Len(h.body) - n >= QuestionLen

(* mutant: the records that are cut off are still counted *)
rm_additional_counted(h, at) == [h EXCEPT !.body = SubSeq(@, 1, at - 1)]

rm_additional(h, at) == [h EXCEPT !.ar = 0, !.body = SubSeq(@, 1, at - 1)]

(* dns_empty_reply keeps header and question; n = 0: only the header. *)
dns_empty_reply(h, n) ==
  [h EXCEPT !.qr = 1, !.ra = 1, !.rcode = "NOERROR", !.an = 0, !.ns = 0, !.ar = 0,
            !.body = IF n > 0 THEN SubSeq(@, 1, n + QuestionLen) ELSE <<>>]

dns_servfail_reply(h, n) == [dns_empty_reply(h, n) EXCEPT !.aa = 0, !.rcode = "SERVFAIL"]

dns_truncate(h) == dns_empty_reply([h EXCEPT !.tc = TRUE], QnameLen(h.body))

dns_make_reply(h, n) ==
  LET e == dns_empty_reply(h, n)
  IN [e EXCEPT !.an = LocalAnswer.n, !.aa = 1, !.body = @ \o LocalAnswer.cells]

(* The records of local_rr, one after the other: each begins with a pointer *)
(* to the queried name.                                                     *)
ASSUME LocalAnswerAssumption ==
  LET c == LocalAnswer.cells
      n == LocalAnswer.n
  IN /\ c \in Seq(Cells) /\ n \in Nat
     /\ \E start \in [0..n -> 1..(Len(c) + 1)] :
          /\ start[0] = 1 /\ start[n] = Len(c) + 1
          /\ \A i \in 1..n : LET p == start[i - 1]
                             IN /\ p + 1 + RecordLen <= Len(c) /\ c[p] >= PtrMin
                                /\ start[i] = p + 2 + RecordLen + c[p + 5]

-----------------------------------------------------------------------------
(* Operations *)

Init ==
  /\ pc = "received" /\ m \in Messages /\ bounds \in TtlBounds
  /\ qnamelen = 0 /\ ascii = None /\ out = None
  /\ far = [at |-> 0, len |-> 0]
  /\ entry = None

Touched(w) == far' = [at |-> w.far, len |-> Len(m.body)]

(* dns_check_reply.  Only a verbose log has the name decoded. *)
CheckReply(decode) ==
  LET n == QnameLen(m.body)
      w == foreach_record(m.body, FirstRecord(n), m.an + m.ns, "skip", None)
  IN /\ pc = "received"
     /\ \/ /\ ~check_msg(m, 1, decode)
           /\ pc' = "dropped"
           /\ UNCHANGED <<m, qnamelen, ascii, far>>
        \/ /\ check_msg(m, 1, decode)
           /\ qnamelen' = n
           /\ ascii' = IF decode THEN decode_name(Qname(m.body)) ELSE None
           /\ \/ /\ ~dns_is_good(m)
                 /\ m' = [m EXCEPT !.ra = 1] /\ pc' = "reply"
                 /\ UNCHANGED far
              \/ /\ dns_is_good(m) /\ w.ok
                 /\ m' = [rm_additional(m, w.at) EXCEPT !.ra = 1] /\ pc' = "reply"
                 /\ Touched(w)
              \/ /\ dns_is_good(m) /\ ~w.ok
                 /\ pc' = "dropped" /\ m' = m
                 /\ Touched(w)
     /\ UNCHANGED <<out, bounds, entry>>

(* check_msg clears TC of a query with a good header, also if it refuses    *)
(* the query afterwards for its name.                                       *)
TcCleared(h) ==
  [h EXCEPT !.tc = @ /\ ~(Len(h.body) >= 1 + QuestionLen /\ h.qr = 0 /\ h.qd = 1)]

(* dns_check_query; on a failure send_reply_bad sends the whole message     *)
(* back with the header of an empty reply, and ignores the length that      *)
(* dns_empty_reply returns.                                                 *)
CheckQuery(decode) ==
  /\ pc = "received"
  /\ \/ /\ ~check_msg(m, 0, decode)
        /\ pc' = "bad"
        /\ m' = [dns_empty_reply(TcCleared(m), 0) EXCEPT !.body = m.body]
        /\ UNCHANGED <<qnamelen, ascii>>
     \/ /\ check_msg(m, 0, decode)
        /\ pc' = "query" /\ m' = TcCleared(m)
        /\ qnamelen' = QnameLen(m.body)
        /\ ascii' = IF decode THEN decode_name(Qname(m.body)) ELSE None
  /\ UNCHANGED <<out, far, bounds, entry>>

(* dns_get_bufsz of a query. *)
GetBufsz ==
  LET w1 == foreach_record(m.body, FirstRecord(qnamelen), m.an + m.ns, "skip", None)
      w2 == foreach_record(m.body, w1.at, m.ar, "get_bufsz", BufMin)
  IN /\ pc = "query"
     /\ \/ /\ m.ar = 0 /\ out' = BufMin
           /\ UNCHANGED far
        \/ /\ m.ar > 0 /\ ~w1.ok
           /\ out' = BufMin /\ Touched(w1)
        \/ /\ m.ar > 0 /\ w1.ok
           /\ out' = w2.ud /\ Touched(IF w2.far > w1.far THEN w2 ELSE w1)
     /\ UNCHANGED <<pc, m, qnamelen, ascii, bounds, entry>>

(* dns_test_ip *)
TestIp ==
  LET w == foreach_record(m.body, FirstRecord(qnamelen), m.an, "test_ip", "no_ip_found")
  IN /\ pc = "reply"
     /\ \/ /\ ~dns_is_good(m)
           /\ out' = "other_case"
           /\ UNCHANGED far
        \/ /\ dns_is_good(m)
           /\ out' = IF w.ok THEN w.ud ELSE "other_case"
           /\ Touched(w)
     /\ UNCHANGED <<pc, m, qnamelen, ascii, bounds, entry>>

(* dns_add_ip: the addresses given to ipset_add_ip. *)
AddIp ==
  LET w == foreach_record(m.body, FirstRecord(qnamelen), m.an, "add_ip", <<>>)
  IN /\ pc = "reply" /\ dns_is_good(m)
     /\ out' = w.ud /\ Touched(w)
     /\ UNCHANGED <<pc, m, qnamelen, ascii, bounds, entry>>

(* cache_ignore.is_ignored *)
is_ignored(b) ==
  LET Level(d) == Cardinality(LabelStarts(d) \ {Len(d) + 1})
      domains == dns_qname_domains(Qname(b), {Level(d) : d \in Ignored})
  IN Ignored # {} /\ (domains = {Bad} \/ domains \cap Ignored # {})

(* cache.add up to the point where the message gets its place, dns_get_ttl. *)
CacheAdd ==
  LET w == foreach_record(m.body, FirstRecord(qnamelen), m.an + m.ns + m.ar, "get_ttl",
                          [min |-> bounds.min, max |-> bounds.max,
                           nodata |-> TRUE, ttl |-> NodataTtl])
  IN /\ pc = "reply"
     /\ \/ /\ ~dns_is_good(m) \/ is_ignored(m.body)
           /\ pc' = "uncached"
           /\ UNCHANGED <<m, far, entry>>
        \/ /\ dns_is_good(m) /\ ~is_ignored(m.body)
           /\ m' = [m EXCEPT !.body = w.b]
           /\ Touched(w)
           /\ \/ /\ w.ok /\ w.ud.ttl > 0
                 /\ pc' = "cached"
                 /\ entry' = [ttl |-> w.ud.ttl, first |-> w.b, elapsed |-> 0]
              \/ /\ ~(w.ok /\ w.ud.ttl > 0)
                 /\ pc' = "uncached" /\ entry' = entry
     /\ UNCHANGED <<qnamelen, ascii, out, bounds>>

(* CacheMsg.update_ttl after d seconds, dns_update_ttl. *)
UpdateTtl(d) ==
  LET w == foreach_record(m.body, FirstRecord(qnamelen), m.an + m.ns + m.ar, "update_ttl", -d)
  IN /\ pc = "cached" /\ entry.elapsed + d <= MaxElapsed
     /\ m' = [m EXCEPT !.body = w.b]
     /\ entry' = [entry EXCEPT !.ttl = @ - d, !.elapsed = @ + d]
     /\ Touched(w)
     /\ UNCHANGED <<pc, qnamelen, ascii, out, bounds>>

(* A message made from the question of this one takes its place. *)
Answer ==
  /\ \/ pc \in {"reply", "query"} /\ m' = dns_empty_reply(m, qnamelen)
     \/ pc \in {"reply", "query"} /\ m' = dns_servfail_reply(m, qnamelen)
     \/ pc \in {"reply", "cached", "uncached"} /\ m' = dns_truncate(m)
     \/ pc = "query" /\ m' = dns_make_reply(m, qnamelen)
  /\ pc' = "answer"
  /\ far' = [at |-> qnamelen + QuestionLen, len |-> Len(m.body)]
  /\ UNCHANGED <<qnamelen, ascii, out, bounds, entry>>

Next ==
  \/ \E decode \in BOOLEAN : CheckReply(decode) \/ CheckQuery(decode)
  \/ GetBufsz \/ TestIp \/ AddIp \/ CacheAdd \/ Answer
  \/ \E d \in 1..MaxElapsed : UpdateTtl(d)

Spec == Init /\ [][Next]_vars

-----------------------------------------------------------------------------
(* Properties *)

(* No operation reads or writes behind the end of the message, whatever     *)
(* its bytes are: lengths are checked before every record header and data.  *)
ParserStaysInside == far.at <= far.len

Whole(h) ==
  LET w == foreach_record(h.body, FirstRecord(QnameLen(h.body)), h.an + h.ns + h.ar, "skip", None)
  IN w.ok /\ w.at = Len(h.body) + 1

(* What the server makes of a question it understood, and what it keeps of  *)
(* a good reply, is a message that its own check accepts, with exactly the  *)
(* records its header announces and nothing after them.  (A query that      *)
(* dns_check_query refuses goes back as it came but for its header.)        *)
RepliesAreWellFormed ==
  pc = "answer" \/ (pc \in {"reply", "cached"} /\ dns_is_good(m))
    => check_msg(m, 1, FALSE) /\ Whole(m)

\* the places where the names of the first n records at p end
RecordsOf(b, p, n) ==
  {skip_name(b, foreach_record(b, p, i, "skip", None).at) : i \in 0..(n - 1)}

(* "it should not fail because it has been checked by `get_ttl`": the       *)
(* assertions of dns_update_ttl hold for every cached message, each record  *)
(* shows the TTL it was cached with less the time since then, at least 1,   *)
(* that TTL was within the configured bounds (a maximum below the minimum   *)
(* wins), and the TTL of the entry is the least of them, however the time   *)
(* is split into updates.                                                   *)
CachedTtlsAge ==
  pc = "cached" =>
    LET aged == {r \in RecordsOf(m.body, FirstRecord(qnamelen), m.an + m.ns + m.ar) : m.body[r] # OPT}
        First(r) == Signed(entry.first[r + 2])
    IN /\ Whole(m)
       /\ \A r \in aged : /\ Signed(m.body[r + 2]) = Larger(First(r) - entry.elapsed, 1)
                          /\ First(r) >= bounds.min \/ First(r) = bounds.max
                          /\ bounds.max > 0 => First(r) <= bounds.max
                          /\ First(r) >= 1 /\ First(r) >= entry.ttl + entry.elapsed
       /\ \/ \E r \in aged : First(r) = entry.ttl + entry.elapsed
          \/ aged = {} /\ NodataTtl = entry.ttl + entry.elapsed

HasSuffix(s, t) == Len(t) <= Len(s) /\ SubSeq(s, Len(s) - Len(t) + 1, Len(s)) = t

\* the name of no label on the wire
Root == <<0>>

(* Names survive the way to text and back (the verdict cache writes its     *)
(* names as text and reads them again), the root and labels with a dot in   *)
(* them excepted; and no message is cached under a name that cache_ignore   *)
(* covers: no ignored name is the name or, after a dot, the end of it.      *)
NamesAgree ==
  LET q == Qname(m.body)
      name == decode_name(q)
      Text(d) == decode_name(Append(d, 0))
  IN pc \notin {"received", "bad", "dropped"} /\ q # Root /\ NoDotInLabels(q) =>
       /\ ascii # None => dns_ascii_to_wire(ascii) = q
       /\ pc = "cached" =>
            \A d \in Ignored : name # Bad /\ name # Text(d) /\ ~HasSuffix(name, <<Dot>> \o Text(d))

=============================================================================
