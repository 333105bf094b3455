------------------------------- MODULE MCIpset -------------------------------
(* Values for the constants of Ipset. *)
EXTENDS Ipset

MCBytes == [f \in {4, 6} |-> IF f = 4 THEN 2 ELSE 3]

\* two bytes of a v4 address, three of a v6 address, four values of a byte
a == <<2, 0>>
b == <<2, 3>>
c == <<3, 1>>
lo == <<1, 2>>
d == <<0, 2, 3>>
e == <<0, 1, 3>>
any == <<0, 0, 0>>

\* in MCKernels a is in the v4 set, b within a larger interval of it
MCAnswers == {<<a, b, c>>, <<b, d, c, c>>, <<d, e, lo, any>>, <<c, a, d, b, e>>}

MCStrLen == [s \in {"s4", "s6", "t", "u", "inet", "", "null", "toolong"} |->
               CASE s = "s4" -> 31 [] s = "s6" -> 2 [] s = "t" -> 255 [] s = "u" -> 255
                 [] s = "inet" -> 4 [] s = "" -> 0 [] s = "null" -> 4 [] OTHER -> 32]

Add(n) == [kind |-> "add", name46 |-> n]
Test(n) == [kind |-> "test", name46 |-> n]
Ipset46 == << <<"s4">>, <<"s6">> >>
Nft46 == << <<"inet", "t", "u">>, <<"inet", "t", "s6", "">> >>

\* both backends, one family only, mixed backends and malformed names
MCConfigs == {<<Add(Ipset46), Test(Ipset46)>>, <<Add(Nft46), Test(Nft46)>>,
              <<Add(<< <<"s4">> >>), Test(<< <<"null">>, <<"s6">> >>)>>,
              <<Add(Nft46), Test(Ipset46)>>, <<Test(<< <<"null">>, <<"null">> >>)>>,
              <<Add(<< <<"s4">>, <<"inet", "t", "u">> >>)>>,
              <<Test(<< <<"toolong">>, <<"s6">> >>)>>}

Set(single, wide) == [single |-> single, wide |-> wide]
Sets4 == {<<"s4">>, <<"inet", "t", "u">>}
Sets6 == {<<"s6">>, <<"inet", "t", "s6">>}
MCKernels == {[s \in S |-> IF s \in Sets4 THEN Set({a}, {b}) ELSE Set({}, {d})] :
                S \in {Sets4 \cup Sets6, Sets4, Sets6}}
==============================================================================
