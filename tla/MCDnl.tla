-------------------------------- MODULE MCDnl --------------------------------
(* Values for the constants of Dnl. *)
EXTENDS Dnl, TLC

\* a.b.com is cut to b.com; two words are refused
MCTokens == {<<"com">>, <<"org">>, <<"b", "com">>, <<"a", "b", "com">>, <<"c", "com">>,
             <<"d", "com">>, <<"#", "com">>, <<"b", "", "com">>}
MCQueryNames == {<<"com">>, <<"b", "com">>, <<"a", "b", "com">>, <<"c", "com">>,
                 <<"d", "com">>, <<"x", "y", "d", "com">>, <<"org">>}

\* all listed names but org share a bucket of the first level, whatever its size
\* up to eight, and are told apart by one to three bits more in the second
MCSuffixes == UNION {{SubSeq(m, i, Len(m)) : i \in DOMAIN m} :
                       m \in MCTokens \cup MCQueryNames}
MCHash == [n \in MCSuffixes |-> CASE n = <<"com">> -> 0
                                 [] n = <<"b", "com">> -> 8
                                 [] n = <<"c", "com">> -> 16
                                 [] n = <<"d", "com">> -> 24
                                 [] OTHER -> 25]
==============================================================================
