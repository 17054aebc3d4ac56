----------------------------- MODULE MCPrograms -----------------------------
(* The eBPF programs with their maps, and the StringMatcher and IPFilter2      *)
(* elements, for which there are eBPF programs as well. They share no state,   *)
(* so a behaviour is one of one of them: role says which.                      *)
EXTENDS MapReconfiguration, StateMigration, RateLimiter, Nat, PacketPrograms, StringMatcher, IPFilter2, TLC

CONSTANTS v1, v2, v3

VARIABLE role

-----------------------------------------------------------------------------
(* Three versions of a program: v2 adds a map to those of v1, v3 declares  *)
(* one of them with wider values and uses a kind of map that is not        *)
(* supported.                                                              *)
Def(t, ks, vs, n) == [type |-> t, key_size |-> ks, value_size |-> vs, max_entries |-> n]
Sym(n, d) == [name |-> n, def |-> d]

MCSymbols ==
  (v1 :> << Sym("flows", Def("HASH", 8, 4, 2)), RODATA >>) @@
  (v2 :> << RODATA, Sym("flows", Def("HASH", 8, 4, 2)), Sym("count", Def("ARRAY", 4, 4, 1)) >>) @@
  (v3 :> << Sym("count", Def("ARRAY", 4, 8, 1)), Sym("events", Def("PERF", 4, 4, 1)),
            Sym("flows", Def("HASH", 8, 4, 2)) >>)
MCOffset == (v1 :> 0) @@ (v2 :> 1) @@ (v3 :> 0)

-----------------------------------------------------------------------------
(* Sources are told apart by nothing, nor are threads.                     *)
MCSymmetry == Permutations(Sources) \cup Permutations(Threads)

-----------------------------------------------------------------------------
(* Connections of three internal hosts, one of a protocol NAT does not     *)
(* know, and an answer from outside.  Two that go to different hosts have  *)
(* one key.                                                                *)
Conn(si, sp, di, dp, pr) ==
  [src_ip |-> si, src_port |-> sp, dst_ip |-> di, dst_port |-> dp, protocol |-> pr]

MCConnections ==
  {Conn(8, 1, 1, 1, TCP), Conn(8, 1, 2, 1, TCP), Conn(16, 1, 1, 1, UDP), Conn(63, 1, 7, 1, TCP), Conn(8, 1, 9, 1, TCP)}
    \cup {Conn(1, 1, 10, 1, TCP), Conn(8, 1, 1, 1, 3)}

-----------------------------------------------------------------------------
(* Frames cut off at each end of a header, with and without options.       *)
MCFrames ==
  {[len |-> n, type |-> y, ihl |-> h, proto |-> p, dest |-> d, word20 |-> w, udp_len |-> u, names |-> q] :
     n \in {13, 14, 20, 28, 33, 34, 40, 42, 46, 54, 100}, y \in {"Ipv4", "other"}, h \in {4, 5, 6},
     p \in {"tcp", "udp", "other"}, d \in {53, 1000, 12345}, w \in {7}, u \in {11, 12, 46, 50001},
     q \in {<<"other", Blocked>>, <<"malformed">>, <<"other">>}}

-----------------------------------------------------------------------------
Pattern(t, r) == [ptext |-> t, rtext |-> r]

\* Patterns that are prefixes, suffixes and factors of each other, one too long.
MCPatterns == {Pattern(<<0>>, NIL), Pattern(<<0, 1>>, <<2>>), Pattern(<<1, 0>>, <<>>),
               Pattern(<<0, 0, 1>>, <<3, 3>>), Pattern(<<0, 1, 0, 1>>, <<2>>)}
MCTexts == {<<0>>, <<1, 0>>}
MCConfs == {<<>>, <<<<0, 1>>>>, <<<<0, 1>>, <<1, 1>>, <<0, 1>>>>, <<<<1, 0, 1>>, <<0>>>>,
            <<<<0>>, <<>>>>, <<<<0, 1, 0, 1>>, <<1>>>>}
MCPackets == UNION {[1 .. n -> {0, 1}] : n \in 0 .. 4}
MCMatchWord == <<0, 1, 1>>

-----------------------------------------------------------------------------
(* Relations with masks that have gaps and numbers at every power of two;  *)
(* programs of two nodes on packets of every length.                       *)
Comparison(o, n, u, m, f) ==
  [kind |-> "compare", prim |-> [ok |-> TRUE, op |-> o, op_negated |-> n, u |-> u, mask |-> 0], full |-> f, provided |-> m]
MCComparisons ==
  {Comparison(o, n, u, m, 7) : o \in {"EQ", "LT", "GT"}, n \in BOOLEAN, u \in 0 .. 9, m \in 0 .. 8}
    \cup {Comparison(o, n, u, m, 31) : o \in {"EQ", "LT", "GT"}, n \in BOOLEAN,
            u \in {0, 1, 10, 12, 15, 16, 20, 21, 30, 31, 33}, m \in {0, 5, 11, 21, 28}}
Node(off, mask, values, yes, no, short) ==
  [off |-> off, mask |-> mask, values |-> values, yes |-> yes, no |-> no, short |-> short]
MCWordPrograms ==
  {<<Node(a, m, v, 1, -2, s), Node(b, n, <<1, 8>>, -1, 0, ~s)>> :
     a \in {2, offset_net, offset_net + 2}, b \in {offset_transp, offset_transp + 1}, m \in {<<1, 0, 0, 0>>, <<1, 1, 0, 0>>, <<0, 1, 1, 0>>, <<0, 0, 0, 1>>},
     n \in {<<0, 0, 1, 0>>, <<1, 1, 1, 1>>}, v \in {<<3>>, <<0, 1, 3, 8, 9, 15>>}, s \in BOOLEAN}
    \cup {<<Node(-1, <<0, 0, 0, 0>>, << >>, y, 0, FALSE)>> : y \in 0 .. 2}
MCWordPackets ==
  {[network_length |-> l, network_header_length |-> 4,
    bytes |-> [i \in -4 .. 8 |-> <<a, 1, b, c, b, a, 0, c, a, 0, 1, b, 0>>[i + 5]]] :
     l \in 0 .. 9, a, b, c \in 0 .. 1}
MCWordCases ==
  MCComparisons \cup {[kind |-> "match", prog |-> p, pkt |-> k] : p \in MCWordPrograms, k \in MCWordPackets}

-----------------------------------------------------------------------------
(* Packets that differ in one or two of the things filters look at.        *)
IPPacket(proto, offset, more, src, dst, sp, dp, flags, ttl) ==
  [proto |-> proto, offset |-> offset, more |-> more, src |-> src, dst |-> dst, sport |-> sp, dport |-> dp,
   flags |-> flags, ip |-> (8 :> ttl) @@ (13 :> 4), transp |-> (0 :> sp) @@ (8 :> sp) @@ (13 :> flags),
   ether |-> <<1, 2, 3, 4, 5, dst, 1, 2, 3, 4, 5 + (src % 2), 6, 8, 0>>]
MCPacketFields ==
  << IPPacket(6, 0, FALSE, 5, 6, 3, 4, 2, 9), IPPacket(6, 0, FALSE, 6, 5, 4, 3, 3, 4), IPPacket(6, 0, FALSE, 5, 5, 3, 3, 0, 4),
     IPPacket(6, 0, TRUE, 5, 9, 15, 2, 1, 5), IPPacket(6, 1, TRUE, 6, 6, 3, 3, 2, 9), IPPacket(6, 0, FALSE, 9, 9, 4, 4, 2, 3),
     IPPacket(17, 0, FALSE, 5, 6, 3, 4, 2, 4), IPPacket(17, 0, FALSE, 6, 6, 4, 15, 3, 9), IPPacket(17, 1, FALSE, 5, 5, 3, 3, 0, 9),
     IPPacket(17, 0, FALSE, 9, 5, 0, 15, 0, 5), IPPacket(1, 0, FALSE, 5, 6, 3, 4, 2, 9), IPPacket(1, 0, TRUE, 6, 5, 4, 3, 0, 4),
     IPPacket(33, 0, FALSE, 5, 5, 4, 3, 2, 4), IPPacket(1, 1, FALSE, 5, 5, 4, 4, 2, 4), IPPacket(0, 0, FALSE, 6, 9, 9, 9, 2, 0) >>

Entry(type, proto, val) == [type |-> type, proto |-> proto, val |-> val]
MCTypeWords ==
  ("host" :> HOST) @@ ("net" :> NET) @@ ("port" :> PORT) @@ ("proto" :> PROTO) @@ ("opt" :> TCPOPT) @@ ("frag" :> IPFRAG)
    @@ ("unfrag" :> <<"IPUNFRAG">>) @@ ("ttl" :> FIELD(0, 64, 8)) @@ ("type" :> FIELD(1, 0, 8))
MCNameDB ==
  ("tcp" :> {Entry(PROTO, 0, 6)}) @@ ("udp" :> {Entry(PROTO, 0, 17)}) @@ ("icmp" :> {Entry(PROTO, 0, 1)}) @@ ("dccp" :> {Entry(PROTO, 0, 33)})
    @@ ("http" :> {Entry(PORT, 6, 4), Entry(PORT, 17, 4)}) @@ ("exec" :> {Entry(PORT, 6, 3), Entry(PORT, 17, 15)})
    @@ ("syn" :> {Entry(TCPOPT, 6, 2)})
MCInteger ==
  ("0" :> 0) @@ ("1" :> 1) @@ ("2" :> 2) @@ ("3" :> 3) @@ ("4" :> 4) @@ ("6" :> 6) @@ ("9" :> 9) @@ ("300" :> 300)
MCAddress == ("10.5" :> 5) @@ ("10.6" :> 6) @@ ("mask4" :> 252) @@ ("lan" :> 5)
MCPrefix == ("10.4/6" :> <<4, 252>>) @@ ("lan" :> <<5, 252>>)
MCEther == ("1:2:3:4:5:6" :> <<1, 2, 3, 4, 5, 6>>) @@ ("2:2:3:4:7:6" :> <<2, 2, 3, 4, 7, 6>>) @@ ("f:f:f:f:f:0" :> <<255, 255, 255, 255, 255, 0>>)
              @@ ("0:f:f:f:4:f" :> <<0, 255, 255, 255, 4, 255>>)
MCBrackets == ("8" :> <<8, 1>>) @@ ("13" :> <<13, 1>>) @@ ("3:2" :> <<3, 2>>) @@ ("0:0" :> <<0, 0>>)

Test(proto, dir, what, mask, rel, val) ==
  [tok |-> "test", proto |-> proto, dir |-> dir, what |-> what, mask |-> mask, rel |-> rel, val |-> val]
Plain(proto, what, val) == Test(proto, << >>, what, "", "", val)
Sign(w) == [tok |-> w]
Sent(slot, items) == [slot |-> slot, items |-> items]

(* One test of every kind, with what it may and may not be combined with.  *)
MCDirs == {<< >>, <<"src">>, <<"dst">>, <<"src", "and", "dst">>, <<"src", "or", "dst">>}
MCTests ==
  {Test("", d, <<"port">>, m, r, <<v>>) :
     d \in MCDirs, m \in {"", "2"}, r \in {"", "!=", "<", ">", "<=", ">="}, v \in {"0", "3", "300"}}
  \cup {Test(p, << >>, <<"port">>, "", r, <<v>>) : p \in {"", "udp", "icmp", "dccp"}, r \in {"", "<"}, v \in {"3", "http", "exec"}}
  \cup {Plain(p, << >>, <<v>>) : p \in {"", "tcp"}, v \in {"http", "exec", "syn", "10.5", "3"}}
  \cup {Test("", d, w, m, r, v) : d \in MCDirs, w \in {<<"host">>, <<"net">>, << >>}, m \in {"", "mask4"}, r \in {"", "!=", "<"},
                                  v \in {<<"10.5">>, <<"lan">>, <<"10.4/6">>, <<"10.6", "mask", "mask4">>}}
  \cup {Test(p, << >>, w, m, r, <<v>>) : p \in {"ip", "tcp"}, w \in {<<"ttl">>, <<"type">>}, m \in {"", "1", "0", "300"},
                                         r \in {"", "<", ">="}, v \in {"0", "4", "300"}}
  \cup {Test(p, << >>, <<"proto">>, m, r, <<v>>) : p \in {"", "tcp"}, m \in {"", "4"}, r \in {"", "!=", "<", ">="}, v \in {"1", "6", "udp"}}
  \cup {Test(p, << >>, <<"[", w, "]">>, "", r, <<"4">>) : p \in {"ip", "tcp"}, w \in DOMAIN MCBrackets, r \in {"", ">"}}
  \cup {Plain(p, w, << >>) : p \in {"icmp", "tcp"}, w \in {<<"frag">>, <<"unfrag">>, <<"port">>, <<"opt">>, << >>}}
  \cup {Test(p, << >>, <<"opt">>, "", r, <<v>>) : p \in {"", "tcp", "udp"}, r \in {"", "!="}, v \in {"syn", "2"}}
  \cup {Test(p, d, w, m, r, <<v>>) : p \in {"", "ether"}, d \in MCDirs, w \in {<<"host">>, << >>}, m \in {"", "0:f:f:f:4:f"},
                                    r \in {"", "!=", ">"}, v \in {"1:2:3:4:5:6", "2:2:3:4:7:6"}}
  \cup {Test(p, << >>, <<w>>, m, "", <<v>>) : p \in {"ip", "ether"}, w \in {"host", "net", "ttl"}, m \in {"", "f:f:f:f:f:0", "4"},
                                            v \in {"1:2:3:4:5:6", "10.5", "4"}}
  \cup {Plain("", <<w>>, << >>) : w \in {"port", "frag"}}

(* Tests that take over from the one or two before.                        *)
MCLeading ==
  {Test("", <<"src">>, <<"port">>, "", "", <<"3">>), Test("udp", << >>, <<"port">>, "", "<", <<"4">>),
   Test("", <<"dst">>, <<"host">>, "", "", <<"10.6">>), Plain("tcp", << >>, << >>), Plain("", <<"proto">>, <<"6">>),
   Plain("", <<"ttl">>, <<"9">>), Plain("", <<"type">>, <<"3">>), Plain("", <<"frag">>, << >>),
   Test("tcp", <<"src", "and", "dst">>, <<"port">>, "", "", <<"3">>), Test("ether", <<"src">>, << >>, "", "", <<"1:2:3:4:5:6">>)}
MCBare == {Plain("", << >>, <<v>>) : v \in {"3", "http", "exec", "10.5", "10.4/6", "syn", "1:2:3:4:5:6"}}
MCInherited ==
  {<<a, Sign("or"), b>> : a \in MCLeading, b \in MCBare}
    \cup {<<a, Sign("or"), Sign("("), b, Sign("or"), c, Sign(")")>> : a \in MCLeading, b \in MCBare, c \in {Plain("", << >>, <<v>>) : v \in {"3", "10.5"}}}

(* All words up to a length, and operands between operators.  No test      *)
(* follows a protocol, of which it would be the rest.                      *)
Tcp == Plain("tcp", << >>, << >>)
FromThree == Test("", <<"src">>, <<"port">>, "", "", <<"3">>)
MCWords == {Tcp, FromThree} \cup {Sign(w) : w \in {"and", "or", "!", "(", ")", "?", ":", "true"}}
Separated(x) == \A i \in 1 .. Len(x) - 1 : x[i] = Tcp => x[i + 1].tok \notin {"test", "!"}
MCOperands == {<<Tcp>>, <<Sign("!"), FromThree>>, <<Sign("("), FromThree, Sign(")"), Sign("false")>>, << >>}
MCOperators == {<<Sign(w)>> : w \in {"and", "or", "?", ":"}} \cup {<<Sign("!"), Sign("(")>>}
MCExpressions ==
  {x \in UNION {[1 .. n -> MCWords] : n \in 0 .. 3} : Separated(x)}
    \cup {x \in {a \o o \o b \o q \o c : a, b, c \in MCOperands, o, q \in MCOperators} : Separated(x)}
    \cup {<<FromThree>> \o o \o <<Tcp>> \o q \o <<Sign("!"), Tcp>> \o r \o <<FromThree>> \o t \o <<Tcp>> :
            o, q, r, t \in MCOperators}

MCConfigurations ==
  {<<Sent("allow", <<t>>)>> : t \in MCTests} \cup {<<Sent("1", x)>> : x \in MCInherited \cup MCExpressions}
    \cup {<<Sent(s, <<Tcp>>), Sent(t, x), Sent("0", <<FromThree>>)>> :
            s, t \in {"allow", "deny", "1", "2", "tcp", ""}, x \in {<<FromThree>>, <<Sign("any")>>, <<Sign("and")>>, << >>}}
    \cup {<< >>}
MCFilterConfs == <<{<<Sent("deny", <<Tcp>>), Sent("1", <<Sign("all")>>)>>}, MCConfigurations>>

-----------------------------------------------------------------------------
mapVars == vars

MCInit ==
  /\ role \in {"maps", "migration", "rate", "nat", "small", "library", "matcher", "words", "filter"}
  /\ Init /\ MigrationInit /\ NatInit /\ ProgramInit /\ ac_trie_create
  /\ RateInit /\ (role = "rate" \/ clock = 0)
  /\ ElementInit /\ (role = "matcher" \/ noutputs = 1)
  /\ WordInit /\ FilterInit

MCNext ==
  /\ role' = role
  /\ \/ role = "maps" /\ Next
     \/ role # "maps" /\ UNCHANGED mapVars
  /\ \/ role = "migration" /\ MigrationNext
     \/ role # "migration" /\ UNCHANGED migrationVars
  /\ \/ role = "rate" /\ RateNext
     \/ role # "rate" /\ UNCHANGED rateVars
  /\ \/ role = "nat" /\ NatNext
     \/ role # "nat" /\ UNCHANGED natVars
  /\ \/ role = "small" /\ ProgramNext
     \/ role # "small" /\ UNCHANGED programVars
  /\ \/ role = "library" /\ LibraryNext
     \/ role # "library" /\ UNCHANGED libraryVars
  /\ \/ role = "matcher" /\ ElementNext
     \/ role # "matcher" /\ UNCHANGED elementVars
  /\ \/ role = "words" /\ WordNext
     \/ role # "words" /\ UNCHANGED wordVars
  /\ \/ role = "filter" /\ FilterNext
     \/ role # "filter" /\ UNCHANGED filterVars

MCSpec ==
  MCInit /\ [][MCNext]_<<role, mapVars, migrationVars, rateVars, natVars, programVars, libraryVars, elementVars,
                         wordVars, filterVars>>
=============================================================================
