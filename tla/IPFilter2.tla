----------------------------- MODULE IPFilter2 ------------------------------
(* The IPFilter2 element (click/unikraft/ipfilter2.cc): configure() parses *)
(* filters written like tcpdump's and compiles them to tests of packets.   *)
(*                                                                         *)
(* The tree of tests that Click's classification library keeps, which is   *)
(* external, is told by the packets it matches.  A type is a tuple: a      *)
(* header field is <<"FIELD", proto, offset, length>> in bits.  The words  *)
(* of a text, which separate_text() cuts out, are given.                   *)
EXTENDS FilterWords

CONSTANTS
  PacketFields,    \* sequence of packets: [proto, offset, more, src, dst, sport, dport, flags, ip, transp, ether]
  FilterConfs,     \* sequence of sets of configurations: those for each call of configure()
  FilterOutputs,   \* noutputs()
  TypeWords,       \* T_IPFILTER_TYPE: function from words to types
  NameDB,          \* the other databases: function from words to sets of [type, proto, val]
  Integer,         \* words that are numbers
  Address, Prefix, \* words that are addresses, or networks <<address, mask>>
  Ether,           \* words that are Ethernet addresses: sequences of 6 bytes
  Brackets,        \* what may stand in brackets: <<position, length>> in bytes
  PORT_BITS        \* 16

VARIABLES
  zprog,           \* the output of each packet, where FilterOutputs means dropped
  filterInForce,   \* the configuration that zprog was made from, or none
  offered,         \* the last configuration given to configure() and whether it was taken
  configured       \* configure() calls so far

FilterPackets == DOMAIN PacketFields
filterVars == <<zprog, filterInForce, offered, configured>>

IP_PROTO_ICMP == 1
IP_PROTO_TCP == 6
IP_PROTO_UDP == 17
IP_PROTO_DCCP == 33
IP_PROTO_TCP_OR_UDP == 257
UNKNOWN == -1000
NONE == << >>
HOST == <<"HOST">>
NET == <<"NET">>
PROTO == <<"PROTO">>
PORT == <<"PORT">>
TCPOPT == <<"TCPOPT">>
IPFRAG == <<"IPFRAG">>
ETHER == <<"ETHER">>
INT == <<"INT">>
IsField(type) == type # NONE /\ type[1] = "FIELD"
FIELD(proto, offset, length) == <<"FIELD", proto, offset, length>>
FIELD_TOS == FIELD(0, 8, 8)

-----------------------------------------------------------------------------
(* struct Primitive; ok is FALSE once an error was reported for it.        *)
Cleared ==
  [ok |-> TRUE, type |-> NONE, data |-> NONE, op |-> "EQ", op_negated |-> FALSE, srcdst |-> "",
   transp_proto |-> UNKNOWN, u |-> 0, mask |-> 0]
refused(prim) == [prim EXCEPT !.ok = FALSE]
set_type(prim, x) == [prim EXCEPT !.ok = @ /\ prim.type = NONE, !.type = x]
set_srcdst(prim, x) == [prim EXCEPT !.ok = @ /\ prim.srcdst = "", !.srcdst = x]
set_transp_proto(prim, x) ==
  [prim EXCEPT !.ok = @ /\ prim.transp_proto \in {UNKNOWN, x}, !.transp_proto = x]

(* The first half of check(): the type of a test that names none, and what *)
(* it takes over from the test before.                                     *)
inherited_srcdst_bug(prim, prev) == prim.srcdst
inherited_srcdst(prim, prev) == IF prim.srcdst = "" THEN prev.srcdst ELSE prim.srcdst

check_type(prim, prev) ==
  LET data == IF prim.data = INT THEN prev.type ELSE prim.data
      p == [prim EXCEPT !.data = data, !.type = data]
  IN  CASE prim.type # NONE -> prim
        [] prim.type = NONE /\ prim.data = INT /\ ~IsField(data) /\ data \notin {PROTO, PORT} -> refused(prim)
        [] prim.type = NONE /\ prim.data # INT /\ data = NONE ->
             IF prim.transp_proto # UNKNOWN THEN [prim EXCEPT !.type = PROTO] ELSE refused(prim)
        [] prim.type = NONE /\ data \in {HOST, NET, TCPOPT, ETHER} -> [p EXCEPT !.srcdst = inherited_srcdst(prim, prev)]
        [] prim.type = NONE /\ data = PROTO -> p
        [] prim.type = NONE /\ data = PORT ->
             [p EXCEPT !.srcdst = inherited_srcdst(prim, prev),
                       !.transp_proto = IF @ = UNKNOWN THEN prev.transp_proto ELSE @]
        [] prim.type = NONE /\ IsField(data) ->
             [p EXCEPT !.transp_proto = IF @ = UNKNOWN /\ data[2] # 0 THEN data[2] ELSE @]

(* The second half: data and type must agree.  mask_dt is the type of a    *)
(* mask that was given, or NONE.                                           *)
check_host(p, mask_dt, mask) ==
  [p EXCEPT !.ok = @ /\ p.data = p.type /\ p.op = "EQ" /\ mask_dt \in {NONE, INT, HOST},
            !.type = HOST,
            !.mask = IF mask_dt # NONE THEN mask ELSE IF p.type = HOST THEN AllOnes ELSE @]

check_ether(p, mask_dt, mask) ==
  [p EXCEPT !.ok = @ /\ p.data = ETHER /\ p.op = "EQ" /\ mask_dt \in {NONE, ETHER},
            !.mask = IF mask_dt = NONE THEN [i \in 1 .. 6 |-> AllOnes] ELSE mask]

check_proto(p, mask_dt, mask) ==
  LET given == p.data \in {INT, PROTO}
      q == [p EXCEPT !.data = NONE, !.u = IF given THEN @ ELSE p.transp_proto, !.transp_proto = UNKNOWN]
      r == IF q.u >= 256 THEN [q EXCEPT !.mask = 255, !.ok = @ /\ p.op = "EQ" /\ mask_dt = NONE]
                         ELSE set_mask(q, 255, mask)
  IN  IF \/ given /\ p.transp_proto \notin {UNKNOWN, p.u}
         \/ ~given /\ (p.data # NONE \/ q.u = UNKNOWN)
         \/ q.u < 256 /\ mask_dt \notin {NONE, INT}
        THEN refused(p)
        ELSE [r EXCEPT !.transp_proto = IF r.op = "EQ" /\ r.mask = 255 /\ ~r.op_negated THEN r.u ELSE UNKNOWN]

PortProtocols == {IP_PROTO_TCP, IP_PROTO_UDP, IP_PROTO_TCP_OR_UDP, IP_PROTO_DCCP}
check_port(p, mask_dt, mask) ==
  IF \/ p.data \notin {INT, PORT} \/ p.transp_proto \notin PortProtocols \cup {UNKNOWN}
     \/ p.transp_proto # UNKNOWN /\ mask_dt \notin {NONE, INT}
    THEN refused(p)
    ELSE set_mask([p EXCEPT !.data = PORT,
                            !.transp_proto = IF @ = UNKNOWN THEN IP_PROTO_TCP_OR_UDP ELSE @], 2^PORT_BITS - 1, mask)

check_tcpopt(p, mask_dt) ==
  [p EXCEPT !.ok = /\ @ /\ p.data \in {INT, TCPOPT} /\ p.transp_proto \in {UNKNOWN, IP_PROTO_TCP}
                   /\ p.op = "EQ" /\ ~p.op_negated /\ mask_dt = NONE /\ p.u <= 255,
            !.data = TCPOPT, !.transp_proto = IP_PROTO_TCP, !.mask = p.u]

check_ect(p, mask_dt, mask) ==
  IF p.data \notin {NONE, INT} \/ (p.data = INT /\ mask_dt \notin {NONE, INT})
    THEN refused(p)
    ELSE [set_mask(IF p.data = NONE THEN [p EXCEPT !.u = 0, !.op_negated = TRUE] ELSE p, 3, mask)
            EXCEPT !.type = FIELD_TOS]

(* ce, frag and unfrag take no value.                                      *)
check_bare(p, mask_dt, q) == [q EXCEPT !.ok = @ /\ p.data = NONE /\ mask_dt = NONE]

check_field(p, mask_dt, mask) ==
  IF p.data \notin {INT, p.type} \/ mask_dt \notin {NONE, INT, p.type}
    THEN refused(p)
    ELSE set_mask(p, 2^p.type[4] - 1, mask)

check_data(p, mask_dt, mask) ==
  CASE p.type \in {HOST, NET} -> check_host(p, mask_dt, mask)
    [] p.type = ETHER -> check_ether(p, mask_dt, mask)
    [] p.type = PROTO -> check_proto(p, mask_dt, mask)
    [] p.type = PORT -> check_port(p, mask_dt, mask)
    [] p.type = TCPOPT -> check_tcpopt(p, mask_dt)
    [] p.type = <<"IPECT">> -> check_ect(p, mask_dt, mask)
    [] p.type = <<"IPCE">> -> check_bare(p, mask_dt, [p EXCEPT !.mask = 3, !.u = 3, !.type = FIELD_TOS])
    [] p.type = IPFRAG -> check_bare(p, mask_dt, [p EXCEPT !.mask = 1])
    [] p.type = <<"IPUNFRAG">> -> check_bare(p, mask_dt, [p EXCEPT !.op_negated = TRUE, !.mask = 1, !.type = IPFRAG])
    [] IsField(p.type) -> check_field(p, mask_dt, mask)

\* header is "i" for the IP header, "e" for the Ethernet header or "" for neither
check(prim, prev, header, mask_dt, mask) ==
  LET typed == check_type(prim, prev)
      ether == header = "e" \/ (header = "" /\ typed.data = ETHER)
      moved == IF ether /\ typed.type = HOST THEN [typed EXCEPT !.type = ETHER] ELSE typed
      done == check_data(moved, mask_dt, mask)
  IN  IF ~prim.ok \/ ~typed.ok \/ ether # (moved.type = ETHER)
        THEN refused(prim)
        ELSE [done EXCEPT !.srcdst = IF done.type \in {HOST, PORT, ETHER} /\ @ = "" THEN "OR" ELSE @]

-----------------------------------------------------------------------------
(* compile(): the packets that the tests of a primitive match.             *)
for_proto(proto, p) ==
  CASE proto = IP_PROTO_TCP_OR_UDP -> p.proto \in {IP_PROTO_TCP, IP_PROTO_UDP}
    [] proto # IP_PROTO_TCP_OR_UDP /\ proto >= 256 -> TRUE
    [] OTHER -> p.proto = proto

for_srcdst(prim, s, d) ==
  (CASE prim.srcdst = "SRC" -> s [] prim.srcdst = "DST" -> d
     [] prim.srcdst = "AND" -> s /\ d [] prim.srcdst = "OR" -> s \/ d) # prim.op_negated
either_word(prim, src, dst) == for_srcdst(prim, comparison(prim, src, FALSE), comparison(prim, dst, FALSE))

(* An address is tested in two words, the first of which begins two bytes  *)
(* before the Ethernet header.                                             *)
four_bytes(frame, offset, u, mask) == \A i \in 1 .. 4 : (frame[offset + i] & mask[i]) = (u[i] & mask[i])
either_ether(prim, frame) ==
  LET u == prim.u
      m == prim.mask
      part(x, first, last, before, after) == [i \in 1 .. before |-> 0] \o SubSeq(x, first, last) \o [i \in 1 .. after |-> 0]
      tested(offset, first, last, before, after) ==
        four_bytes(frame, offset, part(u, first, last, before, after), part(m, first, last, before, after))
  IN  for_srcdst(prim, tested(8, 1, 4, 0, 0) /\ tested(12, 5, 6, 0, 2), tested(0, 1, 2, 2, 0) /\ tested(4, 3, 6, 0, 0))

(* Fields here lie in one byte.                                            *)
field_value(p, type) ==
  LET byte == (IF type[2] = 0 THEN p.ip ELSE p.transp)[type[3] \div 8]
  IN  (byte \div 2^(8 - (type[3] % 8) - type[4])) % 2^type[4]

compiled(prim, p) ==
  /\ prim.transp_proto # UNKNOWN => for_proto(prim.transp_proto, p)
  /\ prim.type \in {PORT, TCPOPT} \/ (IsField(prim.type) /\ prim.type[2] # 0) => p.offset = 0
  /\ CASE prim.type = HOST -> either_word(prim, p.src, p.dst)
       [] prim.type = ETHER -> either_ether(prim, <<0, 0>> \o p.ether)
       [] prim.type = PROTO -> prim.transp_proto < 256 => comparison(prim, p.proto, TRUE)
       [] prim.type = IPFRAG -> (p.offset = 0 /\ ~p.more) = prim.op_negated
       [] prim.type = PORT -> either_word(prim, p.sport, p.dport)
       [] prim.type = TCPOPT -> (p.flags & prim.mask) = prim.u
       [] IsField(prim.type) -> comparison(prim, field_value(p, prim.type), TRUE)

compile(prim) == {i \in FilterPackets : compiled(prim, PacketFields[i])}

-----------------------------------------------------------------------------
(* lookup(): "TYPE" for the name of a type, "NO" for a word that no        *)
(* database has, "BAD" for an ambiguous or meaningless one.                *)
lookup(word, type, proto) ==
  LET got == IF word \in DOMAIN NameDB THEN NameDB[word] ELSE {}
      fits(g) == /\ type \in {NONE, g.type}
                 /\ g.type = PROTO \/ proto \in {UNKNOWN, g.proto} \/
                    (proto = IP_PROTO_TCP_OR_UDP /\ g.proto \in {IP_PROTO_TCP, IP_PROTO_UDP})
      tgot == {<<g.type, g.val>> : g \in {h \in got : fits(h)}}
      answer(wt, what, val) == [wt |-> wt, what |-> what, val |-> val]
  IN  CASE type = NONE /\ word \in DOMAIN TypeWords -> answer("TYPE", TypeWords[word], 0)
        [] ~(type = NONE /\ word \in DOMAIN TypeWords) /\ got = {} -> answer("NO", NONE, 0)
        [] ~(type = NONE /\ word \in DOMAIN TypeWords) /\ got # {} ->
             IF Cardinality(tgot) = 1
               THEN LET g == CHOOSE h \in tgot : TRUE IN answer("DATA", g[1], g[2])
               ELSE answer("BAD", NONE, 0)

WordAt(words, pos) == IF pos <= Len(words) THEN words[pos] ELSE ""
OneOf(words, pos, set) == pos <= Len(words) /\ words[pos] \in set

(* The loop of parse_test() over the qualifiers.                           *)
RECURSIVE qualifiers(_, _)
qualifiers(words, s) ==
  LET wd == WordAt(words, s.pos)
      found_ == lookup(wd, NONE, UNKNOWN)
      on(prim, n) == qualifiers(words, [s EXCEPT !.prim = prim, !.pos = @ + n])
      typed == set_type(s.prim, found_.what)
      both == OneOf(words, s.pos + 2, {"dst", "dest"}) /\ OneOf(words, s.pos + 1, {"and", "&&", "or", "||"})
  IN  CASE s.pos > Len(words) -> s
        [] found_.wt = "TYPE" ->
             on(IF IsField(found_.what) /\ found_.what[2] # 0 THEN set_transp_proto(typed, found_.what[2]) ELSE typed, 1)
        [] found_.wt = "DATA" /\ found_.what = PROTO -> on(set_transp_proto(s.prim, found_.val), 1)
        [] found_.wt = "NO" /\ wd = "src" ->
             IF both THEN on(set_srcdst(s.prim, IF words[s.pos + 1] \in {"and", "&&"} THEN "AND" ELSE "OR"), 3)
                     ELSE on(set_srcdst(s.prim, "SRC"), 1)
        [] found_.wt = "NO" /\ wd \in {"dst", "dest"} -> on(set_srcdst(s.prim, "DST"), 1)
        [] found_.wt = "NO" /\ wd \in {"ip", "ether"} /\ s.header = "" ->
             qualifiers(words, [s EXCEPT !.header = IF wd = "ip" THEN "i" ELSE "e", !.pos = @ + 1])
        [] found_.wt = "NO" /\ wd \in {"not", "!"} -> qualifiers(words, [s EXCEPT !.negated = ~@, !.pos = @ + 1])
        [] OTHER -> s

(* parse_brackets() with one word between the brackets.                    *)
parse_brackets(s, words) ==
  LET combination == WordAt(words, s.pos + 1)
      at == Brackets[combination]
      fits == /\ at[2] \in 1 .. 4
              /\ at[1] \div 4 = (at[1] + at[2] - 1) \div 4
      proto == IF s.prim.transp_proto = UNKNOWN THEN 0 ELSE s.prim.transp_proto
  IN  CASE ~OneOf(words, s.pos + 2, {"]"}) -> [s EXCEPT !.pos = @ + 1, !.prim = refused(@)]
        [] OneOf(words, s.pos + 2, {"]"}) /\ combination \in DOMAIN Brackets /\ fits ->
             [s EXCEPT !.pos = @ + 3, !.prim = set_type(@, FIELD(proto, 8 * at[1], 8 * at[2]))]
        [] OTHER -> [s EXCEPT !.pos = @ + 3, !.prim = refused(@)]

(* A bit mask and a relation are optional; both need a word behind them.   *)
parse_mask(s, words) ==
  LET wd == WordAt(words, s.pos + 1)
      given == s.pos < Len(words) /\ words[s.pos] = "&"
      with(type, val) == [s EXCEPT !.pos = @ + 2, !.mask_dt = IF val = 0 THEN NONE ELSE type,
                                   !.mask = val, !.prim = IF val = 0 THEN refused(@) ELSE @]
  IN  CASE given /\ wd \in DOMAIN Integer -> with(INT, Integer[wd])
        [] given /\ wd \in DOMAIN Address /\ s.header # "e" -> with(HOST, Address[wd])
        [] given /\ wd \in DOMAIN Ether /\ s.header # "i" -> [s EXCEPT !.pos = @ + 2, !.mask_dt = ETHER, !.mask = Ether[wd]]
        [] OTHER -> s

Relations ==
  [w \in {"=", "==", "!=", ">", "<", ">=", "<="} |->
     CASE w \in {"=", "=="} -> <<"EQ", FALSE>> [] w = "!=" -> <<"EQ", TRUE>>
       [] w = ">" -> <<"GT", FALSE>> [] w = "<=" -> <<"GT", TRUE>>
       [] w = "<" -> <<"LT", FALSE>> [] w = ">=" -> <<"LT", TRUE>>]
parse_relation(s, words) ==
  IF s.pos < Len(words) /\ words[s.pos] \in DOMAIN Relations
    THEN [s EXCEPT !.pos = @ + 1, !.prim.op = Relations[words[s.pos]][1], !.prim.op_negated = Relations[words[s.pos]][2]]
    ELSE s

parse_data(s, words) ==
  LET wd == WordAt(words, s.pos)
      found_ == lookup(wd, s.prim.type, s.prim.transp_proto)
      data(type, u, mask) == [s EXCEPT !.pos = @ + 1, !.prim.data = type, !.prim.u = u, !.prim.mask = mask]
      masked == /\ s.pos + 1 < Len(words) /\ words[s.pos + 1] = "mask" /\ words[s.pos + 2] \in DOMAIN Address
      other == s.pos <= Len(words) /\ found_.wt \in {"NO", "TYPE"}
  IN  CASE s.pos > Len(words) -> s
        [] s.pos <= Len(words) /\ found_.wt = "BAD" -> [s EXCEPT !.pos = @ + 1, !.prim = refused(@)]
        [] s.pos <= Len(words) /\ found_.wt = "DATA" -> data(found_.what, found_.val, 0)
        [] other /\ wd \in DOMAIN Integer -> data(INT, Integer[wd], 0)
        [] other /\ wd \in DOMAIN Address /\ s.header # "e" ->
             CASE masked -> [data(NET, Address[wd], Address[words[s.pos + 2]]) EXCEPT !.pos = @ + 2]
               [] ~masked /\ s.prim.type = NET /\ wd \in DOMAIN Prefix -> data(NET, Prefix[wd][1], Prefix[wd][2])
               [] OTHER -> data(HOST, Address[wd], 0)
        [] other /\ wd \in DOMAIN Prefix /\ s.header # "e" -> data(NET, Prefix[wd][1], Prefix[wd][2])
        [] other /\ wd \in DOMAIN Ether /\ s.header # "i" -> data(ETHER, Ether[wd], 0)
        [] OTHER -> [s EXCEPT !.prim.ok = @ /\ s.prim.op = "EQ" /\ ~s.prim.op_negated]

(* The subtrees under construction, each with the packets that its parts   *)
(* match.                                                                  *)
start_subtree(tree) == Append(tree, << >>)
add_part(tree, matched) == [tree EXCEPT ![Len(tree)] = Append(@, matched)]
negate_subtree(tree) ==
  [tree EXCEPT ![Len(tree)] = IF @ = << >> THEN @ ELSE Append(Front(@), FilterPackets \ Last(@))]

RECURSIVE c_ternary(_)
c_ternary(parts) ==
  IF Len(parts) < 3
    THEN parts[1]
    ELSE (parts[1] \cap parts[2]) \cup (c_ternary(SubSeq(parts, 3, Len(parts))) \ parts[1])
c_and(parts) == FoldLeft(LAMBDA a, b : a \cap b, FilterPackets, parts)
c_or(parts) == FoldLeft(LAMBDA a, b : a \cup b, {}, parts)
finish_subtree(tree, combined) == add_part(Front(tree), combined)

(* The rest of parse_test(): what is before a test counts if the test has  *)
(* no qualifiers; brackets are optional; the test is added if it is valid. *)
set_prev(t, s) ==
  LET prev == IF t.pos # s.pos THEN Cleared ELSE s.prev
  IN  [t EXCEPT !.prev = prev, !.header = IF prev.data = ETHER THEN "e" ELSE @]

bracketed(t, s, words) ==
  IF t.pos < Len(words) /\ words[t.pos] = "[" /\ t.pos > s.pos /\ t.prim.type = NONE
    THEN parse_brackets(t, words)
    ELSE t

add_test(t, s, prim) ==
  IF t.pos = s.pos \/ ~prim.ok
    THEN [s EXCEPT !.pos = t.pos, !.prev = t.prev, !.ok = FALSE]
    ELSE LET tree == add_part(s.tree, compile(prim))
         IN  [s EXCEPT !.pos = t.pos, !.prev = prim, !.tree = IF t.negated THEN negate_subtree(tree) ELSE tree]

checked(t, s) == add_test(t, s, check(t.prim, t.prev, t.header, t.mask_dt, t.mask))

(* parse_test() on the state of a parse: pos, tree, prev and ok.           *)
parse_test(words, s, negated) ==
  LET start == [pos |-> s.pos, prim |-> Cleared, prev |-> Cleared, header |-> "", negated |-> negated,
                mask_dt |-> NONE, mask |-> 0]
      constant == (words[s.pos] = "true") # negated
  IN  CASE s.pos > Len(words) \/ OneOf(words, s.pos, {")", "||", "or", "?", ":"}) -> s
        [] OneOf(words, s.pos, {"true", "false"}) ->
             [s EXCEPT !.pos = @ + 1, !.tree = add_part(@, IF constant THEN FilterPackets ELSE {})]
        [] OTHER ->
             LET headed == bracketed(set_prev(qualifiers(words, start), s), s, words)
             IN  checked(parse_data(parse_relation(parse_mask(headed, words), words), words), s)

(* One turn of the loop of parse_expr_iterative().  A state is left for a  *)
(* new one on top of it (into) or taken off the stack (finish).            *)
expr_turn(words, s) ==
  LET ps == Last(s.stk)
      into(t, state, new_state, pos) ==
        [t EXCEPT !.pos = pos, !.stk = Append(Append(Front(@), [state |-> state, last_pos |-> pos]),
                                              [state |-> new_state, last_pos |-> 0])]
      finish(t) == [t EXCEPT !.stk = Front(@)]
      opened == [s EXCEPT !.tree = start_subtree(@)]
      closed(Combined(_)) == finish([s EXCEPT !.tree = finish_subtree(@, Combined(Last(@)))])
      stuck == s.pos = ps.last_pos
      wrong(t) == [t EXCEPT !.ok = FALSE]
      neg == ps.state \in {"factor0_neg", "factor1_neg", "factor2_neg"}
      paren == OneOf(words, s.pos, {")"})
      grouped == [s EXCEPT !.pos = IF paren THEN @ + 1 ELSE @,
                           !.ok = @ /\ ~stuck /\ paren,
                           !.tree = IF neg THEN negate_subtree(@) ELSE @]
  IN  CASE ps.state = "expr0" -> into(opened, "expr1", "orexpr0", s.pos)
        [] ps.state = "expr1" ->
             IF OneOf(words, s.pos, {"?"}) THEN into(s, "expr2", "expr0", s.pos + 1) ELSE closed(c_ternary)
        [] ps.state = "expr2" ->
             IF stuck \/ ~OneOf(words, s.pos, {":"})
               THEN wrong(closed(c_ternary))
               ELSE into(s, "expr1", "orexpr0", s.pos + 1)
        [] ps.state = "orexpr0" -> into(opened, "orexpr1", "term0", s.pos)
        [] ps.state = "orexpr1" ->
             IF OneOf(words, s.pos, {"or", "||"}) THEN into(s, "orexpr1", "term0", s.pos + 1) ELSE closed(c_or)
        [] ps.state = "term0" -> into(opened, "term1", "factor0", s.pos)
        [] ps.state \in {"term1", "term2"} ->
             CASE stuck -> IF ps.state = "term1" THEN wrong(closed(c_and)) ELSE closed(c_and)
               [] ~stuck /\ OneOf(words, s.pos, {"and", "&&"}) -> into(s, "term1", "factor0", s.pos + 1)
               [] OTHER -> into(s, "term2", "factor0", s.pos)
        [] ps.state \in {"factor0", "factor0_neg"} ->
             CASE OneOf(words, s.pos, {"not", "!"}) ->
                    into(s, IF neg THEN "factor1_neg" ELSE "factor1", IF neg THEN "factor0" ELSE "factor0_neg", s.pos + 1)
               [] OneOf(words, s.pos, {"("}) -> into(s, IF neg THEN "factor2_neg" ELSE "factor2", "expr0", s.pos + 1)
               [] OTHER -> finish(parse_test(words, s, neg))
        [] ps.state \in {"factor1", "factor1_neg"} -> finish([s EXCEPT !.ok = @ /\ ~stuck])
        [] ps.state \in {"factor2", "factor2_neg"} -> finish(grouped)

RECURSIVE parse_expr_iterative(_, _)
parse_expr_iterative(words, s) ==
  IF s.stk = << >> THEN s ELSE parse_expr_iterative(words, expr_turn(words, s))

-----------------------------------------------------------------------------
(* parse_program() on one argument: a slot and an expression.              *)
slot_of(word) ==
  CASE word = "allow" -> 0
    [] word \in {"deny", "drop"} -> FilterOutputs
    [] word \in DOMAIN Integer -> Integer[word]
    [] OTHER -> -1
slot_ok(word) ==
  \/ word = "allow" /\ FilterOutputs > 0
  \/ word \in {"deny", "drop"}
  \/ word \in DOMAIN Integer /\ Integer[word] < FilterOutputs

pattern_of(words, parsed) ==
  [ok |-> slot_ok(words[1]) /\ parsed.ok /\ parsed.pos > Len(words),
   slot |-> slot_of(words[1]), matched |-> c_and(parsed.tree[1])]

parse_pattern(words) ==
  LET start == [stk |-> <<[state |-> "expr0", last_pos |-> 0]>>, pos |-> 2, tree |-> << << >> >>,
                prev |-> Cleared, ok |-> TRUE]
      everything == Len(words) = 1 \/ (Len(words) = 2 /\ words[2] \in {"-", "any", "all"})
  IN  CASE words = << >> -> [ok |-> FALSE, slot |-> 0, matched |-> {}]
        [] words # << >> /\ everything -> [ok |-> slot_ok(words[1]), slot |-> slot_of(words[1]), matched |-> FilterPackets]
        [] OTHER -> pattern_of(words, parse_expr_iterative(words, start))

(* The programs are merged into one in which the first match decides, and  *)
(* what none matches is dropped.                                           *)
merged(patterns, p) ==
  LET hits == {i \in DOMAIN patterns : p \in patterns[i].matched}
  IN  IF hits = {} THEN FilterOutputs ELSE patterns[Min(hits)].slot

(* A configuration is a sequence of patterns: a slot and items, which are  *)
(* tests or other words.  Its text is what configure() reads.              *)
Filled(word) == IF word = "" THEN << >> ELSE <<word>>
ItemWords(t) ==
  IF t.tok = "test"
    THEN Filled(t.proto) \o t.dir \o t.what \o (IF t.mask = "" THEN << >> ELSE <<"&", t.mask>>) \o Filled(t.rel) \o t.val
    ELSE <<t.tok>>
PatternText(pattern) == Filled(pattern.slot) \o FlattenSeq([i \in DOMAIN pattern.items |-> ItemWords(pattern.items[i])])

parse_program(conf) ==
  FoldLeft(LAMBDA patterns, pattern : Append(patterns, parse_pattern(PatternText(pattern))), << >>, conf)

(* configure() keeps the program it has if there was any error.            *)
IPFilter2_configure(conf) ==
  \E patterns \in {parse_program(conf)} :
    LET accepted == \A i \in DOMAIN patterns : patterns[i].ok
    IN  /\ offered' = <<conf, accepted>>
        /\ zprog' = IF accepted THEN [p \in FilterPackets |-> merged(patterns, p)] ELSE zprog
        /\ filterInForce' = IF accepted THEN conf ELSE filterInForce

(* The outputs at which a packet leaves when it is pushed, and when output *)
(* i pulls it from an input that has one: what is not for i is killed.  An *)
(* empty input gives NULL, which match() does not expect; it is left out.  *)
push(p) == IF zprog[p] < FilterOutputs THEN {zprog[p]} ELSE {}
pull(i, p) == IF zprog[p] = i THEN {i} ELSE {}

FilterInit ==
  /\ zprog = [p \in FilterPackets |-> FilterOutputs]
  /\ filterInForce = << >>
  /\ offered = << >>
  /\ configured = 0

FilterNext ==
  /\ configured < Len(FilterConfs)
  /\ configured' = configured + 1
  /\ \E conf \in FilterConfs[configured + 1] : IPFilter2_configure(conf)

-----------------------------------------------------------------------------
(* What a test says: its kind, direction, protocols and number, partly     *)
(* taken over from the test before if it has no qualifier of its own.      *)
ProtoOf == [w \in {"tcp", "udp", "icmp", "dccp"} |->
              CASE w = "tcp" -> {IP_PROTO_TCP} [] w = "udp" -> {IP_PROTO_UDP}
                [] w = "icmp" -> {IP_PROTO_ICMP} [] w = "dccp" -> {IP_PROTO_DCCP}]
AnyProto == {}
Unspecified == [kind |-> NONE, dir |-> "OR", protos |-> AnyProto, valid |-> FALSE]

Direction(dir) ==
  CASE dir = <<"src">> -> "SRC" [] dir = <<"dst">> -> "DST"
    [] Len(dir) = 3 -> (IF dir[2] = "and" THEN "AND" ELSE "OR") [] OTHER -> "OR"

Word(t) == IF t.val = << >> THEN "" ELSE t.val[1]
OwnProtos(t) == IF t.proto \in DOMAIN ProtoOf THEN ProtoOf[t.proto] ELSE AnyProto
KindOf(t, before) ==
  LET word == Word(t)
      own == OwnProtos(t)
      at == Brackets[t.what[2]]
      bracket == Len(t.what) = 3
  IN  CASE bracket -> FIELD(IF own = AnyProto THEN 0 ELSE CHOOSE x \in own : TRUE, 8 * at[1], 8 * at[2])
        [] ~bracket /\ t.what \in {<< >>, <<"host">>} /\ word \in DOMAIN Ether -> ETHER
        [] ~bracket /\ t.what # << >> /\ ~(t.what = <<"host">> /\ word \in DOMAIN Ether) -> TypeWords[Last(t.what)]
        [] t.what = << >> /\ word \in DOMAIN Integer -> before.kind
        [] t.what = << >> /\ word \in DOMAIN Address -> IF Len(t.val) = 3 THEN NET ELSE HOST
        [] t.what = << >> /\ word \in DOMAIN Prefix -> NET
        [] t.what = << >> /\ word \in DOMAIN NameDB -> (CHOOSE g \in NameDB[word] : TRUE).type
        [] OTHER -> PROTO

DescribedAs(t, before, kind) ==
  LET word == Word(t)
      own == OwnProtos(t)
      number == word \in DOMAIN Integer
      at == Brackets[t.what[2]]
      bracket == Len(t.what) = 3
      bracketOk == at[2] \in 1 .. 4 /\ at[1] \div 4 = (at[1] + at[2] - 1) \div 4
      protos == CASE own # AnyProto -> own
                  [] own = AnyProto /\ kind = PORT ->
                       IF before.protos = AnyProto THEN {IP_PROTO_TCP, IP_PROTO_UDP} ELSE before.protos
                  [] own = AnyProto /\ kind = TCPOPT -> {IP_PROTO_TCP}
                  [] own = AnyProto /\ IsField(kind) /\ kind[2] # 0 -> {kind[2]}
                  [] OTHER -> AnyProto
      named == {g \in IF word \in DOMAIN NameDB THEN NameDB[word] ELSE {} :
                  g.type = kind /\ (kind = PROTO \/ own = AnyProto \/ g.proto \in own)}
      lan == kind = NET /\ Len(t.val) = 1 /\ word \in DOMAIN Prefix
      n == CASE number -> Integer[word]
             [] ~number /\ ~lan /\ word \in DOMAIN Address -> Address[word]
             [] ~number /\ word \in DOMAIN Prefix -> Prefix[word][1]
             [] ~number /\ word \in DOMAIN Ether -> Ether[word]
             [] ~number /\ named # {} -> (CHOOSE g \in named : TRUE).val
             [] OTHER -> 0
      equality == t.rel \in {"", "=", "==", "!="}
      width == CASE kind = PORT -> PORT_BITS [] kind = PROTO -> 8 [] IsField(kind) -> kind[4] [] OTHER -> WIDTH
      full == CASE kind = ETHER -> [i \in 1 .. 6 |-> AllOnes]
                [] kind = NET /\ Len(t.val) = 3 -> Address[t.val[3]]
                [] kind = NET /\ word \in DOMAIN Prefix -> Prefix[word][2]
                [] OTHER -> 2^width - 1
      given == CASE t.mask \in DOMAIN Integer -> Integer[t.mask] [] t.mask \in DOMAIN Address -> Address[t.mask]
                 [] t.mask \in DOMAIN Ether -> Ether[t.mask] [] OTHER -> full
      maskOk == CASE t.mask = "" -> TRUE
                  [] t.mask # "" /\ kind = ETHER -> t.mask \in DOMAIN Ether
                  [] t.mask # "" /\ kind \in {HOST, NET} -> t.mask \notin DOMAIN Ether /\ given # 0
                  [] OTHER -> t.mask \in DOMAIN Integer /\ given # 0 /\ (given & full) = given
      valid ==
        /\ maskOk /\ (bracket => bracketOk)
        /\ t.proto = "ether" \/ before.kind = ETHER => kind = ETHER
        /\ t.proto = "ip" => kind # ETHER
        /\ number /\ t.what = << >> => before.valid /\ (IsField(kind) \/ kind \in {PROTO, PORT})
        /\ CASE kind = ETHER -> equality
             [] kind = HOST -> word \in DOMAIN Address /\ Len(t.val) = 1 /\ equality
             [] kind = NET -> (Len(t.val) = 3 \/ word \in DOMAIN Prefix) /\ equality
             [] kind = PORT -> /\ number \/ Cardinality({g.val : g \in named}) = 1
                               /\ protos \subseteq {IP_PROTO_TCP, IP_PROTO_UDP, IP_PROTO_DCCP} /\ (equality => n <= full)
             [] kind = PROTO -> \/ word = "" /\ own # AnyProto /\ t.rel = ""
                                \/ (number \/ named # {}) /\ own \in {AnyProto, {n}} /\ (equality => n <= full)
             [] kind = TCPOPT -> (number \/ named # {}) /\ protos = {IP_PROTO_TCP} /\ t.rel \in {"", "=", "=="} /\ t.mask = ""
             [] kind = IPFRAG \/ kind = <<"IPUNFRAG">> -> word = "" /\ t.rel = "" /\ t.mask = ""
             [] IsField(kind) -> number /\ (equality => n <= full) /\ (kind[2] # 0 => protos = {kind[2]})
      asserted == IF t.rel \in {"", "=", "=="} /\ t.mask = "" THEN (IF word = "" THEN own ELSE {n}) ELSE AnyProto
  IN  [kind |-> kind, valid |-> valid, rel |-> t.rel, n |-> n, mask |-> given,
       dir |-> IF t.dir = << >> THEN before.dir ELSE Direction(t.dir),
       protos |-> IF kind = PROTO THEN asserted ELSE protos, stated |-> word # ""]

Described(t, earlier) ==
  LET before == IF t.proto # "" \/ t.dir # << >> \/ t.what # << >> THEN Unspecified ELSE earlier
  IN  DescribedAs(t, before, KindOf(t, before))

(* "!=", "<" and "<=" deny "=", ">=" and ">": with two directions, of the  *)
(* pair.                                                                   *)
Says(d, xs, either) ==
  LET bytes == d.kind = ETHER
      part(x) == IF bytes THEN [i \in 1 .. 6 |-> x[i] & d.mask[i]] ELSE x & d.mask
      some(Rel(_)) == IF either THEN \E x \in xs : Rel(part(x)) ELSE \A x \in xs : Rel(part(x))
      equal(x) == x = part(d.n)
      over(x) == x > d.n
      least(x) == x >= d.n
  IN  CASE d.rel \in {"", "=", "=="} -> some(equal) [] d.rel = "!=" -> ~some(equal)
        [] d.rel = ">" -> some(over) [] d.rel = "<=" -> ~some(over)
        [] d.rel = ">=" -> some(least) [] d.rel = "<" -> ~some(least)

Meant(d, p) ==
  LET ends(a, b) == CASE d.dir = "SRC" -> {a} [] d.dir = "DST" -> {b} [] OTHER -> {a, b}
      first == p.offset = 0
      whole == first /\ ~p.more
  IN  /\ d.protos # AnyProto => p.proto \in d.protos
      /\ CASE d.kind \in {HOST, NET} -> Says(d, ends(p.src, p.dst), d.dir = "OR")
           [] d.kind = ETHER -> Says(d, ends(SubSeq(p.ether, 7, 12), SubSeq(p.ether, 1, 6)), d.dir = "OR")
           [] d.kind = PORT -> first /\ Says(d, ends(p.sport, p.dport), d.dir = "OR")
           [] d.kind = PROTO -> d.stated => Says(d, {p.proto}, TRUE)
           [] d.kind = TCPOPT -> first /\ (p.flags & d.n) = d.n
           [] d.kind = IPFRAG -> ~whole
           [] d.kind = <<"IPUNFRAG">> -> whole
           [] IsField(d.kind) -> (d.kind[2] # 0 => first) /\ Says(d, {field_value(p, d.kind)}, TRUE)

(* The meanings of the items i .. j as the grammar has them.               *)
RECURSIVE GExpr(_, _, _), GOr(_, _, _), GTerm(_, _, _), GFactor(_, _, _)
GFactor(items, i, j) ==
  CASE i > j -> {}
    [] i = j -> CASE items[i].tok = "test" -> {items[i].matched}
                  [] items[i].tok = "true" -> {FilterPackets}
                  [] items[i].tok = "false" -> {{}}
                  [] OTHER -> {}
    [] i < j -> CASE items[i].tok = "!" -> {FilterPackets \ m : m \in GFactor(items, i + 1, j)}
                  [] items[i].tok = "(" /\ items[j].tok = ")" -> GExpr(items, i + 1, j - 1)
                  [] OTHER -> {}
GTerm(items, i, j) ==
  GFactor(items, i, j) \cup
  UNION {{a \cap b : a \in GTerm(items, i, k), b \in GFactor(items, IF items[k + 1].tok = "and" THEN k + 2 ELSE k + 1, j)} :
           k \in i .. j - 1}
GOr(items, i, j) ==
  GTerm(items, i, j) \cup
  UNION {{a \cup b : a \in GOr(items, i, k - 1), b \in GTerm(items, k + 1, j)} : k \in {k \in i .. j : items[k].tok = "or"}}
GExpr(items, i, j) ==
  GOr(items, i, j) \cup
  UNION {{(a \cap b) \cup (c \ a) : a \in GOr(items, i, q - 1), b \in GExpr(items, q + 1, k - 1), c \in GExpr(items, k + 1, j)} :
           <<q, k>> \in {<<q, k>> \in (i .. j) \X (i .. j) : q < k /\ items[q].tok = "?" /\ items[k].tok = ":"}}

(* A pattern means what the grammar makes of its items, each with the      *)
(* packets that its test describes.                                        *)
IsTest(t) == t.tok = "test"
Descriptions(pattern) ==
  FoldLeft(LAMBDA ds, t : Append(ds, Described(t, IF ds = << >> THEN Unspecified ELSE Last(ds))),
           << >>, SelectSeq(pattern.items, IsTest))
ItemMeanings(items, descs) ==
  LET nth(i) == Len(SelectSeq(SubSeq(items, 1, i), IsTest))
  IN  [i \in DOMAIN items |->
         [tok |-> items[i].tok,
          matched |-> IF IsTest(items[i]) THEN {k \in FilterPackets : Meant(descs[nth(i)], PacketFields[k])} ELSE {}]]
Sentences(items) ==
  IF items = << >> \/ (Len(items) = 1 /\ items[1].tok \in {"-", "any", "all"})
    THEN {FilterPackets}
    ELSE GExpr(items, 1, Len(items))
Meanings(pattern, descs) ==
  IF slot_ok(pattern.slot) /\ \A i \in DOMAIN descs : descs[i].valid THEN Sentences(ItemMeanings(pattern.items, descs)) ELSE {}
PatternMeanings(pattern) == Meanings(pattern, Descriptions(pattern))

(* The filter does what its configuration says.  A configuration is taken  *)
(* exactly if each pattern is a sentence of the grammar in the comment     *)
(* before parse_expr_iterative() and its tests make sense; then a packet   *)
(* is for the slot of the first pattern whose expression it satisfies, or  *)
(* for none; otherwise packets go on being filtered by the configuration   *)
(* before.  A packet that is pushed leaves at its slot; one that an output *)
(* pulls leaves if the output is its slot, and is killed for any other.    *)
FilterMeant ==
  /\ offered # << >> =>
       IF offered[2] THEN filterInForce = offered[1]
                     ELSE \E i \in DOMAIN offered[1] : PatternMeanings(offered[1][i]) = {}
  /\ LET meanings == [i \in DOMAIN filterInForce |-> PatternMeanings(filterInForce[i])]
     IN  /\ \A i \in DOMAIN meanings : meanings[i] # {}
         /\ \A p \in FilterPackets :
              LET satisfied == {i \in DOMAIN meanings : \A m \in meanings[i] : p \in m}
                  slot == IF satisfied = {} THEN FilterOutputs ELSE slot_of(filterInForce[Min(satisfied)].slot)
              IN  /\ push(p) = {slot} \cap 0 .. FilterOutputs - 1
                  /\ \A i \in 0 .. FilterOutputs - 1 : pull(i, p) = {slot} \cap {i}

(* Neither the parser nor the tests it makes of relations nor the search   *)
(* of a packet's bytes in the compiled program of configure() and pull()   *)
(* change what a filter means.                                             *)
FilterExact == FilterMeant /\ WordsExact
=============================================================================
