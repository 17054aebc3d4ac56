---------------------------- MODULE FilterWords -----------------------------
(* How IPFilter2 (click/unikraft/ipfilter2.cc) compares words of a packet: *)
(* set_mask() and add_comparison_exprs() turn a relation into masked       *)
(* equality tests; match() and length_checked_match() run the program that *)
(* Click's classification library, which is external, makes of the tests.  *)
(*                                                                         *)
(* Words have WIDTH bits instead of 32.  The shift of both functions moves *)
(* a field to its place in the word and is left out.                       *)
EXTENDS Integers, Sequences, FiniteSets, SequencesExt, Bitwise

CONSTANTS
  WIDTH,
  MacLength,           \* length of the MAC header
  MIN_BINARY_SEARCH,   \* from so many values on, match() searches by bisection
  WordCases            \* comparisons and programs to look at, one at a time

ASSUME FilterWordAssumption == WIDTH \in Nat \ {0} /\ MIN_BINARY_SEARCH \in Nat

VARIABLE wordCase
wordVars == <<wordCase>>

AllOnes == 2^WIDTH - 1
Without(x, y) == x & (AllOnes - y)     \* x & ~y
ffs_msb(x) == IF x = 0 THEN 0 ELSE WIDTH - Max({i \in 0 .. WIDTH - 1 : 2^i <= x})

(* Primitive::set_mask() on the fields op, op_negated, u and mask; ok says *)
(* that no error was reported.                                             *)
set_mask(prim, full_mask, provided_mask) ==
  LET data == prim.u
      this_mask == IF provided_mask # 0 THEN provided_mask ELSE full_mask
      less == prim.op = "LT"
      above == less /\ data > this_mask
      constant == above \/ (less /\ data = 0) \/ (prim.op = "GT" /\ data >= this_mask)
      will_be == IF above THEN ~prim.op_negated ELSE prim.op_negated
      u == IF less THEN data - 1 ELSE data
      missing_bits == (u & this_mask) ^^ (u & full_mask)
      add_mask == 2^(WIDTH - ffs_msb(missing_bits)) - 1
  IN  CASE (this_mask & full_mask) # this_mask -> [prim EXCEPT !.ok = FALSE]
        [] (this_mask & full_mask) = this_mask /\ constant ->
             [prim EXCEPT !.op = "EQ", !.op_negated = ~will_be, !.u = 0, !.mask = 0]
        [] (this_mask & full_mask) = this_mask /\ ~constant /\ prim.op # "EQ" ->
             [prim EXCEPT !.op = "GT", !.op_negated = (@ # less), !.mask = this_mask,
                          !.u = IF (u & this_mask) # u THEN (u | add_mask) & this_mask ELSE u]
        [] OTHER -> [prim EXCEPT !.ok = data <= full_mask, !.mask = this_mask]

(* The first loop of add_comparison_exprs(): each round tests the upper    *)
(* bits that u has all clear or, counting one up, all set.                 *)
RECURSIVE comparison_rounds(_, _)
upper_mask_of_bug(u, mask, high_bit) ==
  LET first_different_bit == WIDTH - ffs_msb(IF high_bit THEN Without(mask, u + 1) ELSE u)
  IN  IF first_different_bit = WIDTH THEN mask ELSE Without(mask, 2^first_different_bit - 1)
upper_mask_of(u, mask, high_bit) ==
  LET first_different_bit == WIDTH + 1 - ffs_msb(IF high_bit THEN Without(mask, u + 1) ELSE u)
  IN  IF first_different_bit = WIDTH + 1 THEN mask ELSE Without(mask, 2^first_different_bit - 1)
comparison_rounds(u, mask) ==
  IF u >= mask
    THEN << >>
    ELSE LET high_bit == u > mask \div 2
             upper_mask == upper_mask_of(u, mask, high_bit)
             lower == Without(mask, upper_mask)
         IN  <<[high_bit |-> high_bit, upper_mask |-> upper_mask]>> \o comparison_rounds(u & lower, lower)

(* The second loop closes the subtrees, the innermost first: "and" where   *)
(* the upper bits are set, "or" where they are clear.                      *)
greater(x, u, mask) ==
  LET rounds == comparison_rounds(u, mask)
      test(r) == IF r.high_bit THEN (x & r.upper_mask) = r.upper_mask ELSE (x & r.upper_mask) # 0
  IN  FoldRight(LAMBDA r, inner : IF r.high_bit THEN test(r) /\ inner ELSE test(r) \/ inner,
                Front(rounds), test(Last(rounds)))

(* What the tests that add_comparison_exprs() adds say of the value x.     *)
comparison(prim, x, op_negate) ==
  LET u == prim.u & prim.mask
  IN  (IF prim.op = "EQ" THEN (x & prim.mask) = u ELSE greater(x, u, prim.mask))
        # (prim.op_negated /\ op_negate)

-----------------------------------------------------------------------------
(* A compressed program is a sequence of nodes: four bytes from off on are *)
(* masked and looked up among the sorted values; yes and no are the next   *)
(* node or, if not positive, the output; short is the branch of a packet   *)
(* that ends too early.  The offset tells the header too.  Bytes of packet *)
(* pkt are counted from its network header, those of the MAC header before *)
(* it are negative.                                                        *)
offset_net == 256
offset_transp == 512

base(pkt, off) ==
  CASE off >= offset_transp -> pkt.network_header_length + off - offset_transp
    [] off < offset_transp /\ off >= offset_net -> off - offset_net
    [] OTHER -> off - 2 - MacLength

word_of(pkt, node) ==
  LET masked(i) == IF node.mask[i] = 1 THEN pkt.bytes[base(pkt, node.off) + i - 1] ELSE 0
  IN  masked(1) + 2 * masked(2) + 4 * masked(3) + 8 * masked(4)

RECURSIVE bisect(_, _, _, _)
bisect(values, data, pp, px) ==
  LET pm == pp + (px - pp) \div 2
  IN  CASE pp >= px -> FALSE
        [] pp < px /\ values[pm] = data -> TRUE
        [] pp < px /\ values[pm] < data -> bisect(values, data, pm + 1, px)
        [] pp < px /\ values[pm] > data -> bisect(values, data, pp, pm)

found(values, data) ==
  IF Len(values) < MIN_BINARY_SEARCH
    THEN \E i \in DOMAIN values : values[i] = data
    ELSE bisect(values, data, 1, Len(values) + 1)

(* check_length: the mask may leave out the bytes the packet does not have *)
length_ok(node, packet_length) ==
  LET available == packet_length - node.off
      c == node.mask
  IN  \/ available >= 4
      \/ /\ available > 0
         /\ ~(c[4] = 1 \/ (c[3] = 1 /\ available <= 2) \/ (c[2] = 1 /\ available = 1))

RECURSIVE length_checked_match(_, _, _, _)
length_checked_match(prog, at, pkt, packet_length) ==
  LET node == prog[at]
      off == IF length_ok(node, packet_length)
               THEN IF found(node.values, word_of(pkt, node)) THEN node.yes ELSE node.no
               ELSE IF node.short THEN node.yes ELSE node.no
  IN  IF off <= 0 THEN -off ELSE length_checked_match(prog, at + off, pkt, packet_length)

(* The length from which on no test of the program asks for a byte beyond  *)
(* the packet; the output of a program without tests, here one with no     *)
(* place in the packet.                                                    *)
safe_length(prog) == Max(UNION {{prog[n].off + i : i \in {j \in 1 .. 4 : prog[n].mask[j] = 1}} : n \in DOMAIN prog})
output_everything(prog) == IF Len(prog) = 1 /\ prog[1].off < 0 THEN prog[1].yes ELSE -1

RECURSIVE match_loop(_, _, _)
match_loop(prog, at, pkt) ==
  LET node == prog[at]
      off == IF found(node.values, word_of(pkt, node)) THEN node.yes ELSE node.no
  IN  IF off <= 0 THEN -off ELSE match_loop(prog, at + off, pkt)

(* The length is counted as offsets are, up to the end of the packet in    *)
(* the header it ends in.                                                  *)
packet_length_of(pkt) ==
  IF pkt.network_length > pkt.network_header_length
    THEN pkt.network_length + offset_transp - pkt.network_header_length
    ELSE pkt.network_length + offset_net

match(prog, pkt) ==
  LET packet_length == packet_length_of(pkt) IN
  CASE output_everything(prog) >= 0 -> output_everything(prog)
    [] output_everything(prog) < 0 /\ packet_length < safe_length(prog) -> length_checked_match(prog, 1, pkt, packet_length)
    [] OTHER -> match_loop(prog, 1, pkt)

-----------------------------------------------------------------------------
WordInit == wordCase = << >>
TakeCase == wordCase = << >> /\ \E c \in WordCases : wordCase' = <<c>>
WordNext == TakeCase

(* What a relation says: the masked field is compared with a number; for   *)
(* (in)equality the number is masked too, so that a network address may    *)
(* have host bits.                                                         *)
RelationHolds(c, x) ==
  LET m == IF c.provided # 0 THEN c.provided ELSE c.full
      holds == CASE c.prim.op = "EQ" -> (x & m) = (c.prim.u & m)
                 [] c.prim.op = "LT" -> (x & m) < c.prim.u
                 [] c.prim.op = "GT" -> (x & m) > c.prim.u
  IN  holds # c.prim.op_negated

(* Relations become masked tests without a change of meaning: for every    *)
(* operator, number and mask, also masks with gaps and numbers beyond the  *)
(* field, the tests that are added hold for exactly the values for which   *)
(* the relation does; refused are masks and equalities out of range.       *)
CompareExact ==
  \A i \in DOMAIN wordCase : wordCase[i].kind = "compare" =>
    LET c == wordCase[i]
        prim == set_mask(c.prim, c.full, c.provided)
    IN  IF (c.provided & c.full) # c.provided \/ (c.prim.op = "EQ" /\ c.prim.u > c.full)
          THEN ~prim.ok
          ELSE prim.ok /\ \A x \in 0 .. c.full : comparison(prim, x, TRUE) = RelationHolds(c, x)

(* The way through the program if only bytes of the packet may count.      *)
Asks(pkt, node, pos) == \E i \in 1 .. 4 : node.mask[i] = 1 /\ base(pkt, node.off) + i - 1 = pos

RECURSIVE Way(_, _, _)
Way(prog, at, pkt) ==
  LET node == prog[at]
      present == \A pos \in DOMAIN pkt.bytes : Asks(pkt, node, pos) => pos < pkt.network_length
      hit == IF present THEN \E i \in DOMAIN node.values : node.values[i] = word_of(pkt, node) ELSE node.short
      off == IF hit THEN node.yes ELSE node.no
  IN  IF off <= 0 THEN -off ELSE Way(prog, at + off, pkt)

(* No test of the network header asks for bytes of the transport header.   *)
KeepsToHeader(prog, pkt) ==
  \A n \in DOMAIN prog : prog[n].off \in offset_net .. offset_transp - 1 =>
    ~\E pos \in pkt.network_header_length .. pkt.network_header_length + 3 : Asks(pkt, prog[n], pos)

(* A packet is sent where its own bytes send it: no byte behind its end    *)
(* has a say, a test that asks for none of them is carried out all the     *)
(* same, and bisection finds the value wherever it stands.  Tests of the   *)
(* network header are excepted that ask for bytes behind it: match() does  *)
(* not look whether a packet with a transport header has those.            *)
MatchExact ==
  \A i \in DOMAIN wordCase : wordCase[i].kind = "match" =>
    LET c == wordCase[i]
        Ending(beyond) ==
          [c.pkt EXCEPT !.bytes = [pos \in DOMAIN @ |-> IF pos < c.pkt.network_length THEN @[pos] ELSE beyond]]
    IN  KeepsToHeader(c.prog, c.pkt) =>
          \A beyond \in 0 .. 1 :
            match(c.prog, Ending(beyond)) = IF c.prog[1].off < 0 THEN c.prog[1].yes ELSE Way(c.prog, 1, c.pkt)

(* Both halves of classifying by words are exact.                          *)
WordsExact == CompareExact /\ MatchExact
=============================================================================
