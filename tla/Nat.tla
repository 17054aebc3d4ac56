--------------------------------- MODULE Nat ---------------------------------
(***************************************************************************)
(* The nat program: connections from the internal network (input 0) get a  *)
(* port of the external address, remembered in the map CONNECTIONS.  A     *)
(* packet is its connection, the checksum of its IP header and the sum of  *)
(* the rest of that header.                                                *)
(***************************************************************************)
EXTENDS BpfHelpers, Checksum

CONSTANTS
  PORT_START, PORT_END,   \* 50000 and 65535
  DEV_EX,                 \* external address
  Connections,            \* connections packets may belong to, replies included
  Rests,                  \* sums of the words of a header NAT leaves alone
  TCP, UDP                \* protocol numbers

Addresses == 0 .. 2^(2*P) - 1
Ports == 0 .. 2^P - 1
FOUTPUT == 0
Rules == [src_ip : Addresses, src_port : Ports, dst_ip : Addresses, dst_port : Ports, output : {FOUTPUT}]

ASSUME NatAssumption ==
  /\ Rests \subseteq Words \ {0} /\ PORT_START \in Ports \ {0} /\ PORT_END \in Ports /\ PORT_START < PORT_END
  /\ DEV_EX \in Addresses
  /\ \A c \in Connections :
       c.src_ip \in Addresses /\ c.dst_ip \in Addresses /\ c.src_port \in Ports /\ c.dst_port \in Ports
  /\ NULL \notin Rules

ROUTPUT == 1
OUTPUTS == 2
ABORT == -1  \* core::u32::MAX, no output of the classifier
InputPorts == {0, 1, 2}

VARIABLES
  NEXT_PORT, CONNECTIONS,   \* maps
  installed,  \* connections that have been given a port
  sent        \* the last packet: input, as it came, as it leaves, output

natVars == <<NEXT_PORT, CONNECTIONS, installed, sent>>

NatInit ==
  /\ NEXT_PORT = Fresh([type |-> "ARRAY", key_size |-> 4, value_size |-> 4, max_entries |-> 1])
  /\ CONNECTIONS = Fresh([type |-> "HASH", key_size |-> 16, value_size |-> 20,
                          max_entries |-> 1028])
  /\ installed = {} /\ sent = NULL

(* next_port(): the port it returns and the one it leaves for the next     *)
(* call.                                                                   *)
next_port ==
  LET p == bpf_map_lookup_elem(NEXT_PORT, 0) IN IF p = 0 THEN PORT_START ELSE p

after_bug(port) == PORT_START + ((port - PORT_START + 1) % (PORT_END - PORT_START - 1))

after(port) == PORT_START + ((port - PORT_START + 1) % (PORT_END - PORT_START))

(* a | b, bit by bit.                                                      *)
BitOr[a, b \in Nat] ==
  IF a = 0 /\ b = 0 THEN 0
  ELSE 2 * BitOr[a \div 2, b \div 2] + (IF a % 2 = 1 \/ b % 2 = 1 THEN 1 ELSE 0)

connection_to_u128(c) ==
  BitOr[c.src_ip * 2^(6*P), BitOr[c.src_port * 2^(5*P), BitOr[c.dst_ip * 2^(4*P),
    BitOr[c.dst_port * 2^(3*P), c.protocol * 2^(2*P)]]]]
Key == [c \in Connections |-> connection_to_u128(c)]

apply_rewrite(p, r) ==
  [p EXCEPT !.conn = [src_ip |-> r.src_ip, src_port |-> r.src_port, dst_ip |-> r.dst_ip,
                      dst_port |-> r.dst_port, protocol |-> p.conn.protocol],
            !.check = update_checksum_ip(update_checksum_ip(p.check, p.conn.src_ip, r.src_ip),
                                         p.conn.dst_ip, r.dst_ip)]

Emit(port, p, q, output) == sent' = [input |-> port, before |-> p, out |-> q, output |-> output]

Abort(port, p) ==
  Emit(port, p, p, ABORT) /\ UNCHANGED <<NEXT_PORT, CONNECTIONS, installed>>

(* A rule for the connection is known.                                     *)
Known(port, p, r) ==
  /\ r # NULL
  /\ Emit(port, p, apply_rewrite(p, r), r.output % OUTPUTS)
  /\ UNCHANGED <<NEXT_PORT, CONNECTIONS, installed>>

(* No rule, packet from outside: forwarded as it is.                       *)
FromOutside(port, p, r) ==
  /\ r = NULL /\ port = 1
  /\ Emit(port, p, p, FOUTPUT)
  /\ UNCHANGED <<NEXT_PORT, CONNECTIONS, installed>>

value_to(c, nat_port) == [src_ip |-> DEV_EX, src_port |-> nat_port,
  dst_ip |-> c.dst_ip, dst_port |-> c.dst_port, output |-> FOUTPUT]

FromInside_bug(port, p, r) ==
  LET nat_port == next_port
      rule == value_to(p.conn, nat_port)
      key == Key[p.conn]
  IN  /\ port = 0
      /\ NEXT_PORT' = bpf_map_update_elem(NEXT_PORT, 0, after(nat_port))
      /\ CONNECTIONS' = bpf_map_update_elem(CONNECTIONS, key, rule)
      /\ installed' = installed \cup {p.conn}
      /\ Emit(port, p, apply_rewrite(p, rule), port)

(* No rule, packet from inside: a rule is installed, by both calls of      *)
(* insert() the same one.                                                  *)
FromInside(port, p, r) ==
  LET nat_port == next_port
      rule == value_to(p.conn, nat_port)
      key == Key[p.conn]
  IN  /\ r = NULL /\ port = 0
      /\ NEXT_PORT' = bpf_map_update_elem(NEXT_PORT, 0, after(nat_port))
      /\ CONNECTIONS' = bpf_map_update_elem(bpf_map_update_elem(CONNECTIONS, key, rule), key, rule)
      /\ installed' = installed \cup {p.conn}
      /\ Emit(port, p, apply_rewrite(p, rule), port)

(* try_classify(): a packet too short, of another protocol or from an      *)
(* input the program does not know is aborted.                             *)
try_classify(port, p) ==
  LET c == p.conn
      r == bpf_map_lookup_elem(CONNECTIONS, Key[c])
  IN
  \/ (c.protocol \notin {TCP, UDP} \/ (r = NULL /\ port \notin {0, 1})) /\ Abort(port, p)
  \/ c.protocol \in {TCP, UDP} /\
       (Known(port, p, r) \/ FromOutside(port, p, r) \/ FromInside(port, p, r))

(* Packets arrive with a header checksum that is right.                    *)
NatNext ==
  \E port \in InputPorts, c \in Connections, w \in Rests, k \in Words :
    Valid(w, c.src_ip, c.dst_ip, k) /\ try_classify(port, [conn |-> c, rest |-> w, check |-> k])

NatSpec == NatInit /\ [][NatNext]_natVars

-----------------------------------------------------------------------------
(* A connection keeps the port it was given: later packets of this or any  *)
(* other connection never change an installed rule.                        *)
RulesStable ==
  [][\A k \in DOMAIN CONNECTIONS.data :
       k \in DOMAIN CONNECTIONS'.data /\ CONNECTIONS'.data[k] = CONNECTIONS.data[k]]_natVars

(* Until the PORT_END - PORT_START ports are used up, no two rules share   *)
(* one: next_port() goes through all of them before it starts again.       *)
PortsDistinct ==
  Cardinality(DOMAIN CONNECTIONS.data) <= PORT_END - PORT_START =>
    \A k, l \in DOMAIN CONNECTIONS.data :
      CONNECTIONS.data[k].src_port = CONNECTIONS.data[l].src_port => k = l

(* A packet for the wild goes to the destination it was sent to, whatever  *)
(* rules have been installed before, unless its connection has the key of  *)
(* another one: connection_to_u128() shifts src_port into the upper half   *)
(* of dst_ip.  Then both go where the one goes that came first.            *)
DestinationKept ==
  sent # NULL /\ sent.input = 0 =>
    \E c \in installed \cup {sent.before.conn} :
      /\ Key[c] = Key[sent.before.conn]
      /\ sent.out.conn.dst_ip = c.dst_ip /\ sent.out.conn.dst_port = c.dst_port

(* The header checksum of a rewritten packet, updated word by word, is one *)
(* that a receiver who adds up the whole header accepts, all carries       *)
(* included.                                                               *)
ChecksumValid ==
  sent # NULL =>
    /\ sent.out.check \in Words
    /\ Valid(sent.out.rest, sent.out.conn.src_ip, sent.out.conn.dst_ip, sent.out.check)

(* What leaves for the wild arrives there: destination and checksum are in *)
(* order after rewriting.                                                  *)
RewriteSound == DestinationKept /\ ChecksumValid

(* Translation by nat.rs is sound: connections have ports of their own and *)
(* packets arrive where they were sent.                                    *)
TranslationSound == PortsDistinct /\ RewriteSound

(* "reply flows are rewritten to look like the original flow -> routput    *)
(* (to the internal network)": the answer to a translated packet.          *)
RepliesReturn ==
  sent # NULL /\ sent.input = 1 =>
    \A c \in installed :
      LET r == bpf_map_lookup_elem(CONNECTIONS, Key[c])
          reply == sent.before.conn
      IN
      /\ reply.src_ip = c.dst_ip /\ reply.src_port = c.dst_port
      /\ reply.dst_ip = DEV_EX /\ reply.dst_port = r.src_port
      /\ reply.protocol = c.protocol
      => sent.out.conn.dst_ip = c.src_ip /\ sent.output = ROUTPUT
=============================================================================
