----------------------------- MODULE Nat_proofs -----------------------------
(***************************************************************************)
(* The nat, for any connections, addresses and range of ports: it keeps    *)
(* checksums valid, ports apart and rules as they are.                     *)
(***************************************************************************)
EXTENDS Nat, FiniteSetTheorems, TLAPS

-----------------------------------------------------------------------------
(* The checksum of the IP header, in the arithmetic of its receiver.       *)

LEMMA WordFacts ==
  /\ M \in Nat /\ M >= 4
  /\ \A x \in Nat : High(x) \in Words /\ Low(x) \in Words
<1>1. M \in Nat /\ M >= 4 BY WordAssumption DEF M
<1>2. ASSUME NEW x \in Nat PROVE x % M \in 0 .. M - 1 /\ (x \div M) \in Nat
  BY <1>1
<1>3. ASSUME NEW x \in Nat PROVE (x \div M) % M \in 0 .. M - 1
  BY <1>1, <1>2
<1> QED BY <1>1, <1>2, <1>3 DEF High, Low, Words

(* Adding up with end-around carry: what is divided by N stays divided.    *)
LEMMA StaysDivided ==
  ASSUME NEW N \in Nat, N >= 1, NEW x \in Nat, NEW y \in Nat, NEW k \in Int,
         y = x + k * N, x % N = 0
  PROVE  y % N = 0
<1> DEFINE q == x \div N
           d == y \div N
           m == y % N
<1>1. x = N * q /\ q \in Int BY SMT
<1>2. y = N * d + m /\ d \in Int /\ m \in 0 .. N - 1 OBVIOUS
<1> HIDE DEF q, d, m
<1>3. m = N * (q + k - d) BY <1>1, <1>2
<1>4. PICK e \in Int : e = q + k - d BY <1>1, <1>2
<1>5. m = N * e BY <1>3, <1>4
<1>6. ~(e >= 1)
  <2> SUFFICES ASSUME e >= 1 PROVE FALSE OBVIOUS
  <2>1. N * (e - 1) >= 0 BY <1>4
  <2>2. N * e >= N BY <2>1, <1>4
  <2> QED BY <2>2, <1>5, <1>2
<1>7. ~(e <= -1)
  <2> SUFFICES ASSUME e <= -1 PROVE FALSE OBVIOUS
  <2>1. N * (-1 - e) >= 0 BY <1>4
  <2>2. N * e <= -N BY <2>1, <1>4
  <2> QED BY <2>2, <1>5, <1>2
<1>8. e = 0 BY <1>4, <1>6, <1>7
<1>9. m = 0 BY <1>5, <1>8
<1> QED BY <1>9 DEF m

(* x \div M and x % M for a sum of up to three words.                      *)
LEMMA Carries ==
  ASSUME NEW x \in Nat, x < 3 * M
  PROVE  /\ x < M => x \div M = 0 /\ x % M = x
         /\ x >= M /\ x < 2 * M => x \div M = 1 /\ x % M = x - M
         /\ x >= 2 * M => x \div M = 2 /\ x % M = x - 2 * M
<1> DEFINE d == x \div M
           m == x % M
<1>1. M \in Nat /\ M >= 4 BY WordFacts
<1>2. x = M * d + m /\ d \in Int /\ m \in 0 .. M - 1 BY <1>1
<1> HIDE DEF d, m
<1>3. ~(d >= 3)
  <2> SUFFICES ASSUME d >= 3 PROVE FALSE OBVIOUS
  <2>1. M * (d - 3) >= 0 BY <1>1, <1>2
  <2>2. M * d >= 3 * M BY <2>1, <1>1, <1>2
  <2> QED BY <2>2, <1>1, <1>2
<1>4. ~(d <= -1)
  <2> SUFFICES ASSUME d <= -1 PROVE FALSE OBVIOUS
  <2>1. M * (-1 - d) >= 0 BY <1>1, <1>2
  <2>2. M * d <= -M BY <2>1, <1>1, <1>2
  <2> QED BY <2>2, <1>1, <1>2
<1>5. d \in {0, 1, 2} BY <1>2, <1>3, <1>4
<1>6. x = m \/ x = M + m \/ x = 2 * M + m BY <1>1, <1>2, <1>5
<1>7. (d = 0 => x = m) /\ (d = 1 => x = M + m) /\ (d = 2 => x = 2 * M + m) BY <1>1, <1>2
<1>8. /\ x < M => d = 0 /\ m = x
      /\ x >= M /\ x < 2 * M => d = 1 /\ m = x - M
      /\ x >= 2 * M => d = 2 /\ m = x - 2 * M
  BY <1>1, <1>2, <1>5, <1>7
<1> QED BY <1>8 DEF d, m

(* update_checksum() replaces one word of the sum by another.              *)
LEMMA UpdateFacts ==
  ASSUME NEW c \in Words, NEW old \in Words, NEW new \in Words
  PROVE  LET r == update_checksum(c, old, new) IN
         r \in Words /\ \E k \in Int : r + new = c + old + k * (M - 1)
<1> DEFINE s == Flip(c) + Flip(old) + new
           t == Low(s) + (s \div M)
           w == t + (t \div M)
           r == Flip(Low(w))
<1>1. M \in Nat /\ M >= 4 BY WordFacts
<1>2. c \in 0 .. M - 1 /\ old \in 0 .. M - 1 /\ new \in 0 .. M - 1 BY DEF Words
<1>3. s = (M - 1 - c) + (M - 1 - old) + new /\ s \in Nat /\ s < 3 * M BY <1>1, <1>2 DEF Flip
<1>4. update_checksum(c, old, new) = r BY DEF update_checksum
<1>5. \/ t = s \/ t = s - (M - 1) \/ t = s - 2 * (M - 1)
  BY <1>1, <1>3, Carries DEF Low
<1>6. t \in 0 .. M + 1
  BY <1>1, <1>3, Carries DEF Low
<1> HIDE DEF t, s
<1>7. Low(w) \in 0 .. M - 1 /\ (Low(w) = t \/ Low(w) = t - (M - 1))
  <2>1. CASE t < M
    <3>1. w = t BY <2>1, <1>1, <1>6, Carries
    <3> QED BY <3>1, <2>1, <1>1, <1>6, Carries DEF Low
  <2>2. CASE t >= M
    <3>1. t \in Nat /\ t < 2 * M /\ t < 3 * M BY <1>1, <1>6
    <3>2. w = t + 1 BY <2>2, <3>1, Carries
    <3>3. w \in Nat /\ w >= M /\ w < 2 * M /\ w < 3 * M BY <2>2, <3>2, <1>1, <1>6
    <3>4. Low(w) = w - M BY <3>3, Carries DEF Low
    <3> QED BY <3>2, <3>4, <2>2, <1>1, <1>6
  <2> QED BY <2>1, <2>2, <1>1, <1>6
<1> HIDE DEF w
<1>8. r = M - 1 - Low(w) /\ r \in 0 .. M - 1 BY <1>1, <1>7 DEF Flip
<1>9. PICK j \in {0, 1, 2, 3} : Low(w) = s - j * (M - 1) BY <1>1, <1>3, <1>5, <1>6, <1>7
<1>10. r + new = c + old + (j - 1) * (M - 1) BY <1>1, <1>2, <1>3, <1>8, <1>9
<1>11. j - 1 \in Int OBVIOUS
<1> QED BY <1>4, <1>8, <1>10, <1>11 DEF Words

LEMMA UpdateIpFacts ==
  ASSUME NEW c \in Words, NEW old \in Nat, NEW new \in Nat
  PROVE  LET r == update_checksum_ip(c, old, new) IN
         /\ r \in Words
         /\ \E k \in Int : r + High(new) + Low(new) = c + High(old) + Low(old) + k * (M - 1)
<1> DEFINE b == update_checksum(c, High(old), High(new))
           r == update_checksum(b, Low(old), Low(new))
<1>1. M \in Nat /\ High(old) \in Words /\ High(new) \in Words /\ Low(old) \in Words /\ Low(new) \in Words
  BY WordFacts
<1>2. b \in Words BY <1>1, UpdateFacts
<1>3. PICK k \in Int : b + High(new) = c + High(old) + k * (M - 1) BY <1>1, UpdateFacts
<1> HIDE DEF b
<1>4. r \in Words BY <1>1, <1>2, UpdateFacts
<1>5. PICK j \in Int : r + Low(new) = b + Low(old) + j * (M - 1) BY Zenon, <1>1, <1>2, UpdateFacts
<1> HIDE DEF r
<1>6. Words \subseteq Int BY <1>1 DEF Words
<1> DEFINE ho == High(old)
           hn == High(new)
           lo == Low(old)
           ln == Low(new)
<1>7. ho \in Int /\ hn \in Int /\ lo \in Int /\ ln \in Int /\ b \in Int /\ c \in Int /\ r \in Int
  BY Zenon, <1>1, <1>2, <1>4, <1>6
<1>8. b + hn = c + ho + k * (M - 1) /\ r + ln = b + lo + j * (M - 1) BY <1>3, <1>5
<1> HIDE DEF ho, hn, lo, ln
<1>9. r + hn + ln = c + ho + lo + (k + j) * (M - 1) BY <1>1, <1>7, <1>8
<1>10. k + j \in Int OBVIOUS
<1> QED BY <1>4, <1>9, <1>10 DEF update_checksum_ip, b, r, ho, hn, lo, ln

(* Rewriting both addresses keeps a valid checksum valid.                  *)
LEMMA RewriteKeepsValid ==
  ASSUME NEW w \in Words, NEW s \in Nat, NEW d \in Nat, NEW c \in Words, Valid(w, s, d, c),
         NEW e \in Nat, NEW f \in Nat
  PROVE  LET r == update_checksum_ip(update_checksum_ip(c, s, e), d, f) IN
         r \in Words /\ Valid(w, e, f, r)
<1> DEFINE b == update_checksum_ip(c, s, e)
           r == update_checksum_ip(b, d, f)
           hs == High(s) + Low(s)
           hd == High(d) + Low(d)
           he == High(e) + Low(e)
           hf == High(f) + Low(f)
<1>1. M \in Nat /\ M >= 4 BY WordFacts
<1>2. Words \subseteq Nat BY <1>1 DEF Words
<1>4. \A x \in Nat : High(x) \in Nat /\ Low(x) \in Nat BY Zenon, <1>2, WordFacts
<1>3. hs \in Nat /\ hd \in Nat /\ he \in Nat /\ hf \in Nat /\ c \in Nat /\ w \in Nat
  BY <1>2, <1>4
<1>5. b \in Words BY UpdateIpFacts
<1>6. PICK k \in Int : b + High(e) + Low(e) = c + High(s) + Low(s) + k * (M - 1) BY UpdateIpFacts
<1> HIDE DEF b
<1>7. r \in Words BY <1>5, UpdateIpFacts
<1>8. PICK j \in Int : r + High(f) + Low(f) = b + High(d) + Low(d) + j * (M - 1) BY <1>5, UpdateIpFacts
<1> HIDE DEF r
<1>9. b \in Nat /\ r \in Nat BY <1>2, <1>5, <1>7
<1>10. b + he = c + hs + k * (M - 1) BY <1>1, <1>3, <1>4, <1>6, <1>9
<1>11. r + hf = b + hd + j * (M - 1) BY <1>1, <1>3, <1>4, <1>8, <1>9
<1>12. (w + hs + hd + c) % (M - 1) = 0
  <2>1. w + High(s) + Low(s) + High(d) + Low(d) + c = w + hs + hd + c BY <1>3, <1>4
  <2> QED BY <2>1 DEF Valid
<1>13. w + High(e) + Low(e) + High(f) + Low(f) + r = w + he + hf + r BY <1>3, <1>4, <1>9
<1> HIDE DEF hs, hd, he, hf
<1>14. w + he + hf + r = (w + hs + hd + c) + (k + j) * (M - 1) BY <1>1, <1>3, <1>9, <1>10, <1>11
<1>15. (w + he + hf + r) % (M - 1) = 0
  <2> DEFINE N == M - 1
             x == w + hs + hd + c
             y == w + he + hf + r
             i == k + j
  <2>1. N \in Nat /\ N >= 1 /\ x \in Nat /\ y \in Nat /\ i \in Int /\ y = x + i * N /\ x % N = 0
    BY <1>1, <1>3, <1>9, <1>12, <1>14
  <2> HIDE DEF N, x, y, i
  <2>2. y % N = 0 BY Zenon, <2>1, StaysDivided
  <2> QED BY <2>2 DEF y, N
<1> QED BY <1>7, <1>13, <1>15 DEF Valid, r, b

-----------------------------------------------------------------------------
(* The nat.                                                                *)

PortCount == PORT_END - PORT_START
NatPorts == PORT_START .. PORT_END - 1

NatMaps ==
  /\ NEXT_PORT = [def |-> NEXT_PORT.def, data |-> NEXT_PORT.data]
  /\ NEXT_PORT.def.type = "ARRAY" /\ NEXT_PORT.data \in [{0} -> NatPorts \cup {0}]
  /\ CONNECTIONS = [def |-> CONNECTIONS.def, data |-> CONNECTIONS.data]
  /\ CONNECTIONS.def.type = "HASH" /\ IsFiniteSet(DOMAIN CONNECTIONS.data)
  /\ \A k \in DOMAIN CONNECTIONS.data : CONNECTIONS.data[k] \in Rules

(* The first n ports are in use, by one rule each, and port n is next.     *)
PortsInOrder(n) ==
  /\ n <= PortCount =>
       /\ \A k \in DOMAIN CONNECTIONS.data : CONNECTIONS.data[k].src_port < PORT_START + n
       /\ PortsDistinct
  /\ n < PortCount => next_port = PORT_START + n

(* A rule leads to where a connection with its key goes that has passed.   *)
RulesLead ==
  \A k \in DOMAIN CONNECTIONS.data : \E c \in installed :
    k = Key[c] /\ CONNECTIONS.data[k].dst_ip = c.dst_ip /\ CONNECTIONS.data[k].dst_port = c.dst_port

(* The inductive invariant.                                                *)
NatInv ==
  /\ NatMaps /\ PortsInOrder(Cardinality(DOMAIN CONNECTIONS.data)) /\ RulesLead
  /\ ChecksumValid /\ DestinationKept

LEMMA PortFacts ==
  /\ PORT_START \in Nat /\ PORT_START >= 1 /\ PORT_END \in Nat /\ PORT_START < PORT_END
  /\ PortCount \in Nat /\ PortCount >= 1 /\ NatPorts \subseteq Ports
  /\ Addresses \subseteq Nat
<1>1. PORT_START \in Nat /\ PORT_START >= 1 /\ PORT_END \in Nat /\ PORT_START < PORT_END
  BY NatAssumption DEF Ports
<1>2. PORT_END \in 0 .. 2^P - 1 BY NatAssumption DEF Ports
<1>3. NatPorts \subseteq Ports
  <2> DEFINE T == 2^P
  <2>1. T \in Int BY WordAssumption
  <2>2. PORT_END \in 0 .. T - 1 BY <1>2
  <2> HIDE DEF T
  <2>3. NatPorts \subseteq 0 .. T - 1 BY <1>1, <2>1, <2>2 DEF NatPorts
  <2> QED BY <2>3 DEF Ports, T
<1> QED BY <1>1, <1>3 DEF PortCount, Addresses

LEMMA ConnectionFacts ==
  ASSUME NEW c \in Connections
  PROVE  /\ c.src_ip \in Addresses /\ c.dst_ip \in Addresses /\ c.src_port \in Ports /\ c.dst_port \in Ports
         /\ c.src_ip \in Nat /\ c.dst_ip \in Nat
BY Zenon, NatAssumption, PortFacts

(* next_port() stays among the ports of the nat and goes through them.     *)
LEMMA NextPortFacts ==
  ASSUME NatMaps
  PROVE  /\ next_port \in NatPorts /\ after(next_port) \in NatPorts
         /\ next_port + 1 < PORT_END => after(next_port) = next_port + 1
<1> DEFINE p == NEXT_PORT.data[0]
           x == next_port - PORT_START + 1
<1>1. p \in NatPorts \cup {0} /\ bpf_map_lookup_elem(NEXT_PORT, 0) = p
  BY DEF NatMaps, bpf_map_lookup_elem
<1>2. next_port = IF p = 0 THEN PORT_START ELSE p BY <1>1 DEF next_port
<1> HIDE DEF p
<1>3. next_port \in NatPorts BY <1>1, <1>2, PortFacts DEF NatPorts
<1>4. next_port \in Nat /\ PORT_START <= next_port /\ next_port < PORT_END
  BY <1>3, PortFacts DEF NatPorts
<1>5. x \in Nat /\ x >= 1 /\ x <= PortCount BY <1>4, PortFacts DEF PortCount
<1>6. after(next_port) = PORT_START + (x % PortCount) BY DEF after, PortCount
<1> HIDE DEF x
<1>7. x % PortCount \in 0 .. PortCount - 1 BY <1>5, PortFacts
<1>8. x < PortCount => x % PortCount = x BY <1>5, PortFacts
<1>9. after(next_port) \in NatPorts BY <1>6, <1>7, PortFacts DEF NatPorts, PortCount
<1>10. ASSUME next_port + 1 < PORT_END PROVE after(next_port) = next_port + 1
  <2>1. x < PortCount /\ PORT_START + x = next_port + 1 BY <1>4, <1>10, PortFacts DEF x, PortCount
  <2> QED BY <2>1, <1>6, <1>8
<1> QED BY <1>3, <1>9, <1>10

(* What leaves with rule r.                                                *)
LEMMA RewriteFacts ==
  ASSUME NEW c \in Connections, NEW w \in Rests, NEW k \in Words, Valid(w, c.src_ip, c.dst_ip, k),
         NEW r \in Rules
  PROVE  LET q == apply_rewrite([conn |-> c, rest |-> w, check |-> k], r) IN
         /\ q.conn.dst_ip = r.dst_ip /\ q.conn.dst_port = r.dst_port
         /\ q.check \in Words /\ Valid(q.rest, q.conn.src_ip, q.conn.dst_ip, q.check)
<1> DEFINE p == [conn |-> c, rest |-> w, check |-> k]
           sum == update_checksum_ip(update_checksum_ip(k, c.src_ip, r.src_ip), c.dst_ip, r.dst_ip)
           conn == [src_ip |-> r.src_ip, src_port |-> r.src_port, dst_ip |-> r.dst_ip,
                    dst_port |-> r.dst_port, protocol |-> c.protocol]
           q == apply_rewrite(p, r)
<1>1. r.src_ip \in Nat /\ r.dst_ip \in Nat /\ w \in Words
  <2>1. r.src_ip \in Addresses /\ r.dst_ip \in Addresses BY DEF Rules
  <2> QED BY Zenon, <2>1, PortFacts, NatAssumption
<1>2. sum \in Words /\ Valid(w, r.src_ip, r.dst_ip, sum)
  BY <1>1, ConnectionFacts, RewriteKeepsValid
<1>3. q = [p EXCEPT !.conn = conn, !.check = sum] BY DEF apply_rewrite
<1> HIDE DEF sum, q
<1>4. q.conn = conn /\ q.rest = w /\ q.check = sum BY <1>3
<1>5. conn.src_ip = r.src_ip /\ conn.dst_ip = r.dst_ip /\ conn.dst_port = r.dst_port OBVIOUS
<1> HIDE DEF conn
<1> QED BY <1>2, <1>4, <1>5 DEF q

(* A packet leaves as it has come, or by a rule that leads to where a      *)
(* connection with its key goes.                                           *)
LEMMA SentFacts ==
  ASSUME NEW port, NEW p, NEW q, NEW output, Emit(port, p, q, output),
         q.check \in Words, Valid(q.rest, q.conn.src_ip, q.conn.dst_ip, q.check),
         \E c \in installed' \cup {p.conn} :
           Key[c] = Key[p.conn] /\ q.conn.dst_ip = c.dst_ip /\ q.conn.dst_port = c.dst_port
  PROVE  ChecksumValid' /\ DestinationKept'
<1>1. sent' = [input |-> port, before |-> p, out |-> q, output |-> output] BY DEF Emit
<1>2. sent'.input = port /\ sent'.before = p /\ sent'.out = q BY <1>1
<1>3. ChecksumValid' BY <1>2 DEF ChecksumValid
<1>4. DestinationKept' BY <1>2 DEF DestinationKept
<1> QED BY <1>3, <1>4

LEMMA SameMaps ==
  ASSUME NatInv, UNCHANGED <<NEXT_PORT, CONNECTIONS, installed>>,
         ChecksumValid', DestinationKept'
  PROVE  NatInv'
<1>1. NatMaps' BY DEF NatInv, NatMaps
<1>2. PortsInOrder(Cardinality(DOMAIN CONNECTIONS.data))'
  BY DEF NatInv, PortsInOrder, PortsDistinct, next_port
<1>3. RulesLead' BY DEF NatInv, RulesLead
<1> QED BY <1>1, <1>2, <1>3 DEF NatInv

(* The rule of a connection, NULL if it has none.                          *)
LEMMA LookupFacts ==
  ASSUME NatInv, NEW c \in Connections
  PROVE  LET r == bpf_map_lookup_elem(CONNECTIONS, Key[c]) IN
         /\ r # NULL => /\ Key[c] \in DOMAIN CONNECTIONS.data /\ r \in Rules
                        /\ \E d \in installed :
                             Key[d] = Key[c] /\ r.dst_ip = d.dst_ip /\ r.dst_port = d.dst_port
         /\ r = NULL => Key[c] \notin DOMAIN CONNECTIONS.data
<1> DEFINE data == CONNECTIONS.data
           r == bpf_map_lookup_elem(CONNECTIONS, Key[c])
<1>1. r = IF Key[c] \in DOMAIN data THEN data[Key[c]] ELSE NULL
  BY DEF NatInv, NatMaps, bpf_map_lookup_elem
<1>2. Key[c] \in DOMAIN data => data[Key[c]] \in Rules BY DEF NatInv, NatMaps
<1>3. NULL \notin Rules BY NatAssumption
<1>4. Key[c] \in DOMAIN data => \E d \in installed :
        Key[d] = Key[c] /\ data[Key[c]].dst_ip = d.dst_ip /\ data[Key[c]].dst_port = d.dst_port
  BY DEF NatInv, RulesLead
<1> QED BY <1>1, <1>2, <1>3, <1>4

LEMMA FromInsideStep ==
  ASSUME NatInv, NEW c \in Connections, NEW w \in Rests, NEW k \in Words,
         Valid(w, c.src_ip, c.dst_ip, k), NEW port,
         FromInside(port, [conn |-> c, rest |-> w, check |-> k], bpf_map_lookup_elem(CONNECTIONS, Key[c]))
  PROVE  NatInv'
<1> DEFINE p == [conn |-> c, rest |-> w, check |-> k]
           x == next_port
           rule == value_to(c, x)
           key == Key[c]
           old == CONNECTIONS.data
           new == Put(old, key, rule)
           n == Cardinality(DOMAIN old)
<1>1. /\ key \notin DOMAIN old
      /\ NEXT_PORT' = bpf_map_update_elem(NEXT_PORT, 0, after(x))
      /\ CONNECTIONS' = bpf_map_update_elem(bpf_map_update_elem(CONNECTIONS, key, rule), key, rule)
      /\ Emit(port, p, apply_rewrite(p, rule), port)
      /\ installed' = installed \cup {c}
  <2>1. p.conn = c OBVIOUS
  <2> QED BY <2>1, LookupFacts DEF FromInside
<1>2. NatMaps BY DEF NatInv
<1>3. x \in NatPorts /\ after(x) \in NatPorts /\ (x + 1 < PORT_END => after(x) = x + 1)
  BY <1>2, NextPortFacts
<1>4. rule \in Rules /\ rule.src_port = x /\ rule.dst_ip = c.dst_ip /\ rule.dst_port = c.dst_port
  BY <1>3, ConnectionFacts, PortFacts, NatAssumption DEF value_to, Rules
<1> HIDE DEF rule
<1>5. ChecksumValid' /\ DestinationKept'
  <2> DEFINE q == apply_rewrite(p, rule)
  <2>1. /\ q.conn.dst_ip = c.dst_ip /\ q.conn.dst_port = c.dst_port
        /\ q.check \in Words /\ Valid(q.rest, q.conn.src_ip, q.conn.dst_ip, q.check)
    BY <1>4, RewriteFacts, Zenon
  <2> HIDE DEF q
  <2>2. Emit(port, p, q, port) /\ p.conn = c BY <1>1 DEF q
  <2> QED BY <2>1, <2>2, SentFacts
<1>6. CONNECTIONS' = [def |-> CONNECTIONS.def, data |-> new]
  <2> DEFINE once == [def |-> CONNECTIONS.def, data |-> new]
  <2>1. bpf_map_update_elem(CONNECTIONS, key, rule) = once
    BY <1>2 DEF NatMaps, bpf_map_update_elem
  <2>2. Put(new, key, rule) = new BY DEF Put
  <2>3. bpf_map_update_elem(once, key, rule) = [once EXCEPT !.data = Put(new, key, rule)]
    BY <1>2 DEF NatMaps, bpf_map_update_elem
  <2> HIDE DEF new
  <2> QED BY <1>1, <2>1, <2>2, <2>3
<1>7. /\ DOMAIN new = DOMAIN old \cup {key} /\ new[key] = rule
      /\ \A l \in DOMAIN old : new[l] = old[l]
  BY <1>1 DEF Put
<1> HIDE DEF new
<1>8. CONNECTIONS'.def = CONNECTIONS.def /\ CONNECTIONS'.data = new BY <1>6
<1>9. /\ NEXT_PORT' = [def |-> NEXT_PORT'.def, data |-> NEXT_PORT'.data] /\ NEXT_PORT'.def.type = "ARRAY"
      /\ NEXT_PORT'.data \in [{0} -> NatPorts \cup {0}] /\ NEXT_PORT'.data[0] = after(x)
  <2> DEFINE d == [NEXT_PORT.data EXCEPT ![0] = after(x)]
  <2>1. NEXT_PORT' = [NEXT_PORT EXCEPT !.data[0] = after(x)]
    BY <1>1, <1>2 DEF NatMaps, bpf_map_update_elem
  <2>2. NEXT_PORT' = [def |-> NEXT_PORT.def, data |-> d] BY <2>1, <1>2 DEF NatMaps
  <2>3. d \in [{0} -> NatPorts \cup {0}] /\ d[0] = after(x) BY <1>2, <1>3 DEF NatMaps
  <2> HIDE DEF d
  <2>4. NEXT_PORT'.def = NEXT_PORT.def /\ NEXT_PORT'.data = d BY <2>2
  <2> QED BY <2>2, <2>3, <2>4, <1>2 DEF NatMaps
<1>10. /\ IsFiniteSet(DOMAIN new) /\ Cardinality(DOMAIN new) = n + 1 /\ n \in Nat
  <2>1. IsFiniteSet(DOMAIN old) BY <1>2 DEF NatMaps
  <2>2. n \in Nat BY <2>1, FS_CardinalityType, Zenon
  <2>3. key \notin DOMAIN old BY <1>1
  <2>4. PICK S : S = DOMAIN old OBVIOUS
  <2>5. IsFiniteSet(S \cup {key}) /\ Cardinality(S \cup {key}) = Cardinality(S) + 1
    <3>1. key \notin S /\ IsFiniteSet(S) BY <2>1, <2>3, <2>4, Zenon
    <3> HIDE DEF key
    <3> QED BY <3>1, FS_AddElement
  <2> QED BY <2>2, <2>4, <2>5, <1>7, Zenon
<1>11. NatMaps' BY <1>2, <1>4, <1>6, <1>7, <1>8, <1>9, <1>10 DEF NatMaps
<1>12. RulesLead'
  <2>1. ASSUME NEW l \in DOMAIN new
        PROVE  \E d \in installed' : l = Key[d] /\ new[l].dst_ip = d.dst_ip /\ new[l].dst_port = d.dst_port
    <3>1. CASE l \in DOMAIN old
      <4>1. \E d \in installed : l = Key[d] /\ old[l].dst_ip = d.dst_ip /\ old[l].dst_port = d.dst_port
        BY <3>1, Zenon DEF NatInv, RulesLead
      <4> QED BY <3>1, <4>1, <1>1, <1>7, Zenon
    <3>2. CASE l = key BY <3>2, <1>1, <1>4, <1>7, Zenon
    <3> QED BY <2>1, <3>1, <3>2, <1>7, Zenon
  <2> QED BY <2>1, <1>8, Zenon DEF RulesLead
<1>13. next_port' = after(x)
  <2>1. bpf_map_lookup_elem(NEXT_PORT', 0) = after(x) BY <1>9 DEF bpf_map_lookup_elem
  <2>2. after(x) # 0 BY <1>3, PortFacts DEF NatPorts
  <2> QED BY <2>1, <2>2 DEF next_port
<1>14. PICK N \in Nat : N = n BY <1>10
<1>15. PICK y \in NatPorts : y = x BY <1>3
<1>16. PortsInOrder(N + 1)'
  <2> HIDE DEF n, x
  <2>1. CASE N + 1 <= PortCount
    <3>1. N <= PortCount /\ N < PortCount BY <2>1, PortFacts
    <3>2. /\ \A l \in DOMAIN old : old[l].src_port < PORT_START + N
          /\ PortsDistinct /\ y = PORT_START + N
      BY <3>1, <1>14, <1>15 DEF NatInv, PortsInOrder, n, x
    <3>3. \A l, j \in DOMAIN old : old[l].src_port = old[j].src_port => l = j
      BY <3>1, <3>2, <1>14 DEF PortsDistinct, PortCount, n
    <3>4. \A l \in DOMAIN old : old[l].src_port \in Int
      BY <1>2 DEF NatMaps, Rules, Ports
    <3>5. \A l \in DOMAIN old : old[l].src_port # y BY <3>2, <3>4, PortFacts
    <3>6. \A l, j \in DOMAIN new : new[l].src_port = new[j].src_port => l = j
      BY <3>3, <3>5, <1>4, <1>7, <1>15, Zenon
    <3>7. \A l \in DOMAIN new : new[l].src_port < PORT_START + (N + 1)
      <4> SUFFICES ASSUME NEW l \in DOMAIN new PROVE new[l].src_port < PORT_START + (N + 1) OBVIOUS
      <4>1. CASE l \in DOMAIN old
        <5>1. new[l].src_port = old[l].src_port BY <4>1, <1>7
        <5>2. old[l].src_port < PORT_START + N /\ old[l].src_port \in Int BY <4>1, <3>2, <3>4
        <5> HIDE DEF new, old
        <5>3. PORT_START \in Nat BY PortFacts
        <5> QED BY <5>1, <5>2, <5>3
      <4>2. CASE l = key
        <5>1. new[l].src_port = y BY <4>2, <1>4, <1>7, <1>15
        <5>2. PORT_START \in Nat BY PortFacts
        <5> QED BY <5>1, <5>2, <3>2
      <4> QED BY <4>1, <4>2, <1>7
    <3>8. N + 1 < PortCount => next_port' = PORT_START + (N + 1)
      <4>1. PORT_START \in Nat /\ PORT_END \in Nat BY PortFacts
      <4>2. y + 1 < PORT_END => next_port' = y + 1 BY <1>3, <1>13, <1>15, Zenon
      <4>3. y = PORT_START + N BY <3>2
      <4>4. PortCount = PORT_END - PORT_START BY DEF PortCount
      <4>5. N + 1 < PortCount => y + 1 < PORT_END BY <4>1, <4>3, <4>4
      <4>6. y + 1 = PORT_START + (N + 1) BY <4>1, <4>3
      <4> QED BY <4>2, <4>5, <4>6, Zenon
    <3> QED BY <3>6, <3>7, <3>8, <1>8 DEF PortsInOrder, PortsDistinct
  <2>2. CASE ~(N + 1 <= PortCount)
    <3>1. ~(N + 1 < PortCount) BY <2>2, PortFacts
    <3> QED BY <2>2, <3>1 DEF PortsInOrder
  <2> QED BY <2>1, <2>2
<1>17. Cardinality(DOMAIN CONNECTIONS'.data) = N + 1 BY <1>8, <1>10, <1>14
<1>18. PortsInOrder(Cardinality(DOMAIN CONNECTIONS.data))'
  BY <1>16, <1>17
<1> QED BY <1>5, <1>11, <1>12, <1>18, Zenon DEF NatInv

LEMMA NatInitInv == NatInit => NatInv
<1> SUFFICES ASSUME NatInit PROVE NatInv OBVIOUS
<1> DEFINE pd == [type |-> "ARRAY", key_size |-> 4, value_size |-> 4, max_entries |-> 1]
           cd == [type |-> "HASH", key_size |-> 16, value_size |-> 20, max_entries |-> 1028]
           d == [i \in 0 .. pd.max_entries - 1 |-> Zero]
           e == [i \in {} |-> Zero]
<1>1. NEXT_PORT = [def |-> pd, data |-> d] BY DEF NatInit, Fresh
<1>2. CONNECTIONS = [def |-> cd, data |-> e] BY DEF NatInit, Fresh
<1>3. d \in [{0} -> NatPorts \cup {0}] /\ d[0] = 0 BY DEF Zero
<1>4. DOMAIN e = {} OBVIOUS
<1> HIDE DEF d, e
<1>5. NEXT_PORT.def = pd /\ NEXT_PORT.data = d /\ CONNECTIONS.def = cd /\ CONNECTIONS.data = e BY <1>1, <1>2
<1>6. pd.type = "ARRAY" /\ cd.type = "HASH" OBVIOUS
<1>7. Cardinality({}) = 0 /\ IsFiniteSet({}) BY FS_EmptySet
<1>8. NatMaps BY <1>1, <1>2, <1>3, <1>4, <1>5, <1>6, <1>7 DEF NatMaps
<1>9. next_port = PORT_START BY <1>3, <1>5, <1>6 DEF next_port, bpf_map_lookup_elem
<1>10. PortsInOrder(0) BY <1>4, <1>5, <1>9, PortFacts DEF PortsInOrder, PortsDistinct
<1>11. RulesLead BY <1>4, <1>5 DEF RulesLead
<1>12. sent = NULL BY DEF NatInit
<1> QED BY <1>4, <1>5, <1>7, <1>8, <1>10, <1>11, <1>12 DEF NatInv, ChecksumValid, DestinationKept

LEMMA ClassifyStep ==
  ASSUME NatInv, NEW port, NEW c \in Connections, NEW w \in Rests, NEW k \in Words,
         Valid(w, c.src_ip, c.dst_ip, k), try_classify(port, [conn |-> c, rest |-> w, check |-> k])
  PROVE  NatInv'
<1> DEFINE p == [conn |-> c, rest |-> w, check |-> k]
           r == bpf_map_lookup_elem(CONNECTIONS, Key[c])
<1>1. p.conn = c /\ p.rest = w /\ p.check = k OBVIOUS
<1>2. Abort(port, p) \/ Known(port, p, r) \/ FromOutside(port, p, r) \/ FromInside(port, p, r)
  BY <1>1 DEF try_classify
<1>3. CASE Abort(port, p)
  <2>1. ChecksumValid' /\ DestinationKept' BY <1>1, <1>3, SentFacts DEF Abort
  <2> QED BY <2>1, <1>3, SameMaps DEF Abort
<1>4. CASE FromOutside(port, p, r)
  <2>1. ChecksumValid' /\ DestinationKept' BY <1>1, <1>4, SentFacts DEF FromOutside
  <2> QED BY <2>1, <1>4, SameMaps DEF FromOutside
<1>5. CASE Known(port, p, r)
  <2> DEFINE q == apply_rewrite(p, r)
  <2>1. /\ r \in Rules
        /\ \E d \in installed : Key[d] = Key[c] /\ r.dst_ip = d.dst_ip /\ r.dst_port = d.dst_port
    BY <1>5, LookupFacts, Zenon DEF Known
  <2>2. /\ q.conn.dst_ip = r.dst_ip /\ q.conn.dst_port = r.dst_port
        /\ q.check \in Words /\ Valid(q.rest, q.conn.src_ip, q.conn.dst_ip, q.check)
    BY <2>1, RewriteFacts
  <2>3. Emit(port, p, q, r.output % OUTPUTS) /\ UNCHANGED <<NEXT_PORT, CONNECTIONS, installed>> BY <1>5 DEF Known
  <2> HIDE DEF q, r
  <2>4. ChecksumValid' /\ DestinationKept' BY <1>1, <2>1, <2>2, <2>3, SentFacts
  <2> QED BY <2>3, <2>4, SameMaps
<1>6. CASE FromInside(port, p, r) BY <1>6, FromInsideStep
<1> QED BY <1>2, <1>3, <1>4, <1>5, <1>6

LEMMA NatInvariance == NatSpec => []NatInv
<1>1. ASSUME NatInv, [NatNext]_natVars PROVE NatInv'
  <2>1. CASE NatNext BY <1>1, <2>1, ClassifyStep DEF NatNext
  <2>2. CASE UNCHANGED natVars
    <3>1. ChecksumValid' /\ DestinationKept'
      BY <1>1, <2>2 DEF natVars, NatInv, ChecksumValid, DestinationKept
    <3> QED BY <1>1, <2>2, <3>1, SameMaps DEF natVars
  <2> QED BY <1>1, <2>1, <2>2
<1> QED BY <1>1, NatInitInv, PTL DEF NatSpec

(* Translation is sound for every port range and word width, whatever the  *)
(* connections: until its ports are used up the nat gives every connection *)
(* a port of its own; each packet goes where the first connection with its *)
(* key goes, and has a checksum that the receiver accepts.                 *)
THEOREM Translation == NatSpec => []TranslationSound
<1>1. NatInv => PortsDistinct
  <2> SUFFICES ASSUME NatInv, Cardinality(DOMAIN CONNECTIONS.data) <= PORT_END - PORT_START
               PROVE  PortsDistinct
    BY DEF PortsDistinct
  <2> QED BY DEF NatInv, PortsInOrder, PortCount
<1>2. NatInv => TranslationSound BY <1>1 DEF NatInv, TranslationSound, RewriteSound
<1> QED BY <1>2, NatInvariance, PTL

(* No packet, of whatever connection, changes a rule that is installed.    *)
THEOREM RulesKept == NatSpec => RulesStable
<1> DEFINE A == \A k \in DOMAIN CONNECTIONS.data :
                  k \in DOMAIN CONNECTIONS'.data /\ CONNECTIONS'.data[k] = CONNECTIONS.data[k]
<1>1. ASSUME NatInv, NatNext PROVE A
  <2>1. PICK port \in InputPorts, c \in Connections, w \in Rests, k \in Words :
          try_classify(port, [conn |-> c, rest |-> w, check |-> k])
    BY <1>1 DEF NatNext
  <2> DEFINE p == [conn |-> c, rest |-> w, check |-> k]
             r == bpf_map_lookup_elem(CONNECTIONS, Key[c])
             rule == value_to(c, next_port)
  <2>2. p.conn = c OBVIOUS
  <2>3. UNCHANGED CONNECTIONS \/ FromInside(port, p, r)
    BY <2>1, <2>2 DEF try_classify, Abort, Known, FromOutside
  <2>4. CASE FromInside(port, p, r)
    <3>1. /\ Key[c] \notin DOMAIN CONNECTIONS.data
          /\ CONNECTIONS' = bpf_map_update_elem(bpf_map_update_elem(CONNECTIONS, Key[c], rule), Key[c], rule)
      BY <1>1, <2>2, <2>4, LookupFacts DEF FromInside
    <3> DEFINE d == Put(CONNECTIONS.data, Key[c], rule)
               e == Put(d, Key[c], rule)
    <3>2. bpf_map_update_elem(CONNECTIONS, Key[c], rule) = [def |-> CONNECTIONS.def, data |-> d]
      BY <1>1 DEF NatInv, NatMaps, bpf_map_update_elem
    <3>3. bpf_map_update_elem([def |-> CONNECTIONS.def, data |-> d], Key[c], rule)
            = [def |-> CONNECTIONS.def, data |-> e]
      BY <1>1 DEF NatInv, NatMaps, bpf_map_update_elem
    <3>4. \A l \in DOMAIN CONNECTIONS.data : l \in DOMAIN e /\ e[l] = CONNECTIONS.data[l]
      BY <3>1 DEF Put
    <3> HIDE DEF d, e, rule
    <3>5. CONNECTIONS'.data = e BY <3>1, <3>2, <3>3
    <3> QED BY SMTT(30), <3>4, <3>5
  <2> QED BY <2>3, <2>4
<1>2. ASSUME NatInv, [NatNext]_natVars PROVE [A]_natVars
  BY <1>1, <1>2
<1> QED BY <1>2, NatInvariance, PTL DEF NatSpec, RulesStable
=============================================================================
