--------------------------- MODULE PacketPrograms ---------------------------
(***************************************************************************)
(* The small programs of ebpf/src/bin: dns-filter, target-port, firewall,  *)
(* udp-tcp-classifier, which look at the headers of one packet, and        *)
(* round-robin, whose counter all packet threads share: exec() is under    *)
(* the read lock only.                                                     *)
(*                                                                         *)
(* A frame is what the programs read of it: its length, its types, the     *)
(* length of the IP header in words, the port after that header, the word  *)
(* that lies 20 bytes into the IP header (the port, if there are no        *)
(* options), the length in the UDP header and the names asked for.         *)
(***************************************************************************)
EXTENDS BpfHelpers, Sequences

CONSTANTS
  Frames,         \* frames with an Ethernet header
  Threads,        \* packet threads of the round-robin classifier
  CounterWidth,   \* 32
  MaxTurns        \* bound on the packets classified

ASSUME TurnAssumption ==
  /\ CounterWidth \in Nat \ {0} /\ 2^CounterWidth >= 2 /\ 2^CounterWidth % 2 = 0
  /\ MaxTurns \in Nat
  /\ NULL \notin 0 .. 2^CounterWidth - 1

ASSUME FrameAssumption ==
  /\ NULL \notin Frames
  /\ \A f \in Frames : f.len \in Nat /\ f.ihl \in Nat /\ f.udp_len \in Nat

VARIABLES
  frame,                   \* the frame seen last, NULL before
  PKTCOUNTER,
  held,                    \* per thread: the counter it has read, NULL outside the program
  turns, lastOutput,       \* packets classified; output of the last one, NULL if it was not alone
  alone                    \* no two packets have been in the program at once since then

turnVars == <<PKTCOUNTER, held, turns, lastOutput, alone>>
programVars == <<frame, turnVars>>

ETH == 14
IP4 == 20
TCPLen == 20
UDPLen == 8
DnsHeader == 12
DNS_PORT == 53
Blocked == "lmu.de"

-----------------------------------------------------------------------------
(* BpfContext                                                              *)

get_ptr_bug(f, offset, size) == offset <= f.len

get_ptr(f, offset, size) == offset + size <= f.len

get_slice(f, size, offset) == size <= 50000 /\ offset + size <= f.len

IhlBytes(f) == 4 * f.ihl
PortLen(f) == IF f.proto = "tcp" THEN TCPLen ELSE UDPLen

(* The word at the place of a destination port, i bytes into the IP header.*)
PortAt(f, i) == IF i = IhlBytes(f) THEN f.dest ELSE f.word20

(* The questions are gone through until one decides.                       *)
Questions(f) ==
  LET decisive == {i \in DOMAIN f.names : f.names[i] \in {Blocked, "malformed"}}
  IN  IF decisive = {} THEN "Pass" ELSE "Drop"

(* dns-filter, as the set of its outcomes: without the 12 bytes of a DNS   *)
(* header unwrap() panics, and panic() is unreachable_unchecked().         *)
dns_filter(f) ==
  IF ~get_ptr(f, 0, ETH) THEN {"Abort"}
  ELSE IF f.type # "Ipv4" THEN {"Pass"}
  ELSE IF ~get_ptr(f, ETH, IP4) THEN {"Abort"}
  ELSE IF IhlBytes(f) < IP4 \/ f.proto # "udp" THEN {"Pass"}
  ELSE IF ~get_ptr(f, ETH + IhlBytes(f), UDPLen) THEN {"Abort"}
  ELSE IF PortAt(f, IhlBytes(f)) # DNS_PORT THEN {"Pass"}
  ELSE IF ~get_slice(f, f.udp_len, ETH + IhlBytes(f) + UDPLen) THEN {"Abort"}
  ELSE IF f.udp_len < DnsHeader THEN {"Abort", "Drop", "Pass"}
  ELSE {Questions(f)}

(* An IP header without options begins at start, and a whole TCP or UDP    *)
(* header follows.                                                         *)
PortReached(f, start) ==
  get_ptr(f, start, IP4) /\ f.proto \in {"tcp", "udp"} /\ get_ptr(f, start + IP4, PortLen(f))

(* target-port, which gets packets without Ethernet header: start is 0.    *)
target_port(f) ==
  IF ~PortReached(f, 0) THEN "Abort" ELSE IF PortAt(f, IP4) = 12345 THEN "Drop" ELSE "Pass"

EthernetIp(f) == get_ptr(f, 0, ETH) /\ f.type = "Ipv4"

firewall(f) ==
  IF EthernetIp(f) /\ PortReached(f, ETH) /\ PortAt(f, IP4) = 1000 THEN "Pass" ELSE "Drop"

udp_tcp_classifier(f) ==
  IF EthernetIp(f) /\ get_ptr(f, ETH, IP4) /\ IhlBytes(f) >= IP4 /\ f.proto \in {"udp", "tcp"}
    THEN (IF f.proto = "udp" THEN "Udp" ELSE "Tcp")
    ELSE "Rest"

See(f) == frame' = f /\ UNCHANGED turnVars

-----------------------------------------------------------------------------
(* round-robin                                                             *)

OUTPUTS_RR == 2

ProgramInit ==
  /\ frame = NULL
  /\ PKTCOUNTER = Fresh([type |-> "ARRAY", key_size |-> 4, value_size |-> 4, max_entries |-> 1])
  /\ held = [t \in Threads |-> NULL]
  /\ turns = 0 /\ lastOutput = NULL /\ alone = TRUE

(* The program reads the counter, ...                                      *)
read_counter(t) ==
  /\ held[t] = NULL /\ turns < MaxTurns
  /\ held' = [held EXCEPT ![t] = bpf_map_lookup_elem(PKTCOUNTER, 0)]
  /\ turns' = turns + 1
  /\ alone' = (alone /\ \A u \in Threads : held[u] = NULL)
  /\ UNCHANGED <<frame, PKTCOUNTER, lastOutput>>

Incremented_bug(n) == IF n + 1 < 2^CounterWidth THEN n + 1 ELSE n

Incremented(n) == (n + 1) % 2^CounterWidth

(* ... stores it incremented, and returns the output.                      *)
write_counter(t) ==
  /\ held[t] # NULL
  /\ PKTCOUNTER' = bpf_map_update_elem(PKTCOUNTER, 0, Incremented(held[t]))
  /\ held' = [held EXCEPT ![t] = NULL]
  /\ lastOutput' = IF alone THEN held[t] % OUTPUTS_RR ELSE NULL
  /\ alone' = (alone \/ \A u \in Threads \ {t} : held[u] = NULL)
  /\ UNCHANGED <<frame, turns>>

(* The header programs keep nothing, so that one frame shows all of them.  *)
ProgramNext ==
  /\ frame = NULL
  /\ \/ turns = 0 /\ \E f \in Frames : See(f)
     \/ \E t \in Threads : read_counter(t) \/ write_counter(t)

ProgramSpec == ProgramInit /\ [][ProgramNext]_programVars

-----------------------------------------------------------------------------
Whole(f, start) == start + IhlBytes(f) + PortLen(f) <= f.len

(* "`dns-filter` blocks all DNS resolutions against a specific domain":    *)
(* a query over UDP whose headers and length are in order does not pass if *)
(* it asks for that domain, wherever the options end and whatever is asked *)
(* before.                                                                 *)
DnsBlocked ==
  frame # NULL /\ frame.type = "Ipv4" /\ frame.proto = "udp" /\ IhlBytes(frame) >= IP4
    /\ Whole(frame, ETH) /\ frame.dest = DNS_PORT /\ frame.udp_len >= DnsHeader
    /\ (\E i \in DOMAIN frame.names : frame.names[i] = Blocked)
  => "Pass" \notin dns_filter(frame)

(* "`target-port` blocks all packets to a specific port": for IP headers   *)
(* without options target-port and firewall decide by the port of the      *)
(* packet, and by no byte beyond its end: what is cut off before the end   *)
(* of its headers is never passed, nor classified without an IP header.    *)
PortDecides ==
  frame # NULL /\ IhlBytes(frame) = IP4 =>
    /\ target_port(frame) = "Pass" => Whole(frame, 0) /\ frame.dest # 12345
    /\ firewall(frame) = "Pass" => Whole(frame, ETH) /\ frame.dest = 1000
    /\ udp_tcp_classifier(frame) # "Rest" => ETH + IP4 <= frame.len

(* The filters decide by the packet they were given, and all of it.        *)
PacketVerdicts == DnsBlocked /\ PortDecides

(* Packets take turns: two that go through the program one after the other *)
(* get different outputs, also when the counter wraps and when packets in  *)
(* other threads have overlapped and lost counts before.                   *)
TakesTurns ==
  [][\A t \in Threads : held[t] # NULL /\ held'[t] = NULL /\ alone /\ lastOutput # NULL
       => held[t] % OUTPUTS_RR # lastOutput]_programVars
=============================================================================
