--------------------------- MODULE ControlMessage --------------------------
(* Control messages: the helper program encodes a request to exchange a       *)
(* program (helper/src/main.rs), UDP carries it, Control::push decodes it and *)
(* calls the config handler of the elements it is for (control.cc).           *)
EXTENDS Integers, Sequences, FiniteSets

CONSTANTS
  BASE,              \* values of a byte, 256
  U64,               \* bytes of a length or an id, 8
  UDP_HEADER,        \* bytes of the UDP header, which uh_ulen counts, 8
  Prefix,            \* "control"
  OtherPrefix,       \* the beginning of some other UDP data
  Requests,          \* <<program name, signature>>, both sequences of bytes
  Elements,          \* the router's elements: [class, id, config], in order
  MaxSent            \* bound: requests sent

BpfClasses == {"BPFilter", "BPFClassifier", "BPFRewriter"}

Bytes == 0 .. BASE - 1

\* What is left of a number when its i lowest bytes have been shifted out.
Shifted(n) == LET left[i \in 0 .. U64] == IF i = 0 THEN n ELSE left[i - 1] \div BASE IN left

\* U64 bytes hold the number.
Fits(n) == Shifted(n)[U64] = 0

ASSUME MessageAssumption ==
  /\ BASE \in Nat \ {0, 1} /\ U64 \in Nat \ {0} /\ UDP_HEADER \in Nat /\ MaxSent \in Nat
  /\ Prefix \in Seq(Bytes) /\ OtherPrefix \in Seq(Bytes)
  /\ Len(Prefix) = Len(OtherPrefix) /\ Prefix # OtherPrefix
  /\ Len(Prefix) + 3 * U64 <= BASE
  /\ \A r \in Requests :
       /\ r = <<r[1], r[2]>> /\ r[1] \in Seq(Bytes) /\ r[2] \in Seq(Bytes)
       /\ Fits(Len(r[1])) /\ Fits(Len(r[2]))

VARIABLES
  requested,         \* history: the requests that were sent
  wire,              \* datagrams under way: UDP may lose, repeat and reorder them
  pushed,            \* history: datagrams that Control has seen
  calls              \* history: calls of config handlers, <<element, request>>

controlVars == <<requested, wire, pushed, calls>>

\* to_le_bytes of a 64-bit number.
to_le_bytes(n) == [i \in 1 .. U64 |-> Shifted(n)[i - 1] % BASE]

\* The number that U64 bytes of data at an offset are, least byte first.
ReadU64(data, offset) ==
  LET from[i \in 0 .. U64] == IF i = U64 THEN 0 ELSE data[offset + i + 1] + BASE * from[i + 1]
  IN  from[0]

\* What the helper sends, always for the element with id 1.
Encoded(prefix, name, signature) ==
  prefix \o to_le_bytes(1) \o to_le_bytes(Len(name)) \o name
         \o to_le_bytes(Len(signature)) \o signature

ControlInit == requested = {} /\ wire = {} /\ pushed = {} /\ calls = {}

reconfigure(name, signature) ==
  /\ Cardinality(requested) < MaxSent
  /\ requested' = requested \cup {<<name, signature>>}
  /\ wire' = wire \cup {Encoded(Prefix, name, signature)}
  /\ UNCHANGED <<pushed, calls>>

\* Something else comes to the port of the control packets.
SendOther ==
  /\ wire' = wire \cup {Encoded(OtherPrefix, <<>>, <<>>)}
  /\ UNCHANGED <<requested, pushed, calls>>

Lose(data) ==
  /\ wire' = wire \ {data}
  /\ UNCHANGED <<requested, pushed, calls>>

-----------------------------------------------------------------------------
\* Control::push looks at uh_ulen as it is in memory: its two bytes swapped.
UhUlen(data) ==
  LET len == UDP_HEADER + Len(data)
  IN ((len % BASE) * BASE) + ((len \div BASE) % BASE)

MinLen == Len(Prefix) + 3 * U64

\* Where the fields are, from the lengths read on the way.
NameAt == Len(Prefix) + 2 * U64
NameLen(data) == ReadU64(data, Len(Prefix) + U64)
SigLenAt(data) == NameAt + NameLen(data)
SigAt(data) == SigLenAt(data) + U64
SigLen(data) == ReadU64(data, SigLenAt(data))

Accepts(data) ==
  /\ UhUlen(data) >= MinLen
  /\ SubSeq(data, 1, Len(Prefix)) = Prefix
  /\ NameAt + NameLen(data) <= Len(data)
  /\ SigAt(data) + SigLen(data) <= Len(data)

Decoded_bug(data) ==
  <<SubSeq(data, NameAt + 1, NameAt + NameLen(data)),
    SubSeq(data, SigLenAt(data) + 1, SigLenAt(data) + SigLen(data))>>

Decoded(data) ==
  <<SubSeq(data, NameAt + 1, NameAt + NameLen(data)),
    SubSeq(data, SigAt(data) + 1, SigAt(data) + SigLen(data))>>

\* The elements whose config handler is called.
Addressed(id) ==
  {i \in DOMAIN Elements : /\ Elements[i].class \in BpfClasses
                           /\ Elements[i].id = id
                           /\ Elements[i].config}

Control_push(data) ==
  /\ pushed' = pushed \cup {data}
  /\ calls' = calls \cup
       IF Accepts(data)
       THEN Addressed(ReadU64(data, Len(Prefix))) \X {Decoded(data)}
       ELSE {}
  /\ UNCHANGED <<requested, wire>>          \* it may come again

ControlNext ==
  \/ \E r \in Requests : reconfigure(r[1], r[2])
  \/ SendOther
  \/ \E data \in wire : Lose(data) \/ Control_push(data)

ControlSpec == ControlInit /\ [][ControlNext]_controlVars

-----------------------------------------------------------------------------
\* UDP lengths that look too short with their bytes swapped.
TakenForShort(len) == len % BASE = 0 /\ (len \div BASE) % BASE < MinLen

\* The handlers that are called are those of the BPF elements with the id, each
\* with the name and the signature of one request that was sent and has come:
\* nothing is cut off, mixed up or left out, whatever else comes, comes twice or
\* in another order. Excepted are requests whose UDP length is a multiple of 256
\* below 31 * 256: control.cc compares the length field without swapping its
\* bytes and refuses them as too short. push() kills the packet before it reads
\* it: the property is about memory that still holds the packet's bytes.
CallsExact ==
  calls = UNION {Addressed(1) \X {r} : r \in
            {q \in requested : LET data == Encoded(Prefix, q[1], q[2])
                               IN data \in pushed /\ ~TakenForShort(UDP_HEADER + Len(data))}}
=============================================================================
