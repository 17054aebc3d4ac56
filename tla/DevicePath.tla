----------------------------- MODULE DevicePath ----------------------------
(* The way of a packet from the network to the network: FromDevice takes it   *)
(* from the receive queue, a BPF element decides about it, ToDevice sends it. *)
(* Who owns the packet changes on the way; each owner has to pass it on or    *)
(* kill it.                                                                   *)
(*                                                                            *)
(* take_packets runs in the callback of the receive interrupt and, called by  *)
(* a write handler, in another thread; the element's lock may suspend either. *)
(* Each context handles one packet at a time. Its copies in memory are the    *)
(* slots "p" (as it was made), "unique" (after uniqueify) and "grown" (after  *)
(* bpf_packet_add_space).                                                     *)
EXTENDS Integers, FiniteSets

CONSTANTS
  Contexts,          \* the callback and the handler
  Callback,          \* the former
  Cases,             \* <<class, shared, ret>>: element, is the packet shared, what exec returns
  MemoryMayFail,     \* uniqueify and uk_netbuf_alloc_buf may return NULL
  MaxArrivals        \* bound: packets from the network

Slots == {"p", "unique", "grown"}
Classes == {"BPFilter", "BPFClassifier", "BPFRewriter"}

ASSUME PathAssumption ==
  /\ Callback \in Contexts
  /\ IsFiniteSet(Contexts)
  /\ Cases \subseteq Classes \X BOOLEAN \X Int
  /\ MemoryMayFail \in BOOLEAN
  /\ MaxArrivals \in Nat

VARIABLES
  class,             \* class of the element between the devices
  arrivals,          \* packets that have arrived so far
  rxq,               \* packets in the receive queue
  intr,              \* the queue will raise an interrupt
  raised,            \* it has, the callback has not started
  pc, more,          \* per context: place in take_packets, status of uk_netdev_rx_one
  heap,              \* per context: what the slots hold
  out,               \* per context: the slot the element goes on with (p_out)
  ret,               \* per context: what exec returned
  nomem,             \* per context: ToDevice found no memory for this packet
  misuse,            \* per context: the packet was used after its end
  _bcount, _filtered      \* _count and _filtered of BPFilter

rxVars == <<arrivals, rxq, intr, raised>>
counters == <<_bcount, _filtered>>
pathVars == <<class, rxVars, pc, more, heap, out, ret, nomem, misuse, counters>>

NoPacket == [s \in Slots |-> "none"]

\* BPFilter's constructor leaves its counters as they are.
PathInit ==
  /\ class \in Classes
  /\ arrivals = 0 /\ rxq = 0 /\ intr = TRUE /\ raised = FALSE
  /\ pc = [c \in Contexts |-> "idle"]
  /\ more = [c \in Contexts |-> FALSE]
  /\ heap = [c \in Contexts |-> NoPacket]
  /\ out = [c \in Contexts |-> "p"]
  /\ ret = [c \in Contexts |-> 0]
  /\ nomem = [c \in Contexts |-> FALSE]
  /\ misuse = [c \in Contexts |-> FALSE]
  /\ _bcount \in {0, 1} /\ _filtered \in {0, 1}

-----------------------------------------------------------------------------
(* The network device. It raises an interrupt for a packet that finds the    *)
(* queue's interrupt enabled; emptying the queue enables it again.           *)

Arrive ==
  /\ arrivals < MaxArrivals
  /\ arrivals' = arrivals + 1
  /\ rxq' = rxq + 1
  /\ raised' = (raised \/ intr)
  /\ intr' = FALSE
  /\ UNCHANGED <<class, pc, more, heap, out, ret, nomem, misuse, counters>>

\* click_fromdevice_rx_callback.
rx_callback ==
  /\ raised /\ pc[Callback] = "idle"
  /\ raised' = FALSE
  /\ pc' = [pc EXCEPT ![Callback] = "rx"]
  /\ UNCHANGED <<class, arrivals, rxq, intr, more, heap, out, ret, nomem, misuse, counters>>

\* The "reset" handler of FromDevice, and initialize, which empties the queue
\* when enabling the interrupt says that there are packets already.
call_take_packets(c) ==
  /\ c # Callback /\ pc[c] = "idle"
  /\ pc' = [pc EXCEPT ![c] = "rx"]
  /\ UNCHANGED <<class, rxVars, more, heap, out, ret, nomem, misuse, counters>>

-----------------------------------------------------------------------------
(* FromDevice::take_packets.                                                 *)

\* uk_netdev_rx_one finds nothing: break.
take_none(c) ==
  /\ pc[c] = "rx" /\ rxq = 0
  /\ intr' = TRUE
  /\ pc' = [pc EXCEPT ![c] = "idle"]
  /\ UNCHANGED <<class, arrivals, rxq, raised, more, heap, out, ret, nomem, misuse, counters>>

\* It takes one: Packet::make, then output(0).push, which counts in a BPFilter.
take_one(c) ==
  /\ pc[c] = "rx" /\ rxq > 0
  /\ rxq' = rxq - 1
  /\ more' = [more EXCEPT ![c] = rxq' > 0]
  /\ intr' = (rxq' = 0)
  /\ heap' = [heap EXCEPT ![c] = [NoPacket EXCEPT !["p"] = "alive"]]
  /\ out' = [out EXCEPT ![c] = "p"]
  /\ nomem' = [nomem EXCEPT ![c] = FALSE] /\ misuse' = [misuse EXCEPT ![c] = FALSE]
  /\ _bcount' = IF class = "BPFilter" THEN _bcount + 1 ELSE _bcount
  /\ pc' = [pc EXCEPT ![c] = "exec"]
  /\ UNCHANGED <<class, arrivals, raised, ret, _filtered>>

\* It reports an error: UK_CRASH ends the router with all its contexts.
rx_error(c) ==
  /\ pc[c] = "rx"
  /\ pc' = [d \in Contexts |-> "crashed"]
  /\ UNCHANGED <<class, rxVars, more, heap, out, ret, nomem, misuse, counters>>

\* push has returned: uk_netbuf_free, and on while there is more.
take_next_bug(c) ==
  /\ pc[c] = "free"
  /\ heap' = [heap EXCEPT ![c] = NoPacket]
  /\ pc' = [pc EXCEPT ![c] = "idle"]
  /\ UNCHANGED <<class, rxVars, more, out, ret, nomem, misuse, counters>>

take_next(c) ==
  /\ pc[c] = "free"
  /\ heap' = [heap EXCEPT ![c] = NoPacket]
  /\ pc' = [pc EXCEPT ![c] = IF more[c] THEN "rx" ELSE "idle"]
  /\ UNCHANGED <<class, rxVars, more, out, ret, nomem, misuse, counters>>

-----------------------------------------------------------------------------
(* The elements. exec is under the read lock; uniqueify comes before it.      *)

\* Packet::uniqueify (external): a shared packet is left and copied.
Uniqueified(slots, shared) ==
  IF shared THEN [slots EXCEPT !["p"] = "dead", !["unique"] = "alive"] ELSE slots

\* No memory for the copy of a shared packet: uniqueify kills it, push returns.
uniqueify_fails(c) ==
  /\ pc[c] = "exec" /\ class # "BPFilter" /\ MemoryMayFail
  /\ \E case \in Cases : case[1] = class /\ case[2]
  /\ heap' = [heap EXCEPT ![c]["p"] = "dead"]
  /\ pc' = [pc EXCEPT ![c] = "free"]
  /\ UNCHANGED <<class, rxVars, more, out, ret, nomem, misuse, counters>>

\* bpf_packet_add_space with more room than there is: WritablePacket::push
\* (external) moves the packet. FromDevice makes packets without headroom.
Grown(slots, from) == [slots EXCEPT ![from] = "dead", !["grown"] = "alive"]

exec(c) ==
  /\ pc[c] = "exec"
  /\ \E case \in Cases, grows \in BOOLEAN :
       LET unique == IF class = "BPFilter" THEN heap[c] ELSE Uniqueified(heap[c], case[2])
           p_out == IF class # "BPFilter" /\ case[2] THEN "unique" ELSE "p"
       IN /\ case[1] = class
          /\ grows => class = "BPFRewriter"
          /\ heap' = [heap EXCEPT ![c] = IF grows THEN Grown(unique, p_out) ELSE unique]
          /\ out' = [out EXCEPT ![c] = IF grows THEN "grown" ELSE p_out]
          /\ ret' = [ret EXCEPT ![c] = case[3]]
  /\ pc' = [pc EXCEPT ![c] = "verdict"]
  /\ UNCHANGED <<class, rxVars, more, nomem, misuse, counters>>

\* kill() of what a slot holds. What a second kill() does to the memory of the
\* packet is not followed.
Kill(c, slot) ==
  /\ misuse' = [misuse EXCEPT ![c] = misuse[c] \/ heap[c][slot] # "alive"]
  /\ heap' = [heap EXCEPT ![c][slot] = "dead"]

XDP_DROP == 1
XDP_PASS == 2
CLASSIFIER_ABORT == -1
REWRITER_ABORT == 0
REWRITER_SUCCESS == 1

\* BPFilter: what is neither passed nor dropped is killed as well.
filter_kill(c) ==
  /\ class = "BPFilter" /\ pc[c] = "verdict" /\ ret[c] # XDP_PASS
  /\ _filtered' = IF ret[c] = XDP_DROP THEN _filtered + 1 ELSE _filtered
  /\ Kill(c, "p")
  /\ pc' = [pc EXCEPT ![c] = "free"]
  /\ UNCHANGED <<class, rxVars, more, out, ret, nomem, _bcount>>

\* BPFClassifier kills p, the packet as it was before uniqueify.
classifier_abort(c) ==
  /\ class = "BPFClassifier" /\ pc[c] = "verdict" /\ ret[c] = CLASSIFIER_ABORT
  /\ Kill(c, "p")
  /\ pc' = [pc EXCEPT ![c] = "free"]
  /\ UNCHANGED <<class, rxVars, more, out, ret, nomem, counters>>

\* BPFRewriter kills p_out when the program aborts, p for an unknown value.
rewriter_kill_bug(c) ==
  /\ class = "BPFRewriter" /\ pc[c] = "verdict" /\ ret[c] # REWRITER_SUCCESS
  /\ Kill(c, "p")
  /\ pc' = [pc EXCEPT ![c] = "free"]
  /\ UNCHANGED <<class, rxVars, more, out, ret, nomem, counters>>

rewriter_kill(c) ==
  /\ class = "BPFRewriter" /\ pc[c] = "verdict" /\ ret[c] # REWRITER_SUCCESS
  /\ Kill(c, IF ret[c] = REWRITER_ABORT THEN out[c] ELSE "p")
  /\ pc' = [pc EXCEPT ![c] = "free"]
  /\ UNCHANGED <<class, rxVars, more, out, ret, nomem, counters>>

Forwards(c) ==
  \/ class = "BPFilter" /\ ret[c] = XDP_PASS
  \/ class = "BPFClassifier" /\ ret[c] # CLASSIFIER_ABORT
  \/ class = "BPFRewriter" /\ ret[c] = REWRITER_SUCCESS

\* output(0).push or checked_output_push to a ToDevice. Its push copies the
\* packet into a buffer for the device, sends it and gives the packet to
\* checked_output_push, which kills it when there is no further element. The
\* packet stays when there is no memory for the buffer.
ToDevice_push(c) ==
  /\ pc[c] = "verdict" /\ Forwards(c)
  /\ \/ /\ MemoryMayFail
        /\ nomem' = [nomem EXCEPT ![c] = TRUE]
        /\ UNCHANGED <<heap, misuse>>
     \/ /\ Kill(c, out[c])
        /\ UNCHANGED nomem
  /\ pc' = [pc EXCEPT ![c] = "free"]
  /\ UNCHANGED <<class, rxVars, more, out, ret, counters>>

\* The reset_count handler of BPFilter.
reset_count ==
  /\ class = "BPFilter" /\ pc[Callback] # "crashed"
  /\ _bcount' = 0 /\ _filtered' = 0
  /\ UNCHANGED <<class, rxVars, pc, more, heap, out, ret, nomem, misuse>>

Handle(c) ==
  \/ take_none(c) \/ take_one(c) \/ rx_error(c) \/ take_next(c)
  \/ exec(c) \/ uniqueify_fails(c)
  \/ filter_kill(c) \/ classifier_abort(c) \/ rewriter_kill(c) \/ ToDevice_push(c)

PathNext ==
  \/ Arrive \/ rx_callback \/ reset_count
  \/ \E c \in Contexts : call_take_packets(c) \/ Handle(c)

\* The scheduler runs the callback of a raised interrupt and every context that
\* is inside take_packets; programs terminate.
PathFairness ==
  /\ WF_pathVars(rx_callback)
  /\ \A c \in Contexts : WF_pathVars(Handle(c))

PathSpec == PathInit /\ [][PathNext]_pathVars

-----------------------------------------------------------------------------
\* The element has ended the packet by the pointer it was given although
\* uniqueify or bpf_packet_add_space has moved it: a classifier that aborts
\* (bpfclassifier.cc:26), a rewriter whose value is none of its two, exec's own
\* -1 among them (bpfrewriter.cc:68).
KilledOldCopy(c) ==
  /\ out[c] # "p"
  /\ \/ class = "BPFClassifier" /\ ret[c] = CLASSIFIER_ABORT
     \/ class = "BPFRewriter" /\ ret[c] \notin {REWRITER_ABORT, REWRITER_SUCCESS}

\* No element kills or sends a packet that was killed, or left behind by
\* uniqueify or by bpf_packet_add_space, before; just the named ones do.
KilledOnce == \A c \in Contexts : pc[c] = "free" => (misuse[c] <=> KilledOldCopy(c))

\* When take_packets frees the device's buffer nothing is left of the packet in
\* memory, unless the element killed the wrong copy or ToDevice found no memory
\* to send it (todevice.cc returns there without killing it).
NoPacketLeft ==
  \A c \in Contexts : pc[c] = "free" =>
    ((\E s \in Slots : heap[c][s] = "alive") <=> nomem[c] \/ KilledOldCopy(c))

\* Each packet has one owner on its way, who passes it on or kills it once,
\* whatever the program returned and however the packet was moved, but for
\* exactly the two places where the code goes on with the pointer it was given.
PacketsOwned == KilledOnce /\ NoPacketLeft

\* Nothing that has arrived stays in the receive queue, whatever the order of
\* interrupts, callbacks and calls of the handler: the queue is never left
\* filled with its interrupt disabled and nobody inside take_packets. Only an
\* error of the device, which ends the router, leaves packets behind.
Drained == rxq > 0 ~> (rxq = 0 \/ pc[Callback] = "crashed")
=============================================================================
