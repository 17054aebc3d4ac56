---------------------------- MODULE Router_proofs ---------------------------
(* The source never exceeds its limit; every packet on its way between the    *)
(* devices has one owner; control messages reach the elements they are for.   *)
EXTENDS RouterMain, DevicePath, ControlMessage, SequenceTheorems, WellFoundedInduction, TLAPS

(* The inductive invariant of the source: _count is the number of packets     *)
(* since the last reset, and the limit in force is one of the promised ones.  *)
SourceInv ==
  /\ _count \in Nat /\ sent = _count
  /\ _limit \in Int /\ promised \in Int /\ _burstsize \in Nat \ {0}
  /\ promised >= 0 => _limit >= 0 /\ _limit <= promised /\ sent <= promised

LEMMA BurstLeftFacts ==
  ASSUME SourceInv
  PROVE  BurstLeft \in Nat /\ (promised >= 0 => _count + BurstLeft <= promised)
BY DEF SourceInv, BurstLeft, Limited

(* Packets within the limit, or a reset by END_CALL.                          *)
LEMMA EndCallStep ==
  ASSUME SourceInv, NEW ends, NEW n \in Nat, promised >= 0 => _count + n <= promised,
         EndCall(ends, n), UNCHANGED <<_limit, _burstsize>>
  PROVE  SourceInv'
<1>1. \/ _count' = 0 /\ sent' = 0 /\ promised' = _limit
      \/ _count' = _count + n /\ sent' = sent + n /\ promised' = promised
  BY Zenon DEF EndCall
<1> QED BY <1>1 DEF SourceInv

LEMMA RunTaskStep ==
  ASSUME SourceInv, run_task \/ Dequeue PROVE SourceInv'
<1>1. CASE run_task
  <2> DEFINE n == BurstLeft
  <2>1. n \in Nat /\ (promised >= 0 => _count + n <= promised) BY BurstLeftFacts
  <2>2. /\ UNCHANGED <<_limit, _burstsize>>
        /\ \/ EndCall(n = 0 /\ Limited /\ _count >= _limit, n)
           \/ UNCHANGED <<_count, sent, promised>>
    BY <1>1 DEF run_task
  <2> HIDE DEF n
  <2>3. CASE UNCHANGED <<_count, sent, promised>> BY <2>2, <2>3 DEF SourceInv
  <2> QED BY <2>1, <2>2, <2>3, EndCallStep, Zenon
<1>2. CASE Dequeue BY <1>2 DEF Dequeue, SourceInv
<1> QED BY <1>1, <1>2

LEMMA PullStep ==
  ASSUME SourceInv, ToDevice_run_task PROVE SourceInv'
<1> DEFINE pulled == IF ~_active THEN 0
                     ELSE IF Limited
                          THEN Least(BURSTSIZE + 1, IF _count < _limit THEN _limit - _count ELSE 0)
                          ELSE BURSTSIZE + 1
<1>1. pulled \in Nat /\ (promised >= 0 => _count + pulled <= promised)
  BY SourceAssumption DEF SourceInv, Limited, Least
<1>2. EndCall(_active /\ pulled < BURSTSIZE + 1, pulled) /\ UNCHANGED <<_limit, _burstsize>>
  BY DEF ToDevice_run_task
<1> HIDE DEF pulled
<1> QED BY <1>1, <1>2, EndCallStep, Zenon

LEMMA HandlerStep ==
  ASSUME SourceInv, configure \/ \E param \in {"limit", "burst", "active", "reset"} : change_param(param)
  PROVE  SourceInv'
<1>1. CASE configure
  <2>1. \/ _limit' \in Limits /\ _burstsize' \in Bursts /\ _count' = 0 /\ sent' = 0 /\ promised' = _limit'
        \/ UNCHANGED <<_limit, _burstsize, _count, sent, promised>>
    BY <1>1 DEF configure
  <2>2. CASE _limit' \in Limits /\ _burstsize' \in Bursts /\ _count' = 0 /\ sent' = 0 /\ promised' = _limit'
    BY <2>2, SourceAssumption DEF SourceInv
  <2>3. CASE UNCHANGED <<_limit, _burstsize, _count, sent, promised>> BY <2>3 DEF SourceInv
  <2> QED BY <2>1, <2>2, <2>3
<1>2. ASSUME NEW param \in {"limit", "burst", "active", "reset"}, change_param(param) PROVE SourceInv'
  <2>1. CASE param = "limit"
    <3>1. /\ _limit' \in Int /\ UNCHANGED <<_burstsize, _count, sent>>
          /\ promised' = IF promised >= 0 /\ _limit' > promised THEN _limit'
                         ELSE IF _limit' < 0 THEN _limit' ELSE promised
      BY Zenon, <1>2, <2>1, SourceAssumption DEF change_param
    <3> QED BY <1>2, <3>1 DEF SourceInv
  <2>2. CASE param = "burst" BY Zenon, <1>2, <2>2, SourceAssumption DEF change_param, SourceInv
  <2>3. CASE param = "active" BY <1>2, <2>3 DEF change_param, SourceInv
  <2>4. CASE param = "reset" BY <1>2, <2>4 DEF change_param, SourceInv
  <2> QED BY <2>1, <2>2, <2>3, <2>4
<1> QED BY <1>1, <1>2

(* "Stops sending after LIMIT packets are generated": for every limit, burst  *)
(* and number of devices, and whatever the handlers of InfiniteSource2 change *)
(* meanwhile.                                                                 *)
THEOREM LimitNeverPassed == RouterSpec => []LimitKept
<1>1. RouterInit => SourceInv BY SourceAssumption DEF RouterInit, SourceInit, SourceInv
<1>2. ASSUME SourceInv, [RouterNext]_routerVars PROVE SourceInv'
  <2>1. CASE driver_turn BY <1>2, <2>1, RunTaskStep, PullStep DEF driver_turn
  <2>2. CASE Surroundings BY <1>2, <2>2, RunTaskStep, HandlerStep DEF Surroundings
  <2>3. CASE UNCHANGED sourceVars BY <1>2, <2>3 DEF sourceVars, SourceInv
  <2>4. CASE \/ uk_netdev_early_init \/ create_router_thread \/ get_config \/ router_init_failed
             \/ router_initialized \/ driver_returns \/ main_returns
    BY <2>3, <2>4 DEF uk_netdev_early_init, create_router_thread, get_config, router_init_failed,
                      router_initialized, driver_returns, main_returns
  <2> QED BY <1>2, <2>1, <2>2, <2>3, <2>4 DEF RouterNext, routerVars
<1>3. SourceInv => LimitKept BY DEF SourceInv, LimitKept
<1> QED BY <1>1, <1>2, <1>3, PTL DEF RouterSpec

-----------------------------------------------------------------------------
Places == {"idle", "rx", "exec", "verdict", "free", "crashed"}

(* Of the copies of a packet exactly the one in slot s is alive.              *)
OnlyAlive(slots, s) == \A x \in Slots : slots[x] = "alive" <=> x = s

(* What is left when the packet's way is over.                                *)
Ended(c) ==
  /\ misuse[c] <=> KilledOldCopy(c)
  /\ (\E s \in Slots : heap[c][s] = "alive") <=> nomem[c] \/ KilledOldCopy(c)

(* The element that is about to decide holds the only live copy of the        *)
(* packet, which nobody has misused so far.                                   *)
OnItsWay(c) ==
  /\ pc[c] \in {"exec", "verdict"} => ~misuse[c] /\ ~nomem[c] /\ OnlyAlive(heap[c], out[c])
  /\ (pc[c] = "exec" \/ (pc[c] = "verdict" /\ class = "BPFilter")) => out[c] = "p"
  /\ pc[c] = "free" => Ended(c)

(* The inductive invariant.                                                   *)
PathInv ==
  /\ class \in Classes
  /\ pc \in [Contexts -> Places] /\ nomem \in [Contexts -> BOOLEAN] /\ misuse \in [Contexts -> BOOLEAN]
  /\ heap \in [Contexts -> [Slots -> {"none", "alive", "dead"}]]
  /\ out \in [Contexts -> Slots] /\ ret \in [Contexts -> Int]
  /\ \A c \in Contexts : OnItsWay(c)

LEMMA AtExec ==
  ASSUME PathInv, NEW c \in Contexts, pc[c] = "exec"
  PROVE  /\ heap[c] \in [Slots -> {"none", "alive", "dead"}] /\ OnlyAlive(heap[c], "p")
         /\ out[c] = "p" /\ ~misuse[c] /\ ~nomem[c]
<1>1. OnItsWay(c) /\ pc[c] \in {"exec", "verdict"} BY DEF PathInv
<1>2. out[c] = "p" BY <1>1, Zenon DEF OnItsWay
<1>3. ~misuse[c] /\ ~nomem[c] /\ OnlyAlive(heap[c], out[c]) BY <1>1, Zenon DEF OnItsWay
<1>4. heap[c] \in [Slots -> {"none", "alive", "dead"}] BY DEF PathInv
<1> QED BY <1>2, <1>3, <1>4, Zenon

(* What leaves the packet of context d and its verdict alone.                 *)
LEMMA Elsewhere ==
  ASSUME NEW d, misuse'[d] = misuse[d], heap'[d] = heap[d], nomem'[d] = nomem[d],
         out'[d] = out[d], ret'[d] = ret[d], class' = class
  PROVE  (Ended(d)' <=> Ended(d)) /\ (pc'[d] = pc[d] => (OnItsWay(d)' <=> OnItsWay(d)))
<1>1. Ended(d)' <=> Ended(d) BY Zenon DEF Ended, KilledOldCopy
<1>2. ASSUME pc'[d] = pc[d] PROVE OnItsWay(d)' <=> OnItsWay(d)
  <2>1. OnlyAlive(heap[d], out[d])' <=> OnlyAlive(heap[d], out[d]) BY Zenon DEF OnlyAlive
  <2> QED BY <1>1, <1>2, <2>1, Zenon DEF OnItsWay
<1> QED BY <1>1, <1>2

(* Killing the live copy is no misuse and leaves none; killing another one is *)
(* one, and leaves it.                                                        *)
LEMMA KillFacts ==
  ASSUME PathInv, NEW c \in Contexts, NEW s \in Slots,
         ~misuse[c], OnlyAlive(heap[c], out[c]), Kill(c, s)
  PROVE  /\ misuse' \in [Contexts -> BOOLEAN] /\ (misuse'[c] <=> s # out[c])
         /\ heap' \in [Contexts -> [Slots -> {"none", "alive", "dead"}]]
         /\ (\E x \in Slots : heap'[c][x] = "alive") <=> s # out[c]
         /\ \A d \in Contexts \ {c} : heap'[d] = heap[d] /\ misuse'[d] = misuse[d]
<1>1. heap[c] \in [Slots -> {"none", "alive", "dead"}] /\ out[c] \in Slots BY DEF PathInv
<1>2. heap' = [heap EXCEPT ![c] = [heap[c] EXCEPT ![s] = "dead"]] BY DEF Kill
<1>3. [heap[c] EXCEPT ![s] = "dead"] \in [Slots -> {"none", "alive", "dead"}] BY <1>1
<1>4. heap'[c] = [heap[c] EXCEPT ![s] = "dead"] BY <1>2 DEF PathInv
<1>5. (\E x \in Slots : heap'[c][x] = "alive") <=> s # out[c] BY <1>1, <1>4 DEF OnlyAlive
<1>6. misuse' = [misuse EXCEPT ![c] = heap[c][s] # "alive"] BY Zenon DEF Kill, PathInv
<1>7. heap[c][s] # "alive" <=> s # out[c] BY DEF OnlyAlive
<1>8. heap' \in [Contexts -> [Slots -> {"none", "alive", "dead"}]] BY <1>2, <1>3 DEF PathInv
<1>9. misuse' \in [Contexts -> BOOLEAN] /\ (misuse'[c] <=> s # out[c]) BY Zenon, <1>6, <1>7 DEF PathInv
<1> QED BY <1>2, <1>5, <1>6, <1>8, <1>9 DEF PathInv

(* The element that has decided gives the packet away for good.               *)
LEMMA DecidedStep ==
  ASSUME PathInv, NEW c \in Contexts,
         filter_kill(c) \/ classifier_abort(c) \/ rewriter_kill(c) \/ ToDevice_push(c)
  PROVE  PathInv'
<1>1. /\ pc[c] = "verdict" /\ pc' = [pc EXCEPT ![c] = "free"] /\ UNCHANGED <<class, out, ret>>
  BY DEF filter_kill, classifier_abort, rewriter_kill, ToDevice_push
<1>2. out[c] \in Slots /\ OnItsWay(c) BY DEF PathInv
<1>3. OnlyAlive(heap[c], out[c]) /\ ~misuse[c] /\ ~nomem[c]
  <2>1. pc[c] \in {"exec", "verdict"} BY <1>1
  <2> QED BY <1>2, <2>1, Zenon DEF OnItsWay
<1>4. "p" \in Slots BY DEF Slots
<1>5. \/ UNCHANGED nomem /\ \E s \in Slots : Kill(c, s) /\ (s # out[c] <=> KilledOldCopy(c))
      \/ /\ nomem' = [nomem EXCEPT ![c] = TRUE] /\ UNCHANGED <<heap, misuse>>
         /\ ~KilledOldCopy(c)
  <2>1. CASE filter_kill(c)
    <3>1. class = "BPFilter" /\ Kill(c, "p") /\ UNCHANGED nomem BY <2>1 DEF filter_kill
    <3>2. out[c] = "p" BY <3>1, <1>1, <1>2 DEF OnItsWay
    <3> QED BY <3>1, <3>2, <1>4 DEF KilledOldCopy
  <2>2. CASE classifier_abort(c) BY <1>2, <1>4, <2>2 DEF classifier_abort, KilledOldCopy
  <2>3. CASE rewriter_kill(c) BY <1>2, <1>4, <2>3 DEF rewriter_kill, KilledOldCopy
  <2>4. CASE ToDevice_push(c)
    <3>1. Forwards(c) BY <2>4 DEF ToDevice_push
    <3>2. ~KilledOldCopy(c) BY <3>1 DEF Forwards, KilledOldCopy
    <3> QED BY <1>2, <2>4, <3>2 DEF ToDevice_push
  <2> QED BY <2>1, <2>2, <2>3, <2>4
<1>6. KilledOldCopy(c)' <=> KilledOldCopy(c) BY <1>1 DEF KilledOldCopy
<1> DEFINE Alive == \E x \in Slots : heap'[c][x] = "alive"
<1>7. /\ misuse' \in [Contexts -> BOOLEAN] /\ nomem' \in [Contexts -> BOOLEAN]
      /\ heap' \in [Contexts -> [Slots -> {"none", "alive", "dead"}]]
      /\ (misuse'[c] <=> KilledOldCopy(c)) /\ (Alive <=> nomem'[c] \/ KilledOldCopy(c))
      /\ \A d \in Contexts \ {c} : heap'[d] = heap[d] /\ nomem'[d] = nomem[d] /\ misuse'[d] = misuse[d]
  <2>1. ASSUME NEW s \in Slots, UNCHANGED nomem, Kill(c, s), s # out[c] <=> KilledOldCopy(c)
        PROVE  /\ misuse' \in [Contexts -> BOOLEAN] /\ nomem' \in [Contexts -> BOOLEAN]
               /\ heap' \in [Contexts -> [Slots -> {"none", "alive", "dead"}]]
               /\ (misuse'[c] <=> KilledOldCopy(c)) /\ (Alive <=> nomem'[c] \/ KilledOldCopy(c))
               /\ \A d \in Contexts \ {c} : heap'[d] = heap[d] /\ nomem'[d] = nomem[d] /\ misuse'[d] = misuse[d]
    BY <1>3, <2>1, KillFacts, Zenon DEF PathInv
  <2>2. CASE nomem' = [nomem EXCEPT ![c] = TRUE] /\ UNCHANGED <<heap, misuse>> /\ ~KilledOldCopy(c)
    <3>1. /\ nomem' \in [Contexts -> BOOLEAN] /\ nomem'[c] = TRUE
          /\ \A d \in Contexts \ {c} : nomem'[d] = nomem[d]
      BY <2>2 DEF PathInv
    <3>2. Alive BY <1>2, <1>3, <2>2, Zenon DEF OnlyAlive
    <3> QED BY <1>3, <2>2, <3>1, <3>2, Zenon DEF PathInv
  <2> QED BY <1>5, <2>1, <2>2
<1>8. /\ pc' \in [Contexts -> Places] /\ pc'[c] = "free"
      /\ \A d \in Contexts \ {c} : pc'[d] = pc[d]
  BY <1>1 DEF PathInv, Places
<1>9. OnItsWay(c)'
  <2>1. Ended(c)' BY <1>6, <1>7, Zenon DEF Ended
  <2> QED BY <1>8, <2>1 DEF OnItsWay
<1>10. \A d \in Contexts \ {c} : OnItsWay(d)' <=> OnItsWay(d) BY <1>1, <1>7, <1>8, Elsewhere, Zenon
<1> QED BY <1>1, <1>7, <1>8, <1>9, <1>10, Zenon DEF PathInv

(* However uniqueify and bpf_packet_add_space move the packet: one copy.      *)
LEMMA ExecStep ==
  ASSUME PathInv, NEW c \in Contexts, exec(c) PROVE PathInv'
<1>1. pc[c] = "exec" /\ pc' = [pc EXCEPT ![c] = "verdict"] /\ UNCHANGED <<class, nomem, misuse>>
  BY DEF exec
<1>2. /\ OnlyAlive(heap[c], "p") /\ heap[c] \in [Slots -> {"none", "alive", "dead"}]
      /\ ~misuse[c] /\ ~nomem[c]
  BY <1>1, AtExec, Zenon
<1>3. PICK case \in Cases, grows \in BOOLEAN :
        LET unique == IF class = "BPFilter" THEN heap[c] ELSE Uniqueified(heap[c], case[2])
            p_out == IF class # "BPFilter" /\ case[2] THEN "unique" ELSE "p"
        IN /\ case[1] = class
           /\ grows => class = "BPFRewriter"
           /\ heap' = [heap EXCEPT ![c] = IF grows THEN Grown(unique, p_out) ELSE unique]
           /\ out' = [out EXCEPT ![c] = IF grows THEN "grown" ELSE p_out]
           /\ ret' = [ret EXCEPT ![c] = case[3]]
  BY Zenon DEF exec
<1> DEFINE unique == IF class = "BPFilter" THEN heap[c] ELSE Uniqueified(heap[c], case[2])
           p_out == IF class # "BPFilter" /\ case[2] THEN "unique" ELSE "p"
           slots == IF grows THEN Grown(unique, p_out) ELSE unique
           slot == IF grows THEN "grown" ELSE p_out
<1>4. case[1] = class /\ case[2] \in BOOLEAN /\ case[3] \in Int BY <1>3, PathAssumption
<1>5. p_out \in Slots /\ unique \in [Slots -> {"none", "alive", "dead"}] /\ OnlyAlive(unique, p_out)
  <2>1. CASE class = "BPFilter" \/ ~case[2]
    BY <1>2, <1>4, <2>1 DEF Uniqueified, Slots
  <2>2. CASE class # "BPFilter" /\ case[2]
    <3>1. unique = [heap[c] EXCEPT !["p"] = "dead", !["unique"] = "alive"] /\ p_out = "unique"
      BY <2>2 DEF Uniqueified
    <3> QED BY <3>1, <1>2 DEF OnlyAlive, Slots
  <2> QED BY <1>4, <2>1, <2>2
<1>6. heap' = [heap EXCEPT ![c] = slots] /\ out' = [out EXCEPT ![c] = slot] /\ ret' = [ret EXCEPT ![c] = case[3]]
  BY <1>3
<1>7. slot \in Slots /\ slots \in [Slots -> {"none", "alive", "dead"}] /\ OnlyAlive(slots, slot)
  <2> HIDE DEF unique, p_out
  <2>1. CASE grows
    <3>1. slots = [unique EXCEPT ![p_out] = "dead", !["grown"] = "alive"] /\ slot = "grown"
      BY <2>1 DEF Grown
    <3> QED BY Zenon, <3>1, <1>5 DEF OnlyAlive, Slots
  <2>2. CASE ~grows BY <1>5, <2>2
  <2> QED BY <2>1, <2>2
<1>8. class = "BPFilter" => slot = "p" BY <1>3, <1>4
<1> HIDE DEF slots, slot, unique, p_out
<1>9. /\ pc' \in [Contexts -> Places] /\ pc'[c] = "verdict"
      /\ heap' \in [Contexts -> [Slots -> {"none", "alive", "dead"}]] /\ heap'[c] = slots
      /\ out' \in [Contexts -> Slots] /\ out'[c] = slot
      /\ ret' \in [Contexts -> Int]
  BY <1>1, <1>4, <1>6, <1>7 DEF PathInv, Places
<1>10. \A d \in Contexts \ {c} :
        pc'[d] = pc[d] /\ heap'[d] = heap[d] /\ out'[d] = out[d] /\ ret'[d] = ret[d]
  BY <1>1, <1>6 DEF PathInv
<1>11. OnItsWay(c)'
  <2>1. ~misuse'[c] /\ ~nomem'[c] BY <1>1, <1>2, Zenon
  <2>2. OnlyAlive(heap'[c], out'[c]) BY <1>7, <1>9, Zenon
  <2>3. pc'[c] # "free" /\ pc'[c] # "exec" BY <1>9
  <2>4. class' = "BPFilter" => out'[c] = "p" BY <1>1, <1>8, <1>9
  <2> QED BY <2>1, <2>2, <2>3, <2>4, Zenon DEF OnItsWay, OnlyAlive
<1>12. \A d \in Contexts \ {c} : OnItsWay(d)' <=> OnItsWay(d) BY <1>1, <1>10, Elsewhere, Zenon
<1> QED BY <1>1, <1>9, <1>11, <1>12, Zenon DEF PathInv

LEMMA TakeStep ==
  ASSUME PathInv, NEW c \in Contexts,
         take_none(c) \/ take_one(c) \/ take_next(c) \/ call_take_packets(c)
  PROVE  PathInv'
<1>1. CASE take_one(c)
  <2> DEFINE slots == [NoPacket EXCEPT !["p"] = "alive"]
  <2>1. slots \in [Slots -> {"none", "alive", "dead"}] /\ OnlyAlive(slots, "p") /\ "p" \in Slots
    BY DEF NoPacket, OnlyAlive, Slots
  <2>2. /\ heap' = [heap EXCEPT ![c] = slots] /\ out' = [out EXCEPT ![c] = "p"]
        /\ nomem' = [nomem EXCEPT ![c] = FALSE] /\ misuse' = [misuse EXCEPT ![c] = FALSE]
        /\ pc' = [pc EXCEPT ![c] = "exec"]
        /\ UNCHANGED <<class, ret>>
    BY <1>1 DEF take_one
  <2> HIDE DEF slots
  <2>3. \A d \in Contexts \ {c} : /\ heap'[d] = heap[d] /\ out'[d] = out[d] /\ nomem'[d] = nomem[d]
                                  /\ misuse'[d] = misuse[d] /\ pc'[d] = pc[d]
    BY <2>2 DEF PathInv
  <2>4. \A d \in Contexts \ {c} : OnItsWay(d)' <=> OnItsWay(d) BY Zenon, <2>2, <2>3, Elsewhere
  <2>5. /\ heap'[c] = slots /\ out'[c] = "p" /\ nomem'[c] = FALSE /\ misuse'[c] = FALSE /\ pc'[c] = "exec"
        /\ pc' \in [Contexts -> Places] /\ nomem' \in [Contexts -> BOOLEAN] /\ misuse' \in [Contexts -> BOOLEAN]
        /\ heap' \in [Contexts -> [Slots -> {"none", "alive", "dead"}]] /\ out' \in [Contexts -> Slots]
    BY <2>1, <2>2 DEF PathInv, Places
  <2>6. OnItsWay(c)'
    <3>1. OnlyAlive(heap'[c], out'[c]) BY <2>1, <2>5, Zenon
    <3>2. pc'[c] # "free" BY <2>5
    <3> QED BY <2>5, <3>1, <3>2, Zenon DEF OnItsWay, OnlyAlive
  <2> QED BY <2>2, <2>4, <2>5, <2>6, Zenon DEF PathInv
<1>2. CASE take_next(c)
  <2>1. NoPacket \in [Slots -> {"none", "alive", "dead"}] BY DEF NoPacket
  <2>2. /\ heap' = [heap EXCEPT ![c] = NoPacket] /\ UNCHANGED <<class, out, ret, nomem, misuse>>
        /\ \E x \in {"rx", "idle"} : pc' = [pc EXCEPT ![c] = x]
    BY Zenon, <1>2 DEF take_next
  <2>3. \A d \in Contexts \ {c} : heap'[d] = heap[d] /\ pc'[d] = pc[d] BY <2>2 DEF PathInv
  <2>4. \A d \in Contexts \ {c} : OnItsWay(d)' <=> OnItsWay(d) BY <2>2, <2>3, Elsewhere, Zenon
  <2>5. /\ heap' \in [Contexts -> [Slots -> {"none", "alive", "dead"}]]
        /\ pc' \in [Contexts -> Places] /\ pc'[c] \in {"rx", "idle"}
    BY <2>1, <2>2 DEF PathInv, Places
  <2>6. OnItsWay(c)' BY <2>5 DEF OnItsWay
  <2> QED BY <2>2, <2>4, <2>5, <2>6, Zenon DEF PathInv
<1>3. CASE take_none(c) \/ call_take_packets(c)
  <2>1. /\ UNCHANGED <<class, heap, out, ret, nomem, misuse>>
        /\ \E x \in {"rx", "idle"} : pc' = [pc EXCEPT ![c] = x]
    BY <1>3 DEF take_none, call_take_packets
  <2>2. \A d \in Contexts \ {c} : pc'[d] = pc[d] BY <2>1 DEF PathInv
  <2>3. \A d \in Contexts \ {c} : OnItsWay(d)' <=> OnItsWay(d) BY <2>1, <2>2, Elsewhere, Zenon
  <2>4. pc' \in [Contexts -> Places] /\ pc'[c] \in {"rx", "idle"} BY <2>1 DEF PathInv, Places
  <2>5. OnItsWay(c)' BY <2>4 DEF OnItsWay
  <2> QED BY <2>1, <2>3, <2>4, <2>5, Zenon DEF PathInv
<1> QED BY <1>1, <1>2, <1>3

(* The ways out: no memory for the copy, and the end of the router.           *)
LEMMA FailStep ==
  ASSUME PathInv, NEW c \in Contexts, uniqueify_fails(c) \/ rx_error(c)
  PROVE  PathInv'
<1>1. CASE uniqueify_fails(c)
  <2> DEFINE slots == [heap[c] EXCEPT !["p"] = "dead"]
  <2>1. /\ pc[c] = "exec" /\ heap' = [heap EXCEPT ![c] = slots] /\ pc' = [pc EXCEPT ![c] = "free"]
        /\ UNCHANGED <<class, out, ret, nomem, misuse>>
    BY <1>1 DEF uniqueify_fails
  <2>2. /\ heap[c] \in [Slots -> {"none", "alive", "dead"}] /\ OnlyAlive(heap[c], "p")
        /\ out[c] = "p" /\ ~misuse[c] /\ ~nomem[c]
    BY <2>1, AtExec, Zenon
  <2>3. slots \in [Slots -> {"none", "alive", "dead"}] /\ \A x \in Slots : slots[x] # "alive"
    BY Zenon, <2>2 DEF OnlyAlive
  <2> HIDE DEF slots
  <2>4. heap'[c] = slots /\ \A d \in Contexts \ {c} : heap'[d] = heap[d] /\ pc'[d] = pc[d]
    BY <2>1 DEF PathInv
  <2>5. Ended(c)'
    <3>1. ~KilledOldCopy(c)' BY <2>1, <2>2 DEF KilledOldCopy
    <3>2. ~ \E x \in Slots : heap'[c][x] = "alive" BY <2>3, <2>4
    <3> QED BY <2>1, <2>2, <3>1, <3>2, Zenon DEF Ended
  <2>6. \A d \in Contexts \ {c} : OnItsWay(d)' <=> OnItsWay(d) BY <2>1, <2>4, Elsewhere, Zenon
  <2>7. /\ heap' \in [Contexts -> [Slots -> {"none", "alive", "dead"}]]
        /\ pc' \in [Contexts -> Places] /\ pc'[c] = "free"
    BY <2>1, <2>3 DEF PathInv, Places
  <2>8. OnItsWay(c)' BY <2>5, <2>7 DEF OnItsWay
  <2> QED BY <2>1, <2>6, <2>7, <2>8, Zenon DEF PathInv
<1>2. CASE rx_error(c)
  <2>1. pc' = [d \in Contexts |-> "crashed"] /\ UNCHANGED <<class, heap, out, ret, nomem, misuse>>
    BY <1>2 DEF rx_error
  <2>2. pc' \in [Contexts -> Places] /\ \A d \in Contexts : pc'[d] = "crashed" BY <2>1 DEF Places
  <2>3. \A d \in Contexts : OnItsWay(d)' BY <2>2 DEF OnItsWay
  <2> QED BY <2>1, <2>2, <2>3, Zenon DEF PathInv
<1> QED BY <1>1, <1>2

(* For any number of contexts inside take_packets and whatever the programs   *)
(* return: a packet is killed or sent exactly once by FromDevice, the BPF     *)
(* elements and ToDevice, and none is left, but where the element goes on     *)
(* with a pointer to a copy that is gone.                                     *)
THEOREM OneOwner == PathSpec => []PacketsOwned
<1>1. PathInit => PathInv
  <2> SUFFICES ASSUME PathInit PROVE PathInv OBVIOUS
  <2>1. \A c \in Contexts : pc[c] = "idle" BY DEF PathInit
  <2>2. heap \in [Contexts -> [Slots -> {"none", "alive", "dead"}]] BY DEF PathInit, NoPacket
  <2>3. \A c \in Contexts : OnItsWay(c) BY <2>1 DEF OnItsWay
  <2> QED BY <2>2, <2>3 DEF PathInit, PathInv, Places, Slots
<1>2. ASSUME PathInv, [PathNext]_pathVars PROVE PathInv'
  <2>1. CASE Arrive \/ reset_count \/ UNCHANGED pathVars
    <3>1. UNCHANGED <<class, pc, heap, out, ret, nomem, misuse>>
      BY <2>1 DEF Arrive, reset_count, pathVars
    <3>2. \A c \in Contexts : OnItsWay(c)' <=> OnItsWay(c) BY <3>1, Elsewhere, Zenon
    <3> QED BY <1>2, <3>1, <3>2, Zenon DEF PathInv
  <2>2. CASE rx_callback
    <3>1. UNCHANGED <<class, heap, out, ret, nomem, misuse>> /\ pc' = [pc EXCEPT ![Callback] = "rx"]
      BY <2>2 DEF rx_callback
    <3>2. /\ pc' \in [Contexts -> Places] /\ pc'[Callback] = "rx"
          /\ \A c \in Contexts \ {Callback} : pc'[c] = pc[c]
      BY <1>2, <3>1, PathAssumption DEF PathInv, Places
    <3>3. \A c \in Contexts \ {Callback} : OnItsWay(c)' <=> OnItsWay(c) BY <3>1, <3>2, Elsewhere, Zenon
    <3>4. OnItsWay(Callback)' BY <3>2 DEF OnItsWay
    <3> QED BY <1>2, <3>1, <3>2, <3>3, <3>4, Zenon DEF PathInv
  <2>3. ASSUME NEW c \in Contexts, call_take_packets(c) \/ Handle(c) PROVE PathInv'
    BY <1>2, <2>3, TakeStep, FailStep, ExecStep, DecidedStep DEF Handle
  <2> QED BY <1>2, <2>1, <2>2, <2>3 DEF PathNext
<1>3. PathInv => PacketsOwned
  <2>1. ASSUME PathInv, NEW c \in Contexts, pc[c] = "free" PROVE Ended(c) BY <2>1 DEF PathInv, OnItsWay
  <2> QED BY <2>1, Zenon DEF PacketsOwned, KilledOnce, NoPacketLeft, Ended
<1> QED BY <1>1, <1>2, <1>3, PTL DEF PathSpec

-----------------------------------------------------------------------------
(* Control messages.                                                          *)

(* Every nonempty set of natural numbers has a least member: the form of      *)
(* induction used below.                                                      *)
LEMMA LeastNumber ==
  ASSUME NEW T \in SUBSET Nat, T # {}
  PROVE  \E n \in T : \A m \in T : n <= m
<1> DEFINE R == OpToRel(<, Nat)
<1>1. IsWellFoundedOn(R, Nat) BY Zenon, NatLessThanWellFounded
<1>2. PICK n \in T : \A m \in T : ~(<<m, n>> \in R) BY <1>1, WFMin, Zenon
<1>3. \A m \in T : ~(m < n) BY Zenon, <1>2 DEF OpToRel
<1> QED BY <1>3

Shifts(f, n, k) ==
  /\ f \in [0 .. k -> Nat] /\ f[0] = n
  /\ \A i \in 1 .. k : f[i] = f[i - 1] \div BASE

LEMMA Quotient ==
  ASSUME NEW x \in Nat
  PROVE  x \div BASE \in Nat /\ x % BASE \in Bytes /\ x = (x % BASE) + BASE * (x \div BASE)
<1>1. BASE \in Nat /\ BASE >= 2 BY MessageAssumption
<1> QED BY <1>1 DEF Bytes

LEMMA ShiftsExist ==
  ASSUME NEW n \in Nat PROVE \A k \in Nat : \E f : Shifts(f, n, k)
<1> DEFINE T == {k \in Nat : ~ \E f : Shifts(f, n, k)}
<1> SUFFICES ASSUME T # {} PROVE FALSE OBVIOUS
<1>1. PICK k \in T : \A j \in T : k <= j BY Zenon, LeastNumber
<1>2. k # 0
  <2>1. Shifts([i \in 0 .. 0 |-> n], n, 0) BY DEF Shifts
  <2> QED BY <2>1
<1>3. k - 1 \in Nat /\ k - 1 \notin T BY <1>1, <1>2
<1>4. PICK f : Shifts(f, n, k - 1) BY <1>3
<1> DEFINE g == [i \in 0 .. k |-> IF i = k THEN f[k - 1] \div BASE ELSE f[i]]
<1>5. f[k - 1] \in Nat /\ f[k - 1] \div BASE \in Nat
  <2>1. f[k - 1] \in Nat BY <1>3, <1>4 DEF Shifts
  <2> QED BY <2>1, Quotient
<1>6. g \in [0 .. k -> Nat] BY <1>3, <1>4, <1>5 DEF Shifts
<1>7. g[0] = n BY <1>1, <1>2, <1>4 DEF Shifts
<1>8. \A i \in 1 .. k : g[i] = g[i - 1] \div BASE
  BY <1>3, <1>4 DEF Shifts
<1>9. Shifts(g, n, k) BY Zenon, <1>6, <1>7, <1>8 DEF Shifts
<1> QED BY <1>1, <1>9

(* The recursion of Shifted(), unfolded.                                      *)
LEMMA ShiftedUnfold ==
  ASSUME NEW n \in Nat PROVE Shifts(Shifted(n), n, U64)
<1> DEFINE F(f) == [i \in 0 .. U64 |-> IF i = 0 THEN n ELSE f[i - 1] \div BASE]
           g == CHOOSE f : f = F(f)
<1>0. U64 \in Nat BY MessageAssumption
<1>1. PICK h : Shifts(h, n, U64) BY <1>0, ShiftsExist
<1>2. h = F(h)
  <2>1. h = [i \in 0 .. U64 |-> h[i]] BY <1>1 DEF Shifts
  <2>2. \A i \in 0 .. U64 : h[i] = IF i = 0 THEN n ELSE h[i - 1] \div BASE BY <1>0, <1>1 DEF Shifts
  <2> QED BY <2>1, <2>2, Zenon
<1>3. g = F(g) BY <1>2, Zenon
<1>4. Shifted(n) = g BY DEF Shifted
<1> HIDE DEF g
<1>5. DOMAIN g = 0 .. U64 /\ \A i \in 0 .. U64 : g[i] = IF i = 0 THEN n ELSE g[i - 1] \div BASE
  <2>1. DOMAIN F(g) = 0 .. U64 /\ \A i \in 0 .. U64 : F(g)[i] = IF i = 0 THEN n ELSE g[i - 1] \div BASE
    OBVIOUS
  <2> QED BY <1>3, <2>1, Zenon
<1>6. \A i \in 0 .. U64 : g[i] \in Nat
  <2> DEFINE T == {i \in Nat : i \in 0 .. U64 /\ g[i] \notin Nat}
  <2> SUFFICES ASSUME T # {} PROVE FALSE BY <1>0
  <2>1. PICK i \in T : \A j \in T : i <= j BY Zenon, LeastNumber
  <2>2. i # 0 BY <1>5, <2>1
  <2>3. i - 1 \in 0 .. U64 /\ i - 1 \notin T BY <1>0, <2>1, <2>2
  <2>4. g[i] = g[i - 1] \div BASE /\ g[i - 1] \in Nat BY <1>5, <2>1, <2>2, <2>3
  <2> QED BY <2>1, <2>4, Quotient
<1>7. g \in [0 .. U64 -> Nat] BY <1>3, <1>5, <1>6
<1> QED BY <1>0, <1>4, <1>5, <1>7 DEF Shifts

(* What to_le_bytes() has written, the parser reads.                          *)
LEMMA ReadBack ==
  ASSUME NEW n \in Nat, Fits(n), NEW data, NEW offset \in Nat,
         \A i \in 1 .. U64 : data[offset + i] = to_le_bytes(n)[i]
  PROVE  ReadU64(data, offset) = n
<1> DEFINE q == Shifted(n)
           F(f) == [i \in 0 .. U64 |-> IF i = U64 THEN 0 ELSE data[offset + i + 1] + BASE * f[i + 1]]
           g == CHOOSE f : f = F(f)
<1>0. U64 \in Nat BY MessageAssumption
<1>1. q \in [0 .. U64 -> Nat] /\ q[0] = n /\ (\A i \in 1 .. U64 : q[i] = q[i - 1] \div BASE) /\ q[U64] = 0
  BY ShiftedUnfold DEF Shifts, Fits
<1>2. \A i \in 0 .. U64 - 1 : q[i] = data[offset + i + 1] + BASE * q[i + 1]
  <2> SUFFICES ASSUME NEW i \in 0 .. U64 - 1 PROVE q[i] = data[offset + i + 1] + BASE * q[i + 1]
    OBVIOUS
  <2>1. i + 1 \in 1 .. U64 /\ (i + 1) - 1 = i /\ offset + i + 1 = offset + (i + 1) BY <1>0
  <2>2. data[offset + (i + 1)] = q[i] % BASE BY <2>1 DEF to_le_bytes
  <2>3. q[i + 1] = q[i] \div BASE BY <2>1, <1>1
  <2>4. q[i] \in Nat BY <1>0, <1>1
  <2>5. q[i] = (q[i] % BASE) + BASE * (q[i] \div BASE) BY <2>4, Quotient
  <2> QED BY <2>1, <2>2, <2>3, <2>5
<1> HIDE DEF q
<1>3. q = F(q)
  <2>1. q = [i \in 0 .. U64 |-> q[i]] BY <1>1
  <2>2. \A i \in 0 .. U64 : q[i] = IF i = U64 THEN 0 ELSE data[offset + i + 1] + BASE * q[i + 1]
    BY <1>0, <1>1, <1>2
  <2> QED BY <2>1, <2>2, Zenon
<1>4. g = F(g) BY <1>3, Zenon
<1>5. ReadU64(data, offset) = g[0] BY DEF ReadU64
<1> HIDE DEF g
<1>6. \A i \in 0 .. U64 : g[i] = IF i = U64 THEN 0 ELSE data[offset + i + 1] + BASE * g[i + 1]
  <2>1. \A i \in 0 .. U64 : F(g)[i] = IF i = U64 THEN 0 ELSE data[offset + i + 1] + BASE * g[i + 1]
    OBVIOUS
  <2> QED BY <1>4, <2>1, Zenon
<1>7. \A k \in 0 .. U64 : g[U64 - k] = q[U64 - k]
  <2> DEFINE T == {k \in Nat : k \in 0 .. U64 /\ g[U64 - k] # q[U64 - k]}
  <2> SUFFICES ASSUME T # {} PROVE FALSE BY <1>0
  <2>1. PICK k \in T : \A j \in T : k <= j BY Zenon, LeastNumber
  <2>2. k # 0 BY <1>0, <1>1, <1>6, <2>1
  <2>3. k - 1 \in 0 .. U64 /\ k - 1 \notin T BY <1>0, <2>1, <2>2
  <2>4. g[U64 - (k - 1)] = q[U64 - (k - 1)] BY <2>3
  <2> DEFINE i == U64 - k
  <2>5. i \in 0 .. U64 - 1 /\ i \in 0 .. U64 /\ i # U64 /\ i + 1 = U64 - (k - 1) BY <1>0, <2>1, <2>2
  <2> HIDE DEF i
  <2>6. g[i] = data[offset + i + 1] + BASE * g[i + 1] BY <1>6, <2>5
  <2>7. q[i] = data[offset + i + 1] + BASE * q[i + 1] BY <1>2, <2>5
  <2>8. g[i] = q[i] BY <2>4, <2>5, <2>6, <2>7
  <2> QED BY <2>1, <2>8 DEF i
<1>8. g[0] = q[0]
  <2>1. U64 \in 0 .. U64 /\ U64 - U64 = 0 BY <1>0
  <2> QED BY <1>7, <2>1
<1> QED BY <1>1, <1>5, <1>8

(* e is a, of length l, followed by b, of length m.                           *)
Follows(e, a, l, b, m) == /\ e = a \o b /\ e \in Seq(Bytes) /\ Len(e) = l + m
                          /\ \A i \in 1 .. l : e[i] = a[i]
                          /\ \A i \in 1 .. m : e[l + i] = b[i]

(* part, of length m, is in data after its first k elements.                  *)
At(data, k, part, m) == \A i \in 1 .. m : data[k + i] = part[i]

LEMMA Joined ==
  ASSUME NEW a \in Seq(Bytes), NEW b \in Seq(Bytes), NEW l \in Nat, Len(a) = l, NEW m \in Nat, Len(b) = m
  PROVE  Follows(a \o b, a, l, b, m)
<1>1. a \o b \in Seq(Bytes) OBVIOUS
<1>2. Len(a \o b) = l + m OBVIOUS
<1>3. \A i \in 1 .. l : (a \o b)[i] = a[i] OBVIOUS
<1>4. \A i \in 1 .. m : (a \o b)[l + i] = b[i] OBVIOUS
<1> QED BY <1>1, <1>2, <1>3, <1>4 DEF Follows

LEMMA BytesFacts ==
  ASSUME NEW n \in Nat
  PROVE  to_le_bytes(n) \in Seq(Bytes) /\ Len(to_le_bytes(n)) = U64
<1>1. U64 \in Nat BY MessageAssumption
<1>2. \A i \in 1 .. U64 : Shifted(n)[i - 1] \in Nat BY <1>1, ShiftedUnfold DEF Shifts
<1>3. \A i \in 1 .. U64 : Shifted(n)[i - 1] % BASE \in Bytes BY <1>2, Quotient
<1>4. to_le_bytes(n) \in [1 .. U64 -> Bytes] BY <1>3 DEF to_le_bytes
<1> QED BY <1>1, <1>4

(* Where the parts of a message are.                                          *)
Laid(data, prefix, p, name, n, signature, s) ==
  /\ data \in Seq(Bytes) /\ Len(data) = p + 3 * U64 + n + s
  /\ \A i \in 1 .. p : data[i] = prefix[i]
  /\ At(data, p, to_le_bytes(1), U64)
  /\ At(data, p + U64, to_le_bytes(n), U64)
  /\ At(data, p + 2 * U64, name, n)
  /\ At(data, p + 2 * U64 + n, to_le_bytes(s), U64)
  /\ At(data, p + 3 * U64 + n, signature, s)

LEMMA EncodedFacts ==
  ASSUME NEW prefix \in Seq(Bytes), NEW name \in Seq(Bytes), NEW signature \in Seq(Bytes),
         NEW data, data = Encoded(prefix, name, signature),
         NEW p \in Nat, p = Len(prefix), NEW n \in Nat, n = Len(name), NEW s \in Nat, s = Len(signature)
  PROVE  Laid(data, prefix, p, name, n, signature, s)
<1> DEFINE one == to_le_bytes(1)
           first == to_le_bytes(n)
           second == to_le_bytes(s)
<1>1. U64 \in Nat /\ Len(prefix) = p /\ Len(name) = n /\ Len(signature) = s BY MessageAssumption
<1>2. /\ one \in Seq(Bytes) /\ first \in Seq(Bytes) /\ second \in Seq(Bytes)
      /\ Len(one) = U64 /\ Len(first) = U64 /\ Len(second) = U64
  BY BytesFacts
<1>3. data = prefix \o one \o first \o name \o second \o signature BY DEF Encoded
<1> HIDE DEF one, first, second
<1>4. /\ data \in Seq(Bytes) /\ Len(data) = p + 3 * U64 + n + s
      /\ \A i \in 1 .. p : data[i] = prefix[i]
      /\ At(data, p, one, U64)
      /\ At(data, p + U64, first, U64)
      /\ At(data, p + 2 * U64, name, n)
      /\ At(data, p + 2 * U64 + n, second, U64)
      /\ At(data, p + 3 * U64 + n, signature, s)
  <2>1. PICK x1 : Follows(x1, prefix, p, one, U64) BY <1>1, <1>2, Joined, Zenon
  <2>2. PICK l1 \in Nat : l1 = p + U64 BY <1>1
  <2>3. PICK x2 : Follows(x2, x1, l1, first, U64)
    <3>1. x1 \in Seq(Bytes) /\ Len(x1) = l1 BY <1>1, <2>1, <2>2 DEF Follows
    <3> QED BY <1>1, <1>2, <3>1, Joined, Zenon
  <2>4. PICK l2 \in Nat : l2 = l1 + U64 BY <1>1
  <2>5. PICK x3 : Follows(x3, x2, l2, name, n)
    <3>1. x2 \in Seq(Bytes) /\ Len(x2) = l2 BY <1>1, <2>3, <2>4 DEF Follows
    <3> QED BY <1>1, <1>2, <3>1, Joined, Zenon
  <2>6. PICK l3 \in Nat : l3 = l2 + n BY <1>1
  <2>7. PICK x4 : Follows(x4, x3, l3, second, U64)
    <3>1. x3 \in Seq(Bytes) /\ Len(x3) = l3 BY <1>1, <2>5, <2>6 DEF Follows
    <3> QED BY <1>1, <1>2, <3>1, Joined, Zenon
  <2>8. PICK l4 \in Nat : l4 = l3 + U64 BY <1>1
  <2>9. PICK x5 : Follows(x5, x4, l4, signature, s)
    <3>1. x4 \in Seq(Bytes) /\ Len(x4) = l4 BY <1>1, <2>7, <2>8 DEF Follows
    <3> QED BY <1>1, <1>2, <3>1, Joined, Zenon
  <2>10. data = x5
    <3>1. x1 = prefix \o one /\ x2 = x1 \o first /\ x3 = x2 \o name /\ x4 = x3 \o second /\ x5 = x4 \o signature
      BY <2>1, <2>3, <2>5, <2>7, <2>9, Zenon DEF Follows
    <3> QED BY <1>3, <3>1, Zenon
  <2>11. l1 = p + U64 /\ l2 = p + 2 * U64 /\ l3 = p + 2 * U64 + n /\ l4 = p + 3 * U64 + n BY <1>1, <2>2, <2>4, <2>6, <2>8
  <2>12. /\ \A i \in 1 .. l1 : x2[i] = x1[i]
         /\ \A i \in 1 .. l2 : x3[i] = x2[i]
         /\ \A i \in 1 .. l3 : x4[i] = x3[i]
         /\ \A i \in 1 .. l4 : x5[i] = x4[i]
    BY <2>3, <2>5, <2>7, <2>9, Zenon DEF Follows
  <2>13. /\ \A i \in 1 .. l3 : x5[i] = x4[i] /\ x5[i] = x3[i]
         /\ \A i \in 1 .. l2 : x5[i] = x2[i]
         /\ \A i \in 1 .. l1 : x5[i] = x1[i]
    <3>1. l1 <= l2 /\ l2 <= l3 /\ l3 <= l4 BY <1>1, <2>4, <2>6, <2>8
    <3>2. \A i \in 1 .. l3 : i \in 1 .. l4 BY <1>1, <3>1
    <3>3. \A i \in 1 .. l2 : i \in 1 .. l3 BY <1>1, <3>1
    <3>4. \A i \in 1 .. l1 : i \in 1 .. l2 BY <1>1, <3>1
    <3>5. \A i \in 1 .. l3 : x5[i] = x4[i] /\ x5[i] = x3[i] BY <2>12, <3>2, Zenon
    <3>6. \A i \in 1 .. l2 : x5[i] = x2[i] BY <2>12, <3>3, <3>5, Zenon
    <3>7. \A i \in 1 .. l1 : x5[i] = x1[i] BY <2>12, <3>4, <3>6, Zenon
    <3> QED BY <3>5, <3>6, <3>7, Zenon
  <2>14. \A i \in 1 .. p : x5[i] = prefix[i]
    <3>1. \A i \in 1 .. p : i \in 1 .. l1 BY <1>1, <2>2
    <3> QED BY <3>1, <2>1, <2>13, Zenon DEF Follows
  <2>15. At(x5, p, one, U64)
    <3>1. \A i \in 1 .. U64 : p + i \in 1 .. l1 BY <1>1, <2>2
    <3> QED BY <3>1, <2>1, <2>13, Zenon DEF Follows, At
  <2>16. At(x5, l1, first, U64)
    <3>1. \A i \in 1 .. U64 : l1 + i \in 1 .. l2 BY <1>1, <2>4
    <3> QED BY <3>1, <2>3, <2>13, Zenon DEF Follows, At
  <2>17. At(x5, l2, name, n)
    <3>1. \A i \in 1 .. n : l2 + i \in 1 .. l3 BY <1>1, <2>6
    <3> QED BY <3>1, <2>5, <2>13, Zenon DEF Follows, At
  <2>18. At(x5, l3, second, U64)
    <3>1. \A i \in 1 .. U64 : l3 + i \in 1 .. l4 BY <1>1, <2>8
    <3> QED BY <3>1, <2>7, <2>12, Zenon DEF Follows, At
  <2>19. At(x5, l4, signature, s) BY <2>9, Zenon DEF Follows, At
  <2>20. x5 \in Seq(Bytes) /\ Len(x5) = p + 3 * U64 + n + s BY <1>1, <2>9, <2>11 DEF Follows
  <2> QED BY <2>10, <2>11, <2>14, <2>15, <2>16, <2>17, <2>18, <2>19, <2>20, Zenon
<1> QED BY <1>4, Zenon DEF Laid, one, first, second

(* A number below BASE takes one byte.                                        *)
LEMMA FitsOne == Fits(1)
<1> DEFINE q == Shifted(1)
           T == {i \in Nat : i \in 1 .. U64 /\ q[i] # 0}
<1>0. U64 \in Nat \ {0} /\ BASE \in Nat \ {0, 1} BY MessageAssumption
<1>1. q \in [0 .. U64 -> Nat] /\ q[0] = 1 /\ \A i \in 1 .. U64 : q[i] = q[i - 1] \div BASE
  BY ShiftedUnfold DEF Shifts
<1> HIDE DEF q
<1>2. T = {}
  <2> SUFFICES ASSUME T # {} PROVE FALSE OBVIOUS
  <2>1. PICK m \in T : \A k \in T : m <= k BY Zenon, LeastNumber
  <2>2. m \in 1 .. U64 /\ q[m] # 0 OBVIOUS
  <2>3. CASE m = 1
    <3>1. q[m] = 1 \div BASE BY <1>0, <1>1, <2>2, <2>3
    <3>2. 1 \div BASE = 0 BY <1>0
    <3> QED BY <2>2, <3>1, <3>2
  <2>4. CASE m # 1
    <3>1. m - 1 \in 1 .. U64 /\ m - 1 \in Nat /\ ~(m <= m - 1) BY <1>0, <2>2, <2>4
    <3>2. q[m - 1] = 0 BY <2>1, <3>1
    <3>3. 0 \div BASE = 0 BY <1>0
    <3> QED BY <1>1, <2>2, <3>2, <3>3
  <2> QED BY <2>3, <2>4
<1>3. q[U64] = 0
  <2>1. U64 \in 1 .. U64 /\ U64 \in Nat BY <1>0
  <2> QED BY <1>2, <2>1
<1> QED BY <1>3 DEF Fits, q

(* A part is what SubSeq reads where it is.                                   *)
LEMMA ReadPart ==
  ASSUME NEW data \in Seq(Bytes), NEW k \in Nat, NEW part \in Seq(Bytes), NEW m \in Nat, Len(part) = m,
         k + m <= Len(data), At(data, k, part, m)
  PROVE  SubSeq(data, k + 1, k + m) = part
<1> DEFINE cut == SubSeq(data, k + 1, k + m)
<1>1. Len(data) \in Nat OBVIOUS
<1>2. k + 1 \in 1 .. Len(data) + 1 /\ k + m \in k .. Len(data) BY <1>1
<1>3. cut \in Seq(Bytes) /\ Len(cut) = m /\ \A i \in 1 .. m : cut[i] = data[k + i]
  <2>1. k + 1 \in Int /\ k + m \in Int /\ k + m <= Len(data) /\ 1 <= k + 1 BY <1>1
  <2>2. (k + 1) - 1 = k /\ (k + m) - (k + 1) + 1 = m OBVIOUS
  <2>3. cut = [i \in 1 .. m |-> data[k + i]]
    <3>1. cut = [i \in 1 .. ((k + m) - (k + 1) + 1) |-> data[i + (k + 1) - 1]] BY <2>1
    <3>2. \A i \in 1 .. m : i + (k + 1) - 1 = k + i OBVIOUS
    <3> QED BY <2>2, <3>1, <3>2
  <2>4. \A i \in 1 .. m : data[k + i] \in Bytes
    <3>1. \A i \in 1 .. m : k + i \in 1 .. Len(data) BY <1>1
    <3> QED BY <3>1
  <2> QED BY <2>3, <2>4
<1> HIDE DEF cut
<1>4. \A i \in 1 .. m : cut[i] = part[i] BY <1>3, Zenon DEF At
<1>5. cut = part BY <1>3, <1>4
<1> QED BY <1>5 DEF cut

(* A UDP length that is taken for a short one is one that looks too short.    *)
LEMMA ShortLengths ==
  ASSUME NEW l \in Nat
  PROVE  (((l % BASE) * BASE) + ((l \div BASE) % BASE) >= MinLen) <=> ~TakenForShort(l)
<1>0. BASE \in Nat \ {0, 1} /\ Len(Prefix) \in Nat /\ U64 \in Nat /\ Len(Prefix) + 3 * U64 <= BASE BY MessageAssumption
<1>1. MinLen \in Nat /\ MinLen <= BASE BY <1>0 DEF MinLen
<1>2. l % BASE \in Nat /\ l \div BASE \in Nat BY <1>0
<1>3. (l \div BASE) % BASE \in Nat BY <1>0, <1>2
<1>4. PICK a \in Nat : a = l % BASE BY <1>2
<1>5. PICK b \in Nat : b = (l \div BASE) % BASE BY <1>3
<1>6. (a * BASE + b >= MinLen) <=> ~(a = 0 /\ b < MinLen)
  <2>1. CASE a = 0 
    <3>1. a * BASE = 0 BY <2>1, <1>0
    <3> QED BY <2>1, <1>1, <3>1
  <2>2. CASE a # 0
    <3>1. a * BASE >= BASE
      <4>1. PICK c \in Nat : a = c + 1
        <5>1. a - 1 \in Nat /\ a = (a - 1) + 1 BY <2>2
        <5> QED BY <5>1
      <4>2. c * BASE \in Nat /\ a * BASE = c * BASE + BASE BY <1>0, <4>1
      <4> QED BY <1>0, <4>2
    <3>2. a * BASE \in Nat BY <1>0
    <3> QED BY <1>0, <1>1, <2>2, <3>1, <3>2
  <2> QED BY <2>1, <2>2
<1> QED BY <1>4, <1>5, <1>6 DEF TakenForShort

Enc(r) == Encoded(Prefix, r[1], r[2])

(* A message begins with its prefix.                                          *)
LEMMA PrefixRead ==
  ASSUME NEW prefix \in Seq(Bytes), Len(prefix) = Len(Prefix), NEW name \in Seq(Bytes), NEW signature \in Seq(Bytes),
         NEW data, data = Encoded(prefix, name, signature)
  PROVE  SubSeq(data, 1, Len(Prefix)) = prefix
<1>0. U64 \in Nat BY MessageAssumption
<1>1. PICK p \in Nat : p = Len(prefix) OBVIOUS
<1>2. PICK n \in Nat : n = Len(name) OBVIOUS
<1>3. PICK s \in Nat : s = Len(signature) OBVIOUS
<1>4. Laid(data, prefix, p, name, n, signature, s) BY <1>1, <1>2, <1>3, EncodedFacts, Zenon
<1>5. data \in Seq(Bytes) /\ Len(data) = p + 3 * U64 + n + s /\ \A i \in 1 .. p : data[i] = prefix[i]
  BY <1>4, Zenon DEF Laid
<1>6. At(data, 0, prefix, p)
  <2>1. \A i \in 1 .. p : 0 + i = i OBVIOUS
  <2> QED BY <1>5, <2>1, Zenon DEF At
<1>7. SubSeq(data, 0 + 1, 0 + p) = prefix
  <2>1. 0 + p <= Len(data) /\ 0 \in Nat BY <1>0, <1>5
  <2> QED BY <1>1, <1>5, <1>6, <2>1, ReadPart, Zenon
<1>8. 0 + 1 = 1 /\ 0 + p = p OBVIOUS
<1> QED BY <1>1, <1>7, <1>8, Zenon

LEMMA ReadBackAt ==
  ASSUME NEW n \in Nat, Fits(n), NEW data, NEW offset \in Nat, At(data, offset, to_le_bytes(n), U64)
  PROVE  ReadU64(data, offset) = n
BY ReadBack DEF At

(* What Control::push makes of the message of a request.                      *)
LEMMA DecodesBack ==
  ASSUME NEW r \in Requests, NEW data, data = Enc(r)
  PROVE  /\ ReadU64(data, Len(Prefix)) = 1
         /\ Decoded(data) = r
         /\ Accepts(data) <=> ~TakenForShort(UDP_HEADER + Len(data))
<1>0. U64 \in Nat /\ UDP_HEADER \in Nat /\ Prefix \in Seq(Bytes) BY MessageAssumption
<1>r. r = <<r[1], r[2]>> /\ r[1] \in Seq(Bytes) /\ r[2] \in Seq(Bytes) /\ Fits(Len(r[1])) /\ Fits(Len(r[2]))
  BY MessageAssumption, Zenon
<1>1. PICK name \in Seq(Bytes) : name = r[1] BY <1>r, Zenon
<1>2. PICK signature \in Seq(Bytes) : signature = r[2] BY <1>r, Zenon
<1>3. PICK p \in Nat : p = Len(Prefix) BY <1>0
<1>4. PICK n \in Nat : n = Len(name) OBVIOUS
<1>5. PICK s \in Nat : s = Len(signature) OBVIOUS
<1>6. data = Encoded(Prefix, name, signature) BY <1>1, <1>2, Zenon DEF Enc
<1>7. /\ data \in Seq(Bytes) /\ Len(data) = p + 3 * U64 + n + s
      /\ \A i \in 1 .. p : data[i] = Prefix[i]
      /\ At(data, p, to_le_bytes(1), U64)
      /\ At(data, p + U64, to_le_bytes(n), U64)
      /\ At(data, p + 2 * U64, name, n)
      /\ At(data, p + 2 * U64 + n, to_le_bytes(s), U64)
      /\ At(data, p + 3 * U64 + n, signature, s)
  <2>1. Laid(data, Prefix, p, name, n, signature, s) BY <1>0, <1>3, <1>4, <1>5, <1>6, EncodedFacts, Zenon
  <2> QED BY <2>1, Zenon DEF Laid
<1>len. Len(data) = p + 3 * U64 + n + s BY <1>7, Zenon
<1>8. Fits(n) /\ Fits(s) BY <1>r, <1>1, <1>2, <1>4, <1>5, Zenon
<1>9. p + U64 \in Nat /\ p + 2 * U64 \in Nat /\ p + 2 * U64 + n \in Nat /\ p + 3 * U64 + n \in Nat BY <1>0
<1>10. ReadU64(data, p) = 1
  <2>1. 1 \in Nat OBVIOUS
  <2> QED BY <1>7, <2>1, FitsOne, ReadBackAt, Zenon
<1>11. ReadU64(data, p + U64) = n BY <1>7, <1>8, <1>9, ReadBackAt, Zenon
<1>12. ReadU64(data, p + 2 * U64 + n) = s BY <1>7, <1>8, <1>9, ReadBackAt, Zenon
<1>13. /\ NameAt = p + 2 * U64 /\ NameLen(data) = n /\ SigLenAt(data) = p + 2 * U64 + n
       /\ SigAt(data) = p + 2 * U64 + n + U64 /\ SigLen(data) = s
  <2>1. NameAt = p + 2 * U64 /\ NameLen(data) = n BY <1>3, <1>11, Zenon DEF NameAt, NameLen
  <2>2. SigLenAt(data) = p + 2 * U64 + n BY <2>1, Zenon DEF SigLenAt
  <2>3. SigAt(data) = p + 2 * U64 + n + U64 /\ SigLen(data) = s BY <1>12, <2>2, Zenon DEF SigAt, SigLen
  <2> QED BY <2>1, <2>2, <2>3
<1>14. SigAt(data) = p + 3 * U64 + n
  <2>1. p + 2 * U64 + n + U64 = p + 3 * U64 + n BY <1>0
  <2> QED BY <1>13, <2>1, Zenon
<1>15. Decoded(data) = r
  <2>1. (p + 2 * U64) + n <= Len(data) /\ (p + 3 * U64 + n) + s <= Len(data) BY <1>0, <1>len
  <2>2. SubSeq(data, (p + 2 * U64) + 1, (p + 2 * U64) + n) = name BY <1>4, <1>7, <1>9, <2>1, ReadPart, Zenon
  <2>3. SubSeq(data, (p + 3 * U64 + n) + 1, (p + 3 * U64 + n) + s) = signature
    BY <1>5, <1>7, <1>9, <2>1, ReadPart, ZenonT(60)
  <2>4. Decoded(data) = <<name, signature>> BY <1>13, <1>14, <2>2, <2>3, Zenon DEF Decoded
  <2> QED BY <1>r, <1>1, <1>2, <2>4, Zenon
<1>16. SubSeq(data, 1, Len(Prefix)) = Prefix BY <1>0, <1>6, PrefixRead, Zenon
<1>17. UhUlen(data) >= MinLen <=> ~TakenForShort(UDP_HEADER + Len(data))
  <2>1. UDP_HEADER + Len(data) \in Nat BY <1>0, <1>len
  <2> QED BY <2>1, ShortLengths, Zenon DEF UhUlen
<1>18. NameAt + NameLen(data) <= Len(data) /\ SigAt(data) + SigLen(data) <= Len(data)
  <2>1. (p + 2 * U64) + n <= Len(data) /\ (p + 3 * U64 + n) + s <= Len(data) BY <1>0, <1>len
  <2> QED BY <2>1, <1>13, <1>14, Zenon
<1>19. Accepts(data) <=> ~TakenForShort(UDP_HEADER + Len(data)) BY <1>16, <1>17, <1>18, Zenon DEF Accepts
<1> QED BY <1>3, <1>10, <1>15, <1>19, Zenon

Other == Encoded(OtherPrefix, <<>>, <<>>)

(* What else comes is refused, and is no message of a request.                *)
LEMMA OtherRefused ==
  /\ ~Accepts(Other)
  /\ \A r \in Requests : Enc(r) # Other
<1>1. /\ Prefix \in Seq(Bytes) /\ OtherPrefix \in Seq(Bytes) /\ Len(Prefix) = Len(OtherPrefix)
      /\ Prefix # OtherPrefix
  BY MessageAssumption
<1>2. << >> \in Seq(Bytes) OBVIOUS
<1>3. SubSeq(Other, 1, Len(Prefix)) = OtherPrefix BY <1>1, <1>2, PrefixRead, Zenon DEF Other
<1>4. ASSUME NEW r \in Requests PROVE SubSeq(Enc(r), 1, Len(Prefix)) = Prefix
  <2>1. r[1] \in Seq(Bytes) /\ r[2] \in Seq(Bytes) BY MessageAssumption, Zenon
  <2> QED BY <1>1, <2>1, PrefixRead, ZenonT(60) DEF Enc
<1> QED BY <1>1, <1>3, <1>4, Zenon DEF Accepts

(* Two requests have different messages.                                      *)
LEMMA EncInjective ==
  ASSUME NEW r \in Requests, NEW q \in Requests, Enc(r) = Enc(q) PROVE r = q
<1>1. Decoded(Enc(r)) = r /\ Decoded(Enc(q)) = q BY DecodesBack, Zenon
<1> QED BY <1>1, Zenon

Short(r) == TakenForShort(UDP_HEADER + Len(Enc(r)))

(* The requests that have come and are not taken for short ones.              *)
Answered == {q \in requested : Enc(q) \in pushed /\ ~Short(q)}

(* The inductive invariant: what is under way, or has come, is the message of *)
(* a request that was sent or something else, and the calls are exact.        *)
ControlInv ==
  /\ requested \subseteq Requests
  /\ \A data \in wire \cup pushed : data = Other \/ \E r \in requested : data = Enc(r)
  /\ \A c : c \in calls <=> \E i \in Addressed(1), r \in Answered : c = <<i, r>>

LEMMA Pairs ==
  ASSUME NEW S, NEW r PROVE \A c : c \in S \X {r} <=> \E i \in S : c = <<i, r>>
OBVIOUS

LEMMA CallsByRequest ==
  CallsExact <=> \A c : c \in calls <=> \E i \in Addressed(1), r \in Answered : c = <<i, r>>
<1> DEFINE all == UNION {Addressed(1) \X {r} : r \in Answered}
<1>1. all = UNION {Addressed(1) \X {r} : r \in
                 {q \in requested : LET data == Encoded(Prefix, q[1], q[2])
                                    IN data \in pushed /\ ~TakenForShort(UDP_HEADER + Len(data))}}
  BY Zenon DEF Answered, Short, Enc
<1>2. CallsExact <=> calls = all BY <1>1, Zenon DEF CallsExact
<1>3. \A c : c \in all <=> \E i \in Addressed(1), r \in Answered : c = <<i, r>>
  <2>1. \A c : c \in all <=> \E r \in Answered : c \in Addressed(1) \X {r} BY Zenon
  <2> HIDE DEF all
  <2>2. \A c, r : c \in Addressed(1) \X {r} <=> \E i \in Addressed(1) : c = <<i, r>> OBVIOUS
  <2> QED BY <2>1, <2>2
<1> HIDE DEF all
<1>4. calls = all <=> \A c : c \in calls <=> c \in all BY Zenon
<1> QED BY <1>2, <1>3, <1>4, Zenon

LEMMA ControlInitial == ControlInit => ControlInv
BY Zenon DEF ControlInit, ControlInv, Answered

LEMMA ControlStep == ControlInv /\ [ControlNext]_controlVars => ControlInv'
<1> SUFFICES ASSUME ControlInv, [ControlNext]_controlVars PROVE ControlInv' OBVIOUS
<1>1. /\ requested \subseteq Requests
      /\ \A data \in wire \cup pushed : data = Other \/ \E r \in requested : data = Enc(r)
      /\ \A c : c \in calls <=> \E i \in Addressed(1), r \in Answered : c = <<i, r>>
  BY Zenon DEF ControlInv
<1>2. ASSUME NEW r \in Requests, reconfigure(r[1], r[2]) PROVE ControlInv'
  <2>1. <<r[1], r[2]>> = r BY MessageAssumption, Zenon
  <2>2. /\ requested' = requested \cup {r} /\ wire' = wire \cup {Enc(r)}
        /\ pushed' = pushed /\ calls' = calls
    BY <1>2, <2>1, Zenon DEF reconfigure, Enc
  <2>3. Enc(r) \in pushed => r \in requested
    <3> SUFFICES ASSUME Enc(r) \in pushed PROVE r \in requested OBVIOUS
    <3>1. PICK q \in requested : Enc(r) = Enc(q) BY <1>1, OtherRefused, Zenon
    <3>2. q \in Requests BY <1>1
    <3>3. r = q BY <3>1, <3>2, EncInjective, Zenon
    <3> QED BY <3>3, Zenon
  <2>4. \A q : q \in Answered' <=> q \in Answered BY <2>2, <2>3, Zenon DEF Answered
  <2>5. \A c : c \in calls' <=> \E i \in Addressed(1), q \in Answered' : c = <<i, q>> BY <1>1, <2>2, <2>4, Zenon
  <2>6. \A data \in wire' \cup pushed' : data = Other \/ \E q \in requested' : data = Enc(q) BY <1>1, <2>2, Zenon
  <2> QED BY <1>1, <2>2, <2>5, <2>6, Zenon DEF ControlInv
<1>3. CASE SendOther
  <2>1. /\ requested' = requested /\ wire' = wire \cup {Other} /\ pushed' = pushed /\ calls' = calls
    BY <1>3, Zenon DEF SendOther, Other
  <2> QED BY <1>1, <2>1, Zenon DEF ControlInv, Answered
<1>4. ASSUME NEW data \in wire, Lose(data) PROVE ControlInv'
  <2>1. /\ requested' = requested /\ wire' = wire \ {data} /\ pushed' = pushed /\ calls' = calls
    BY <1>4, Zenon DEF Lose
  <2> QED BY <1>1, <2>1, Zenon DEF ControlInv, Answered
<1>5. ASSUME NEW data \in wire, Control_push(data) PROVE ControlInv'
  <2>1. /\ requested' = requested /\ wire' = wire /\ pushed' = pushed \cup {data}
        /\ calls' = calls \cup (IF Accepts(data) THEN Addressed(ReadU64(data, Len(Prefix))) \X {Decoded(data)} ELSE {})
    BY <1>5, Zenon DEF Control_push
  <2>2. \A d \in wire' \cup pushed' : d = Other \/ \E q \in requested' : d = Enc(q) BY <1>1, <2>1, Zenon
  <2>3. CASE data = Other
    <3>1. calls' = calls BY <2>1, <2>3, OtherRefused, Zenon
    <3>2. \A q : q \in Answered' <=> q \in Answered BY <1>1, <2>1, <2>3, OtherRefused, Zenon DEF Answered
    <3>3. \A c : c \in calls' <=> \E i \in Addressed(1), q \in Answered' : c = <<i, q>> BY <1>1, <3>1, <3>2, Zenon
    <3> QED BY <1>1, <2>1, <2>2, <3>3, Zenon DEF ControlInv
  <2>4. ASSUME NEW r \in requested, data = Enc(r) PROVE ControlInv'
    <3>0. r \in Requests BY <1>1
    <3>1. ReadU64(data, Len(Prefix)) = 1 /\ Decoded(data) = r /\ (Accepts(data) <=> ~Short(r))
      BY <2>4, <3>0, DecodesBack, Zenon DEF Short
    <3>2. calls' = calls \cup (IF ~Short(r) THEN Addressed(1) \X {r} ELSE {})
      <4>1. CASE Short(r) BY <2>1, <3>1, <4>1, Zenon
      <4>2. CASE ~Short(r) BY <2>1, <3>1, <4>2, Zenon
      <4> QED BY <4>1, <4>2
    <3>3. \A q : q \in Answered' <=> q \in Answered \/ (q = r /\ ~Short(r))
      BY <1>1, <2>1, <2>4, <3>0, EncInjective, Zenon DEF Answered
    <3>4. \A c : c \in calls' <=> \E i \in Addressed(1), q \in Answered' : c = <<i, q>>
      <4>1. CASE Short(r)
        <5>1. calls' = calls /\ \A q : q \in Answered' <=> q \in Answered BY <3>2, <3>3, <4>1, Zenon
        <5> QED BY <1>1, <5>1, Zenon
      <4>2. CASE ~Short(r)
        <5>1. \A q : q \in Answered' <=> q \in Answered \/ q = r BY <3>3, <4>2, Zenon
        <5>2. \A c : c \in calls' <=> c \in calls \/ \E i \in Addressed(1) : c = <<i, r>> BY <3>2, <4>2, Pairs
        <5>3. \A c : (\E i \in Addressed(1), q \in Answered' : c = <<i, q>>)
                    <=> \/ \E i \in Addressed(1), q \in Answered : c = <<i, q>>
                        \/ \E i \in Addressed(1) : c = <<i, r>>
          BY <5>1
        <5> QED BY <1>1, <5>2, <5>3
      <4> QED BY <4>1, <4>2
    <3> QED BY <1>1, <2>1, <2>2, <3>4, Zenon DEF ControlInv
  <2> QED BY <1>1, <2>3, <2>4, Zenon
<1>6. CASE UNCHANGED controlVars BY <1>1, <1>6, Zenon DEF controlVars, ControlInv, Answered
<1> QED BY <1>2, <1>3, <1>4, <1>5, <1>6, Zenon DEF ControlNext

(* Whatever the datagrams that UDP loses, repeats or reorders, Control::push  *)
(* calls the handlers of the addressed elements with the name and signature   *)
(* of every request that has come and is not taken for a short one, and with  *)
(* nothing else: what the helper encodes, the element decodes.                *)
THEOREM CallsAreExact == ControlSpec => []CallsExact
<1>1. ControlInv => CallsExact BY CallsByRequest, Zenon DEF ControlInv
<1> QED BY <1>1, ControlInitial, ControlStep, PTL DEF ControlSpec
=============================================================================
