------------------------------ MODULE MCRouter -----------------------------
(* The router around its BPF elements: a state machine for the life of the    *)
(* router with its packet source, one for the way of packets between devices, *)
(* one for control messages. They share no state, so a behaviour is one of    *)
(* one of them: role says which, and the others rest where none of their      *)
(* fair actions is enabled.                                                   *)
EXTENDS RouterMain, DevicePath, ControlMessage

VARIABLE role

MCLimits == {-1, 0, 2, 3}

\* All values the elements name, one they do not and exec's -1.
MCCases ==
  ({"BPFilter"} \X {FALSE} \X {-1, 1, 2})
  \cup ({"BPFClassifier"} \X BOOLEAN \X {-1, 0})
  \cup ({"BPFRewriter"} \X BOOLEAN \X {-1, 0, 1})

\* Bytes have 16 values, lengths two bytes: with two bytes of prefix and header
\* the 6 bytes of <<3, 1, 2>> and <<2, 2, 2>> make a length of 16, and 118 bytes
\* one of 8 * 16, which is not taken for short.
MCPrefix == <<7, 8>>
MCOtherPrefix == <<7, 9>>
MCRequests ==
  {<<<<1>>, <<2>>>>, <<<<1, 3>>, <<>>>>, <<<<3, 1, 2>>, <<2, 2, 2>>>>, <<<<1>>, [i \in 1 .. 17 |-> i % 16]>>,
   <<<<1>>, [i \in 1 .. 117 |-> i % 16]>>}
MCElements ==
  <<[class |-> "BPFilter", id |-> 1, config |-> TRUE],
    [class |-> "Queue", id |-> 1, config |-> TRUE],
    [class |-> "BPFRewriter", id |-> 1, config |-> TRUE],
    [class |-> "BPFClassifier", id |-> 2, config |-> TRUE]>>

RouterRests ==
  /\ _active = FALSE /\ _limit = 0 /\ _burstsize = 1 /\ _count = 0
  /\ mode = "push" /\ _end_h = "none" /\ task = FALSE /\ awake = FALSE /\ queue = 0 /\ stop = FALSE
  /\ sent = 0 /\ promised = 0 /\ reached = FALSE /\ silenced = FALSE
  /\ transmitted = 0 /\ dropped = 0 /\ changes = 0
  /\ main = "returned" /\ dev = 0 /\ netdev = [d \in 0 .. NDev - 1 |-> "absent"]
  /\ thread = "none" /\ config = NoMode /\ f_stop = TRUE /\ exitCode = NoMode

PathRests == PathInit /\ class = "BPFilter" /\ _bcount = 0 /\ _filtered = 0

MCInit ==
  /\ ControlInit
  /\ \/ role = "router" /\ RouterInit /\ PathRests
     \/ role = "devices" /\ RouterRests /\ PathInit
     \/ role = "control" /\ RouterRests /\ PathRests

MCNext ==
  /\ \/ role = "router" /\ RouterNext /\ UNCHANGED <<pathVars, controlVars>>
     \/ role = "devices" /\ PathNext /\ UNCHANGED <<routerVars, controlVars>>
     \/ role = "control" /\ ControlNext /\ UNCHANGED <<routerVars, pathVars>>
  /\ UNCHANGED role

MCSpec == MCInit /\ [][MCNext]_<<role, routerVars, pathVars, controlVars>> /\ RouterFairness /\ PathFairness
=============================================================================
