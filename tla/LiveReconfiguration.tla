------------------------- MODULE LiveReconfiguration -------------------------
(***************************************************************************)
(* What a BPF element promises of its programs: at any time at most one    *)
(* program is in force, a packet is run from start to end by the program   *)
(* that was in force when it started, a program goes out of force only     *)
(* when no packet is running, and only verified programs come into force.  *)
(***************************************************************************)
CONSTANTS PacketThreads, Verified, NULL

VARIABLES
  active,     \* the program in force, or NULL while there is none
  running     \* running[t]: the program packet thread t is in, or NULL

Idle == [t \in PacketThreads |-> NULL]

Init == active = NULL /\ running = Idle

Start(t) ==
  /\ active # NULL /\ running[t] = NULL
  /\ running' = [running EXCEPT ![t] = active]
  /\ UNCHANGED active

Finish(t) ==
  /\ running[t] # NULL
  /\ running' = [running EXCEPT ![t] = NULL]
  /\ UNCHANGED active

Withdraw ==
  /\ running = Idle
  /\ active' = NULL
  /\ UNCHANGED running

Install(p) ==
  /\ running = Idle /\ active = NULL
  /\ active' = p
  /\ UNCHANGED running

Next ==
  \/ \E t \in PacketThreads : Start(t) \/ Finish(t)
  \/ Withdraw
  \/ \E p \in Verified : Install(p)

Spec == Init /\ [][Next]_<<active, running>>
=============================================================================
