---------------------------- MODULE MCBPFElement ----------------------------
(* Instances of BPFElement for TLC: two good programs, one that no         *)
(* signature covers, one that does not load and one that does not compile. *)
EXTENDS BPFElement, TLC

CONSTANTS helper, unwind, p1, p2, unsigned, unloadable, uncompilable,
          s1, s2, s3, s4, f1, f2, f3, f4, f5, none, sig1, sig2, t1, t2

MCPrograms == {p1, p2, unsigned, unloadable, uncompilable}
(* Program unloadable calls helper 2, which this class does not register.  *)
MCLoadable == MCPrograms
MCCallsOf == [p \in MCPrograms |-> IF p = unloadable THEN {2} ELSE {1}]
MCTableAt == [p \in MCPrograms |-> [mode \in JitModes |-> [unwinds \in BOOLEAN |-> 100]]]
MCHelpers == (-1 :> NULL) @@ (0 :> unwind) @@ (1 :> helper) @@ (2 :> NULL)
MCCompilable == MCPrograms \ {uncompilable}
MCSignedBy == (s1 :> p1) @@ (s2 :> p2) @@ (s3 :> unloadable) @@ (s4 :> uncompilable)

(* File f holds a program and sig a signature; none does not exist.        *)
MCFS == {(f1 :> p1) @@ (f2 :> p2) @@ (f3 :> unsigned) @@ (f4 :> unloadable)
         @@ (f5 :> uncompilable) @@ (none :> NULL) @@ (sig1 :> s1) @@ (sig2 :> s2)}

Conf(f, s, j, d) == [file |-> f, sig |-> s, jit |-> j, dump |-> d]

BootConfs == {Conf(f1, sig1, j, d) : j \in {"absent", "true", "false"},
                                     d \in {"absent", "true", "false"}}

AllBoot == BootConfs \cup {Conf(f, s, j, "absent") : f \in {f2, f3, f4, f5, none},
                                 s \in {sig1, sig2}, j \in {"true", "false"}}

(* Control builds "ID .., FILE .., SIGNATURE ..": never JIT or DUMP_JIT.   *)
ControlConf(f, s) == Conf(f, s, "absent", "absent")
GoodRequests == {ControlConf(f1, sig1), ControlConf(f2, sig2), ControlConf(none, sig1)}
AllRequests == {ControlConf(f, s) : f \in {f1, f2, f3, f4, f5, none, sig1},
                                    s \in {sig1, sig2, none}}

(* The host installs an unsigned program, a good one, another signature.   *)
MCHostWrites == {[file |-> f2, content |-> unsigned], [file |-> f2, content |-> p1],
                 [file |-> sig2, content |-> s1]}
NoWrites == {}
=============================================================================
