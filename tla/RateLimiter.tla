----------------------------- MODULE RateLimiter -----------------------------
(***************************************************************************)
(* The rate-limiter program: a token bucket per source address, kept in a  *)
(* hash map.  Packets of several sources arrive while the clock runs; the  *)
(* program may be reloaded, which keeps the map.                           *)
(***************************************************************************)
EXTENDS BpfHelpers, Sequences

CONSTANTS
  Sources,   \* source addresses
  W,         \* width of the seconds the program keeps: 32
  MaxTime,   \* bound on the clock
  MaxPassed  \* bound on the packets recorded per source

ASSUME RateAssumption ==
  /\ W \in Nat /\ 2^W > 3 /\ MaxTime \in Nat /\ MaxPassed \in Nat
  /\ NULL \notin [tokens : Nat, last_token_grant : Nat]

VARIABLES
  PKTCOUNTHASHMAP,   \* the buckets
  clock,   \* bpf_ktime_get_ns() in seconds, before the cast to u32
  passes   \* passes[s]: when packets of s passed

rateVars == <<PKTCOUNTHASHMAP, clock, passes>>

Cap == 3
now == clock % 2^W

RateInit ==
  /\ PKTCOUNTHASHMAP = Fresh([type |-> "HASH", key_size |-> 4, value_size |-> 8, max_entries |-> 1024])
  /\ clock \in {0, 2^W - 1}
  /\ passes = [s \in Sources |-> << >>]

token_default == [tokens |-> 1, last_token_grant |-> now]

AtMostCap(n) == IF n > Cap THEN Cap ELSE n

grant_bug(r) ==
  LET elapsed == (now - r.last_token_grant + 2^W) % 2^W IN
  IF elapsed > 0
    THEN [tokens |-> AtMostCap((r.tokens + elapsed) % 2^W), last_token_grant |-> r.last_token_grant]
    ELSE r

(* grant_tokens_if_needed(): one token per second since the last grant,    *)
(* added in 32 bits.                                                       *)
grant_tokens_if_needed(r) ==
  LET elapsed == (now - r.last_token_grant + 2^W) % 2^W IN
  IF elapsed > 0
    THEN [tokens |-> AtMostCap((r.tokens + elapsed) % 2^W), last_token_grant |-> now]
    ELSE r

(* try_filter(): the bucket of the packet's source, made when missing.     *)
Bucket(s) ==
  LET r == bpf_map_lookup_elem(PKTCOUNTHASHMAP, s)
  IN  IF r = NULL THEN token_default ELSE grant_tokens_if_needed(r)

try_filter(s) ==
  LET r == Bucket(s) IN
  \/ /\ r.tokens >= 1 /\ Len(passes[s]) < MaxPassed
     /\ PKTCOUNTHASHMAP' = bpf_map_update_elem(PKTCOUNTHASHMAP, s, [r EXCEPT !.tokens = r.tokens - 1])
     /\ passes' = [passes EXCEPT ![s] = Append(@, clock)]
     /\ UNCHANGED clock
  \/ /\ r.tokens = 0
     /\ PKTCOUNTHASHMAP' = bpf_map_update_elem(PKTCOUNTHASHMAP, s, r)
     /\ UNCHANGED <<clock, passes>>

Tick == clock < MaxTime /\ clock' = clock + 1 /\ UNCHANGED <<PKTCOUNTHASHMAP, passes>>

RateNext == (\E s \in Sources : try_filter(s)) \/ Tick

RateSpec == RateInit /\ [][RateNext]_rateVars

-----------------------------------------------------------------------------
(* "grant 1 token per second": in every period of d seconds at most d      *)
(* packets of a source pass beyond the Cap tokens it may have saved, also  *)
(* when the seconds wrap around in the 32 bits the program keeps of them.  *)
RateHolds ==
  \A s \in Sources : \A i \in 1 .. Len(passes[s]) : \A j \in i .. Len(passes[s]) :
    j - i + 1 <= Cap + (passes[s][j] - passes[s][i])

(* A source starts with one token: it never has more passes than seconds   *)
(* since its first one, plus that token.                                   *)
NoCreditAtStart ==
  \A s \in Sources : \A j \in 1 .. Len(passes[s]) :
    j <= 1 + (passes[s][j] - passes[s][1])

(* A packet is turned away only when another of the same source passed in  *)
(* the same second: no other source takes its tokens, and no second is     *)
(* lost between grants.  The exception is a source that was silent for     *)
(* nearly a period of the 32-bit seconds, 136 years, or longer: the sum of *)
(* its tokens and the seconds may wrap, or the seconds themselves.         *)
TurnedAwayOverRate ==
  \A s \in Sources : Bucket(s).tokens = 0 =>
    /\ passes[s] # << >>
    /\ passes[s][Len(passes[s])] = clock \/ clock - passes[s][Len(passes[s])] >= 2^W - Cap

(* The program limits the rate of each source to one packet per second and *)
(* the tokens it has saved, and does not limit it further.                 *)
RateExact == RateHolds /\ NoCreditAtStart /\ TurnedAwayOverRate
=============================================================================
