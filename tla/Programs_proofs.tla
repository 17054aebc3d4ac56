--------------------------- MODULE Programs_proofs ---------------------------
(***************************************************************************)
(* The token bucket of the rate limiter, whatever the width of its         *)
(* seconds, and the small programs: round-robin and the filters.           *)
(***************************************************************************)
EXTENDS RateLimiter, PacketPrograms, TLAPS

-----------------------------------------------------------------------------
(* The token bucket holds the rate, whatever the width of its seconds.     *)

Buckets == [tokens : 0 .. Cap, last_token_grant : Nat]

(* The bits of second c that a bucket keeps are x.                         *)
Keeps(x, c) == x = c % 2^W

(* The books of a source that has passed at the times p, in second c: g is *)
(* the second of the last grant, of which the bucket r keeps W bits.  What *)
(* has passed since any earlier pass and what is left in the bucket are    *)
(* covered by the seconds up to g; an empty bucket has been emptied by a   *)
(* pass, or by a sum of tokens that wrapped.                               *)
Balanced(p, r, g, c) ==
  /\ g \in Nat /\ g <= c /\ Keeps(r.last_token_grant, g)
  /\ Len(p) > 0
  /\ \A i \in 1 .. Len(p) :
       p[i] <= g /\ Len(p) - i + 1 + r.tokens <= Cap + (g - p[i])
  /\ Len(p) + r.tokens <= 1 + (g - p[1])
  /\ r.tokens = 0 => p[Len(p)] = g \/ g - p[Len(p)] >= 2^W - Cap

RateHoldsFor(p) ==
  \A i \in 1 .. Len(p) : \A j \in i .. Len(p) : j - i + 1 <= Cap + (p[j] - p[i])

NoCreditFor(p) == \A j \in 1 .. Len(p) : j <= 1 + (p[j] - p[1])

(* The invariant of one source.                                            *)
SourceInv(s) ==
  /\ RateHoldsFor(passes[s]) /\ NoCreditFor(passes[s])
  /\ s \notin DOMAIN PKTCOUNTHASHMAP.data => passes[s] = << >>
  /\ s \in DOMAIN PKTCOUNTHASHMAP.data =>
       /\ PKTCOUNTHASHMAP.data[s] \in Buckets
       /\ \E g \in Nat : Balanced(passes[s], PKTCOUNTHASHMAP.data[s], g, clock)

(* The inductive invariant.                                                *)
RateInv ==
  /\ clock \in Nat /\ passes \in [Sources -> Seq(Nat)]
  /\ PKTCOUNTHASHMAP = [def |-> PKTCOUNTHASHMAP.def, data |-> PKTCOUNTHASHMAP.data]
  /\ PKTCOUNTHASHMAP.def.type = "HASH"
  /\ \A s \in Sources : SourceInv(s)

-----------------------------------------------------------------------------
(* Seconds of which W bits are kept.                                       *)
LEMMA Period == 2^W \in Nat \ {0} /\ 2^W > Cap
BY RateAssumption DEF Cap

LEMMA Seconds ==
  ASSUME NEW T \in Nat \ {0}, NEW c \in Nat, NEW g \in Nat, g <= c
  PROVE  LET e == ((c % T) - (g % T) + T) % T IN
         /\ e \in Nat /\ e <= c - g /\ e < T /\ c % T \in Nat
         /\ e = 0 => c % T = g % T
         /\ c % T = g % T => c = g \/ c - g >= T
<1> DEFINE q == c \div T
           k == g \div T
           r == c % T
           t == g % T
<1>1. c = T * q + r /\ q \in Int /\ r \in 0 .. T - 1 OBVIOUS
<1>2. g = T * k + t /\ k \in Int /\ t \in 0 .. T - 1 OBVIOUS
<1> HIDE DEF q, k, r, t
<1>3. q >= k
  <2> SUFFICES ASSUME k >= q + 1 PROVE FALSE BY <1>1, <1>2
  <2>1. T * (k - q - 1) >= 0 BY <1>1, <1>2
  <2>2. T * k - T * q - T >= 0 BY <2>1, <1>1, <1>2
  <2> QED BY <2>2, <1>1, <1>2
<1>4. q > k => T * q - T * k >= T
  <2> SUFFICES ASSUME q > k PROVE T * q - T * k >= T OBVIOUS
  <2>1. T * (q - k - 1) >= 0 BY <1>1, <1>2
  <2>2. T * q - T * k - T >= 0 BY <2>1, <1>1, <1>2
  <2> QED BY <2>2, <1>1, <1>2
<1>5. T * q \in Int /\ T * k \in Int /\ (q = k => T * q = T * k) BY <1>1, <1>2
<1>6. (r - t + T) % T = IF r >= t THEN r - t ELSE r - t + T
  <2>1. CASE r < t
    <3>1. r - t + T \in 0 .. T - 1 BY <2>1, <1>1, <1>2
    <3> QED BY <3>1, <2>1, <1>1, <1>2
  <2>2. CASE r >= t
    <3>1. r - t \in 0 .. T - 1 BY <2>2, <1>1, <1>2
    <3>2. PICK x \in 0 .. T - 1 : x = r - t BY <3>1
    <3> DEFINE d == (x + T) \div T
               m == (x + T) % T
    <3>3. x + T = T * d + m /\ d \in Int /\ m \in 0 .. T - 1 OBVIOUS
    <3> HIDE DEF d, m
    <3>4. ~(d >= 2)
      <4> SUFFICES ASSUME d >= 2 PROVE FALSE OBVIOUS
      <4>1. T * (d - 2) >= 0 BY <3>3
      <4>2. T * d >= 2 * T BY <4>1, <3>3
      <4> QED BY <4>2, <3>3
    <3>5. ~(d <= 0)
      <4> SUFFICES ASSUME d <= 0 PROVE FALSE OBVIOUS
      <4>1. T * d <= 0 BY <3>3
      <4> QED BY <4>1, <3>3
    <3>6. d = 1 BY <3>3, <3>4, <3>5
    <3>7. m = x BY <3>3, <3>6
    <3>8. r - t + T = x + T BY <3>2
    <3>9. (r - t + T) % T = m BY <3>8, Zenon DEF m
    <3> QED BY <3>7, <3>9, <3>2, <2>2
  <2> QED BY <2>1, <2>2, <1>1, <1>2
<1>7. LET e == (r - t + T) % T IN
      e \in Nat /\ e <= c - g /\ e < T /\ r \in Nat /\ (e = 0 => r = t) /\ (r = t => c = g \/ c - g >= T)
  BY <1>1, <1>2, <1>3, <1>4, <1>5, <1>6
<1> QED BY <1>7, Zenon DEF r, t

(* A sum of tokens in W bits.                                              *)
LEMMA TokenSum ==
  ASSUME NEW T \in Nat, T > 3, NEW t \in 0 .. 3, NEW e \in Nat, e < T
  PROVE  LET n == AtMostCap((t + e) % T) IN
         /\ n \in 0 .. 3 /\ n <= t + e
         /\ e > 0 /\ n = 0 => e >= T - 3
<1>1. CASE t + e < T
  <2>1. (t + e) % T = t + e BY <1>1
  <2>2. AtMostCap((t + e) % T) = IF t + e > 3 THEN 3 ELSE t + e BY <2>1 DEF AtMostCap, Cap
  <2> QED BY <2>2
<1>2. CASE t + e >= T
  <2>1. (t + e) % T = t + e - T
    <3>1. PICK x \in 0 .. T - 1 : x = t + e - T BY <1>2
    <3>2. t + e = x + T BY <3>1
    <3>3. (x + T) % T = x
      <4> DEFINE d == (x + T) \div T
                 m == (x + T) % T
      <4>1. x + T = T * d + m /\ d \in Int /\ m \in 0 .. T - 1 OBVIOUS
      <4> HIDE DEF d, m
      <4>2. ~(d >= 2)
        <5> SUFFICES ASSUME d >= 2 PROVE FALSE OBVIOUS
        <5>1. T * (d - 2) >= 0 BY <4>1
        <5>2. T * d >= 2 * T BY <5>1, <4>1
        <5> QED BY <5>2, <4>1
      <4>3. ~(d <= 0)
        <5> SUFFICES ASSUME d <= 0 PROVE FALSE OBVIOUS
        <5>1. T * d <= 0 BY <4>1
        <5> QED BY <5>1, <4>1
      <4>4. d = 1 BY <4>1, <4>2, <4>3
      <4>5. m = x BY <4>1, <4>4
      <4> QED BY <4>5 DEF m
    <3> QED BY <3>1, <3>2, <3>3
  <2>2. t + e - T \in 0 .. 2 BY <1>2
  <2>3. AtMostCap((t + e) % T) = t + e - T BY <2>1, <2>2 DEF AtMostCap, Cap
  <2> QED BY <2>2, <2>3, <1>2
<1> QED BY <1>1, <1>2

(* A grant brings the bucket up to date with no more than the seconds that *)
(* really have passed; it leaves an empty one only when none have, or when *)
(* the sum wraps.                                                          *)
LEMMA GrantFacts ==
  ASSUME clock \in Nat, NEW r \in Buckets, NEW g \in Nat, g <= clock,
         Keeps(r.last_token_grant, g)
  PROVE  LET b == grant_tokens_if_needed(r) IN
         /\ b \in Buckets /\ Keeps(b.last_token_grant, clock)
         /\ b.tokens <= r.tokens + (clock - g)
         /\ b.tokens = 0 => b = r \/ clock - g >= 2^W - Cap
<1> DEFINE T == 2^W
           e == ((clock % T) - (g % T) + T) % T
           b == grant_tokens_if_needed(r)
           n == AtMostCap((r.tokens + e) % T)
<1>1. T \in Nat \ {0} /\ T > 3 BY Period DEF Cap
<1> HIDE DEF T
<1>2. e \in Nat /\ e <= clock - g /\ e < T /\ clock % T \in Nat /\ (e = 0 => clock % T = g % T)
  BY Zenon, <1>1, Seconds
<1>3. (now - r.last_token_grant + 2^W) % 2^W = e /\ now = clock % T BY Zenon DEF T, now, Keeps
<1> HIDE DEF e
<1>4. r.tokens \in 0 .. 3 /\ r.last_token_grant = g % T
  <2>1. r.tokens \in 0 .. 3 BY DEF Buckets, Cap
  <2>2. r.last_token_grant = g % T BY Zenon DEF T, Keeps
  <2> QED BY <2>1, <2>2
<1>5. CASE e > 0
  <2>1. b = [tokens |-> n, last_token_grant |-> now]
    BY <1>3, <1>5, Zenon DEF grant_tokens_if_needed, T
  <2>2. n \in 0 .. 3 /\ n <= r.tokens + e /\ (n = 0 => e >= T - 3)
    BY <1>1, <1>2, <1>4, <1>5, TokenSum
  <2> HIDE DEF b, n
  <2>3. b.tokens = n /\ b.last_token_grant = clock % T BY <2>1, <1>3
  <2>4. b \in Buckets BY <2>1, <2>2, <1>2, <1>3 DEF Buckets, Cap
  <2>5. b.tokens <= r.tokens + (clock - g) BY <2>2, <2>3, <1>2, <1>4
  <2>6. b.tokens = 0 => clock - g >= T - 3 BY <2>2, <2>3, <1>1, <1>2
  <2> QED BY <2>3, <2>4, <2>5, <2>6 DEF T, b, Keeps, Cap
<1>6. CASE e = 0
  <2>1. b = r BY <1>3, <1>6 DEF grant_tokens_if_needed
  <2> HIDE DEF b
  <2>2. b.last_token_grant = clock % T BY <2>1, <1>2, <1>4, <1>6
  <2>3. b.tokens <= r.tokens + (clock - g) BY <2>1, <1>4
  <2> QED BY <2>1, <2>2, <2>3 DEF T, b, Keeps
<1> QED BY <1>2, <1>5, <1>6

LEMMA Sums ==
  ASSUME NEW n \in Nat, NEW i \in Nat, NEW a \in Nat, NEW b \in Nat,
         NEW x \in Nat, NEW g \in Nat, NEW c \in Nat, NEW z \in Nat,
         x <= g, g <= c, b <= a + (c - g), n - i + 1 + a <= z + (g - x)
  PROVE  x <= c /\ n + 1 - i + 1 + (b - 1) <= z + (c - x)
OBVIOUS

(* A pass is paid for with one token.                                      *)
LEMMA PassBalanced ==
  ASSUME NEW p \in Seq(Nat), NEW r \in Buckets, NEW g \in Nat, NEW c \in Nat,
         Balanced(p, r, g, c), RateHoldsFor(p), NoCreditFor(p),
         NEW b \in Buckets, b.tokens >= 1, b.tokens <= r.tokens + (c - g),
         Keeps(b.last_token_grant, c)
  PROVE  LET q == Append(p, c)
             k == [b EXCEPT !.tokens = b.tokens - 1]
         IN  k \in Buckets /\ Balanced(q, k, c, c) /\ RateHoldsFor(q) /\ NoCreditFor(q)
<1> DEFINE q == Append(p, c)
           k == [b EXCEPT !.tokens = b.tokens - 1]
           n == Len(p)
<1>1. n \in Nat /\ n > 0 /\ \A i \in 1 .. n : p[i] \in Nat BY DEF Balanced
<1>2. /\ q \in Seq(Nat) /\ Len(q) = n + 1 /\ q[n + 1] = c
      /\ \A i \in 1 .. n : q[i] = p[i]
  OBVIOUS
<1>3. r.tokens \in 0 .. 3 /\ b.tokens \in 0 .. 3 BY DEF Buckets, Cap
<1>0. g <= c BY DEF Balanced
<1>4. k \in Buckets /\ k.tokens = b.tokens - 1 /\ Keeps(k.last_token_grant, c)
  <2>1. k.tokens = b.tokens - 1 /\ k.last_token_grant = b.last_token_grant BY DEF Buckets
  <2>2. b.tokens - 1 \in 0 .. 3 BY <1>3
  <2>3. k \in Buckets BY <2>2 DEF Buckets, Cap
  <2> QED BY <2>1, <2>3
<1> HIDE DEF q, k, n
<1>5. /\ g <= c /\ \A i \in 1 .. n : p[i] <= g /\ n - i + 1 + r.tokens <= 3 + (g - p[i])
      /\ n + r.tokens <= 1 + (g - p[1])
  BY DEF Balanced, n, Cap
<1>6. \A i \in 1 .. n + 1 : q[i] <= c /\ n + 1 - i + 1 + k.tokens <= 3 + (c - q[i])
  <2> SUFFICES ASSUME NEW i \in 1 .. n + 1
               PROVE  q[i] <= c /\ n + 1 - i + 1 + k.tokens <= 3 + (c - q[i])
    OBVIOUS
  <2>1. CASE i = n + 1 BY <2>1, <1>1, <1>2, <1>3, <1>4
  <2>2. CASE i # n + 1
    <3>1. i \in 1 .. n BY <2>2, <1>1
    <3>2. /\ q[i] = p[i] /\ p[i] \in Nat /\ p[i] <= g
          /\ n - i + 1 + r.tokens <= 3 + (g - p[i])
      BY <3>1, <1>1, <1>2, <1>5
    <3> DEFINE x == p[i]
               t == r.tokens
               u == b.tokens
    <3>3. x \in Nat /\ x <= g /\ n - i + 1 + t <= 3 + (g - x) BY <3>2
    <3>4. t \in Nat /\ u \in Nat BY <1>3
    <3>5. n \in Nat /\ i \in Nat /\ u <= t + (c - g) BY <1>1
    <3> HIDE DEF x, t, u
    <3>6. x <= c /\ n + 1 - i + 1 + (u - 1) <= 3 + (c - x) BY <3>3, <3>4, <3>5, <1>0
    <3> QED BY <3>2, <3>6, <1>4 DEF x, u
  <2> QED BY <2>1, <2>2
<1>7. n + 1 + k.tokens <= 1 + (c - q[1]) /\ q[1] \in Nat
  <2>1. q[1] = p[1] /\ p[1] \in Nat BY <1>1, <1>2
  <2>2. n \in Nat /\ r.tokens \in Nat /\ b.tokens \in Nat BY <1>1, <1>3
  <2>3. p[1] <= g /\ n - 1 + 1 + r.tokens <= 1 + (g - p[1]) BY <1>1, <1>5, <2>1, <2>2
  <2>4. n + 1 - 1 + 1 + (b.tokens - 1) <= 1 + (c - p[1]) BY Zenon, <2>1, <2>2, <2>3, <1>0, Sums
  <2>5. n + 1 + (b.tokens - 1) <= 1 + (c - p[1]) BY <2>1, <2>2, <2>4
  <2> QED BY <2>1, <2>5, <1>4
<1>8. Balanced(q, k, c, c) BY <1>1, <1>2, <1>4, <1>6, <1>7 DEF Balanced, Cap
<1>9. RateHoldsFor(q)
  <2> SUFFICES ASSUME NEW i \in 1 .. n + 1, NEW j \in i .. n + 1
               PROVE  j - i + 1 <= 3 + (q[j] - q[i])
    BY <1>2 DEF RateHoldsFor, Cap
  <2>1. CASE j = n + 1
    <3>1. n \in Nat /\ q[j] = c /\ q[i] \in Nat BY <2>1, <1>1, <1>2
    <3>3. k.tokens \in Nat BY <1>3, <1>4
    <3>2. n + 1 - i + 1 + k.tokens <= 3 + (c - q[i]) BY <1>6
    <3> DEFINE x == q[i]
               t == k.tokens
    <3>4. x \in Nat /\ t \in Nat /\ n + 1 - i + 1 + t <= 3 + (c - x) BY <3>1, <3>2, <3>3
    <3>5. n + 1 - i + 1 <= 3 + (c - x)
      <4> HIDE DEF x, t
      <4> QED BY <3>1, <3>4
    <3> QED BY <2>1, <3>1, <3>5
  <2>2. CASE j # n + 1
    <3>1. j \in i .. n /\ i \in 1 .. n /\ j \in 1 .. n BY <2>2, <1>1
    <3>2. j - i + 1 <= 3 + (p[j] - p[i]) BY <3>1 DEF RateHoldsFor, n, Cap
    <3>3. q[j] = p[j] /\ q[i] = p[i] BY <3>1, <1>2
    <3> QED BY <3>2, <3>3
  <2> QED BY <2>1, <2>2
<1>10. NoCreditFor(q)
  <2> SUFFICES ASSUME NEW j \in 1 .. n + 1 PROVE j <= 1 + (q[j] - q[1])
    BY <1>2 DEF NoCreditFor
  <2>1. CASE j = n + 1 BY SMTT(30), <2>1, <1>1, <1>2, <1>3, <1>4, <1>7
  <2>2. CASE j # n + 1
    <3>1. j \in 1 .. n /\ 1 \in 1 .. n BY <2>2, <1>1
    <3>2. j <= 1 + (p[j] - p[1]) BY <3>1 DEF NoCreditFor, n
    <3> QED BY <3>1, <3>2, <1>2
  <2> QED BY <2>1, <2>2
<1> QED BY <1>4, <1>8, <1>9, <1>10 DEF q, k

(* A packet that is turned away finds an empty bucket: as it was, or after *)
(* a silence so long that the sum of its tokens wrapped.                   *)
LEMMA DropBalanced ==
  ASSUME NEW p \in Seq(Nat), NEW r \in Buckets, NEW g \in Nat, NEW c \in Nat,
         Balanced(p, r, g, c), NEW b \in Buckets, b.tokens = 0,
         Keeps(b.last_token_grant, c), b = r \/ c - g >= 2^W - Cap
  PROVE  \E h \in Nat : Balanced(p, b, h, c)
<1>1. CASE b = r BY <1>1
<1>2. CASE c - g >= 2^W - Cap
  <2> DEFINE n == Len(p)
             T == 2^W
  <2>1. T \in Nat /\ r.tokens \in 0 .. 3 BY Period DEF Buckets, Cap
  <2>2. n \in Nat /\ n > 0 /\ g <= c /\ \A i \in 1 .. n : p[i] \in Nat BY DEF Balanced
  <2>3. /\ \A i \in 1 .. n : p[i] <= g /\ n - i + 1 + r.tokens <= 3 + (g - p[i])
        /\ n + r.tokens <= 1 + (g - p[1])
    BY DEF Balanced, Cap
  <2>4. c - g >= T - 3 BY <1>2 DEF Cap
  <2> HIDE DEF n, T
  <2>5. ASSUME NEW i \in 1 .. n PROVE p[i] <= c /\ n - i + 1 + b.tokens <= 3 + (c - p[i])
    <3>1. p[i] \in Nat /\ p[i] <= g /\ n - i + 1 + r.tokens <= 3 + (g - p[i]) BY <2>2, <2>3
    <3> DEFINE x == p[i]
               t == r.tokens
    <3>2. x \in Nat /\ x <= g /\ t \in Nat /\ n - i + 1 + t <= 3 + (g - x) BY <3>1, <2>1
    <3> HIDE DEF x, t
    <3>3. x <= c /\ n - i + 1 + 0 <= 3 + (c - x) BY <3>2, <2>2
    <3> QED BY <3>3 DEF x
  <2>6. n + b.tokens <= 1 + (c - p[1])
    <3> DEFINE x == p[1]
               t == r.tokens
    <3>0. 1 \in 1 .. n /\ t \in Nat BY <2>1, <2>2
    <3>1. x \in Nat /\ t \in Nat /\ n + t <= 1 + (g - x) BY <3>0, <2>2, <2>3
    <3> HIDE DEF x, t
    <3>2. n + 0 <= 1 + (c - x) BY <3>1, <2>2
    <3> QED BY <3>2 DEF x
  <2>7. c - p[n] >= T - 3
    <3> DEFINE x == p[n]
    <3>1. x \in Nat /\ x <= g BY <2>2, <2>3
    <3> HIDE DEF x
    <3>2. c - x >= T - 3 BY <3>1, <2>1, <2>2, <2>4
    <3> QED BY <3>2 DEF x
  <2>8. Balanced(p, b, c, c) BY <2>2, <2>5, <2>6, <2>7 DEF Balanced, Cap, n, T
  <2> QED BY <2>8
<1> QED BY <1>1, <1>2

(* The first pass of a source uses the token it starts with.               *)
LEMMA FirstBalanced ==
  ASSUME NEW c \in Nat
  PROVE  LET q == Append(<< >>, c)
             k == [[tokens |-> 1, last_token_grant |-> c % 2^W] EXCEPT !.tokens = 0]
         IN  k \in Buckets /\ Balanced(q, k, c, c) /\ RateHoldsFor(q) /\ NoCreditFor(q)
<1> DEFINE q == Append(<< >>, c)
           k == [[tokens |-> 1, last_token_grant |-> c % 2^W] EXCEPT !.tokens = 0]
<1>1. q = <<c>> /\ Len(q) = 1 /\ q[1] = c OBVIOUS
<1>2. c % 2^W \in Nat BY Period
<1>3. k = [tokens |-> 0, last_token_grant |-> c % 2^W] OBVIOUS
<1> HIDE DEF q, k
<1>4. k \in Buckets /\ k.tokens = 0 /\ Keeps(k.last_token_grant, c)
  BY <1>2, <1>3 DEF Buckets, Cap, Keeps
<1>5. Balanced(q, k, c, c)
  <2>1. \A i \in 1 .. Len(q) : q[i] <= c /\ Len(q) - i + 1 + k.tokens <= Cap + (c - q[i])
    BY <1>1, <1>4 DEF Cap
  <2>2. Len(q) + k.tokens <= 1 + (c - q[1]) /\ q[Len(q)] = c BY <1>1, <1>4
  <2> QED BY <1>1, <1>4, <2>1, <2>2 DEF Balanced
<1>6. RateHoldsFor(q) /\ NoCreditFor(q) BY <1>1 DEF RateHoldsFor, NoCreditFor, Cap
<1> QED BY <1>4, <1>5, <1>6 DEF q, k

-----------------------------------------------------------------------------
(* What the bucket of a source is when its next packet comes.              *)
LEMMA BucketFacts ==
  ASSUME RateInv, NEW s \in Sources
  PROVE  LET data == PKTCOUNTHASHMAP.data IN
         /\ s \notin DOMAIN data => Bucket(s) = [tokens |-> 1, last_token_grant |-> clock % 2^W]
         /\ s \in DOMAIN data => Bucket(s) = grant_tokens_if_needed(data[s])
<1> DEFINE data == PKTCOUNTHASHMAP.data
<1>1. PKTCOUNTHASHMAP.def.type = "HASH" BY DEF RateInv
<1>2. bpf_map_lookup_elem(PKTCOUNTHASHMAP, s) = IF s \in DOMAIN data THEN data[s] ELSE NULL
  BY <1>1 DEF bpf_map_lookup_elem
<1>3. s \in DOMAIN data => data[s] # NULL
  <2>1. s \in DOMAIN data => data[s] \in Buckets BY DEF RateInv, SourceInv
  <2>2. Buckets \subseteq [tokens : Nat, last_token_grant : Nat] BY DEF Buckets, Cap
  <2> QED BY <2>1, <2>2, RateAssumption
<1>4. token_default = [tokens |-> 1, last_token_grant |-> clock % 2^W] BY Zenon DEF token_default, now
<1> QED BY <1>2, <1>3, <1>4 DEF Bucket

(* Storing a bucket changes the bucket of that source only.                *)
LEMMA StoreFacts ==
  ASSUME RateInv, NEW s \in Sources, NEW k,
         PKTCOUNTHASHMAP' = bpf_map_update_elem(PKTCOUNTHASHMAP, s, k)
  PROVE  /\ PKTCOUNTHASHMAP' = [def |-> PKTCOUNTHASHMAP'.def, data |-> PKTCOUNTHASHMAP'.data]
         /\ PKTCOUNTHASHMAP'.def.type = "HASH"
         /\ DOMAIN PKTCOUNTHASHMAP'.data = DOMAIN PKTCOUNTHASHMAP.data \cup {s}
         /\ PKTCOUNTHASHMAP'.data[s] = k
         /\ \A x \in DOMAIN PKTCOUNTHASHMAP.data \ {s} :
              PKTCOUNTHASHMAP'.data[x] = PKTCOUNTHASHMAP.data[x]
<1> DEFINE m == PKTCOUNTHASHMAP
           d == Put(m.data, s, k)
<1>1. m = [def |-> m.def, data |-> m.data] /\ m.def.type = "HASH" BY DEF RateInv
<1>2. m' = [m EXCEPT !.data = d] BY <1>1 DEF bpf_map_update_elem
<1>3. DOMAIN d = DOMAIN m.data \cup {s} /\ d[s] = k /\ \A x \in DOMAIN m.data \ {s} : d[x] = m.data[x]
  BY DEF Put
<1> HIDE DEF d
<1>4. m' = [def |-> m.def, data |-> d] BY <1>1, <1>2
<1>5. m'.def = m.def /\ m'.data = d BY <1>4
<1> QED BY <1>1, <1>3, <1>4, <1>5

LEMMA PassStep ==
  ASSUME RateInv, NEW s \in Sources, Bucket(s).tokens >= 1, clock' = clock,
         PKTCOUNTHASHMAP' =
           bpf_map_update_elem(PKTCOUNTHASHMAP, s, [Bucket(s) EXCEPT !.tokens = Bucket(s).tokens - 1]),
         passes' = [passes EXCEPT ![s] = Append(@, clock)]
  PROVE  RateInv'
<1> DEFINE data == PKTCOUNTHASHMAP.data
           b == Bucket(s)
           k == [b EXCEPT !.tokens = b.tokens - 1]
           p == passes[s]
           q == Append(p, clock)
<1>1. p \in Seq(Nat) /\ clock \in Nat /\ SourceInv(s) BY DEF RateInv
<1>2. k \in Buckets /\ Balanced(q, k, clock, clock) /\ RateHoldsFor(q) /\ NoCreditFor(q)
  <2>1. CASE s \in DOMAIN data
    <3>1. PICK g \in Nat : Balanced(p, data[s], g, clock) BY <1>1, <2>1 DEF SourceInv
    <3>2. data[s] \in Buckets /\ b = grant_tokens_if_needed(data[s])
      BY <2>1, BucketFacts, <1>1 DEF SourceInv
    <3>3. g <= clock /\ Keeps(data[s].last_token_grant, g) BY <3>1 DEF Balanced
    <3>4. /\ b \in Buckets /\ Keeps(b.last_token_grant, clock)
          /\ b.tokens <= data[s].tokens + (clock - g)
      BY <1>1, <3>2, <3>3, GrantFacts
    <3>5. b.tokens >= 1 /\ RateHoldsFor(p) /\ NoCreditFor(p) BY <1>1 DEF SourceInv
    <3> HIDE DEF b, p, data
    <3> QED BY <1>1, <3>1, <3>2, <3>4, <3>5, PassBalanced
  <2>2. CASE s \notin DOMAIN data
    <3>1. b = [tokens |-> 1, last_token_grant |-> clock % 2^W] BY <2>2, BucketFacts
    <3>2. p = << >> BY <2>2, <1>1 DEF SourceInv
    <3> HIDE DEF b, p
    <3>3. k = [[tokens |-> 1, last_token_grant |-> clock % 2^W] EXCEPT !.tokens = 0]
      BY <3>1
    <3> HIDE DEF k
    <3>4. q = Append(<< >>, clock) BY <3>2
    <3> HIDE DEF q
    <3> QED BY <1>1, <3>3, <3>4, FirstBalanced
  <2> QED BY <2>1, <2>2
<1>3. /\ PKTCOUNTHASHMAP' = [def |-> PKTCOUNTHASHMAP'.def, data |-> PKTCOUNTHASHMAP'.data]
      /\ PKTCOUNTHASHMAP'.def.type = "HASH"
      /\ DOMAIN PKTCOUNTHASHMAP'.data = DOMAIN data \cup {s}
      /\ PKTCOUNTHASHMAP'.data[s] = k
      /\ \A x \in DOMAIN data \ {s} : PKTCOUNTHASHMAP'.data[x] = data[x]
  BY StoreFacts
<1>4. passes' \in [Sources -> Seq(Nat)] /\ passes'[s] = q /\ \A x \in Sources \ {s} : passes'[x] = passes[x]
  <2>1. passes' = [passes EXCEPT ![s] = q] OBVIOUS
  <2>2. q \in Seq(Nat) BY <1>1
  <2> HIDE DEF q
  <2> QED BY <2>1, <2>2 DEF RateInv
<1> HIDE DEF k, q, data
<1>5. SourceInv(s)'
  <2>1. \E g \in Nat : Balanced(q, k, g, clock) BY <1>1, <1>2
  <2> QED BY Zenon, <1>2, <1>3, <1>4, <2>1 DEF SourceInv
<1>6. \A x \in Sources \ {s} : SourceInv(x)'
  BY Zenon, <1>3, <1>4 DEF RateInv, SourceInv, data
<1>7. \A x \in Sources : SourceInv(x)' BY <1>5, <1>6
<1> QED BY Zenon, <1>1, <1>3, <1>4, <1>7 DEF RateInv

(* What is known when a packet is turned away.                             *)
LEMMA EmptyBucket ==
  ASSUME RateInv, NEW s \in Sources, Bucket(s).tokens = 0
  PROVE  /\ s \in DOMAIN PKTCOUNTHASHMAP.data /\ Bucket(s) \in Buckets
         /\ \E g \in Nat : Balanced(passes[s], Bucket(s), g, clock)
         /\ Keeps(Bucket(s).last_token_grant, clock)
<1> DEFINE data == PKTCOUNTHASHMAP.data
<1>1. clock \in Nat /\ SourceInv(s) /\ passes[s] \in Seq(Nat) BY DEF RateInv
<1>2. s \in DOMAIN data
  <2> SUFFICES ASSUME s \notin DOMAIN data PROVE FALSE OBVIOUS
  <2>1. Bucket(s) = [tokens |-> 1, last_token_grant |-> clock % 2^W] BY BucketFacts
  <2> QED BY <2>1
<1>3. PICK g \in Nat : Balanced(passes[s], data[s], g, clock) BY <1>1, <1>2 DEF SourceInv
<1>4. data[s] \in Buckets /\ Bucket(s) = grant_tokens_if_needed(data[s])
  BY <1>1, <1>2, BucketFacts DEF SourceInv
<1>5. g <= clock /\ Keeps(data[s].last_token_grant, g) BY <1>3 DEF Balanced
<1>6. /\ Bucket(s) \in Buckets /\ Keeps(Bucket(s).last_token_grant, clock)
      /\ Bucket(s) = data[s] \/ clock - g >= 2^W - Cap
  BY <1>1, <1>4, <1>5, GrantFacts
<1>7. \E h \in Nat : Balanced(passes[s], Bucket(s), h, clock)
  BY <1>1, <1>3, <1>4, <1>6, DropBalanced
<1> QED BY <1>2, <1>6, <1>7

LEMMA DropStep ==
  ASSUME RateInv, NEW s \in Sources, Bucket(s).tokens = 0, UNCHANGED <<clock, passes>>,
         PKTCOUNTHASHMAP' = bpf_map_update_elem(PKTCOUNTHASHMAP, s, Bucket(s))
  PROVE  RateInv'
<1> DEFINE data == PKTCOUNTHASHMAP.data
           b == Bucket(s)
<1>1. s \in DOMAIN data /\ b \in Buckets /\ \E g \in Nat : Balanced(passes[s], b, g, clock) BY EmptyBucket
<1>2. /\ PKTCOUNTHASHMAP' = [def |-> PKTCOUNTHASHMAP'.def, data |-> PKTCOUNTHASHMAP'.data]
      /\ PKTCOUNTHASHMAP'.def.type = "HASH"
      /\ DOMAIN PKTCOUNTHASHMAP'.data = DOMAIN data \cup {s}
      /\ PKTCOUNTHASHMAP'.data[s] = b
      /\ \A x \in DOMAIN data \ {s} : PKTCOUNTHASHMAP'.data[x] = data[x]
  BY StoreFacts
<1> HIDE DEF b, data
<1>3. SourceInv(s) BY DEF RateInv
<1>4. SourceInv(s)' BY <1>1, <1>2, <1>3 DEF SourceInv
<1>5. \A x \in Sources \ {s} : SourceInv(x)' BY <1>2 DEF RateInv, SourceInv, data
<1>6. \A x \in Sources : SourceInv(x)' BY <1>4, <1>5
<1> QED BY <1>2, <1>6 DEF RateInv

LEMMA TickStep ==
  ASSUME RateInv, Tick PROVE RateInv'
<1>1. clock \in Nat /\ clock' = clock + 1 /\ UNCHANGED <<PKTCOUNTHASHMAP, passes>> BY DEF RateInv, Tick
<1>2. ASSUME NEW x \in Sources PROVE SourceInv(x)'
  <2>1. SourceInv(x) BY DEF RateInv
  <2>2. ASSUME NEW p, NEW r, NEW g, Balanced(p, r, g, clock) PROVE Balanced(p, r, g, clock')
    BY <1>1, <2>2 DEF Balanced
  <2> QED BY <1>1, <2>1, <2>2 DEF SourceInv
<1> QED BY <1>1, <1>2 DEF RateInv

LEMMA RateInitInv == RateInit => RateInv
<1> SUFFICES ASSUME RateInit PROVE RateInv OBVIOUS
<1> DEFINE def == [type |-> "HASH", key_size |-> 4, value_size |-> 8, max_entries |-> 1024]
<1>1. PKTCOUNTHASHMAP = [def |-> def, data |-> [k \in {} |-> Zero]] BY DEF RateInit, Fresh
<1>2. PKTCOUNTHASHMAP.def = def /\ DOMAIN PKTCOUNTHASHMAP.data = {} BY <1>1
<1>3. clock \in Nat BY Period DEF RateInit
<1>4. \A s \in Sources : passes[s] = << >> BY DEF RateInit
<1>5. RateHoldsFor(<< >>) /\ NoCreditFor(<< >>) BY DEF RateHoldsFor, NoCreditFor
<1>6. \A s \in Sources : SourceInv(s) BY <1>2, <1>4, <1>5 DEF SourceInv
<1>7. passes \in [Sources -> Seq(Nat)] BY DEF RateInit
<1> QED BY <1>1, <1>2, <1>3, <1>6, <1>7 DEF RateInv

LEMMA RateExactFromInv == RateInv => RateExact
<1> SUFFICES ASSUME RateInv PROVE RateExact OBVIOUS
<1>1. \A s \in Sources : RateHoldsFor(passes[s]) /\ NoCreditFor(passes[s]) BY DEF RateInv, SourceInv
<1>2. RateHolds BY <1>1 DEF RateHolds, RateHoldsFor
<1>3. NoCreditAtStart BY <1>1 DEF NoCreditAtStart, NoCreditFor
<1>4. TurnedAwayOverRate
  <2> SUFFICES ASSUME NEW s \in Sources, Bucket(s).tokens = 0
               PROVE  /\ passes[s] # << >>
                      /\ passes[s][Len(passes[s])] = clock \/ clock - passes[s][Len(passes[s])] >= 2^W - Cap
    BY DEF TurnedAwayOverRate
  <2> DEFINE T == 2^W
             x == passes[s][Len(passes[s])]
  <2>1. PICK g \in Nat : Balanced(passes[s], Bucket(s), g, clock) BY EmptyBucket
  <2>2. Keeps(Bucket(s).last_token_grant, clock) BY EmptyBucket
  <2>3. Len(passes[s]) > 0 /\ g <= clock /\ Keeps(Bucket(s).last_token_grant, g) BY <2>1 DEF Balanced
  <2>4. x = g \/ g - x >= T - 3 BY <2>1 DEF Balanced, Cap
  <2>5. clock % T = g % T BY <2>2, <2>3, Zenon DEF Keeps
  <2>6. T \in Nat \ {0} /\ clock \in Nat /\ passes[s] \in Seq(Nat) BY Period DEF RateInv
  <2>7. x \in Nat BY <2>3, <2>6
  <2> HIDE DEF T, x
  <2>8. clock = g \/ clock - g >= T BY Zenon, <2>3, <2>5, <2>6, Seconds
  <2>9. x = clock \/ clock - x >= T - 3 BY <2>3, <2>4, <2>6, <2>7, <2>8
  <2>10. passes[s] # << >> BY <2>3
  <2> QED BY <2>9, <2>10 DEF T, x, Cap
<1> QED BY <1>2, <1>3, <1>4 DEF RateExact

-----------------------------------------------------------------------------
(* For any number of sources and any width of the seconds: try_filter()    *)
(* lets a source have its rate and not more, wherever the seconds wrap; a  *)
(* source that was silent for nearly a period of them may be turned away   *)
(* once, where the 32-bit sum of its tokens wraps to 0.                    *)
THEOREM RateIsExact == RateSpec => []RateExact
<1>1. ASSUME RateInv, [RateNext]_rateVars PROVE RateInv'
  <2>1. ASSUME NEW s \in Sources, try_filter(s) PROVE RateInv'
    BY <1>1, <2>1, PassStep, DropStep DEF try_filter
  <2>2. CASE Tick BY <1>1, <2>2, TickStep
  <2>3. CASE UNCHANGED rateVars
    <3>1. \A x \in Sources : SourceInv(x)' BY <1>1, <2>3 DEF rateVars, RateInv, SourceInv
    <3> QED BY <1>1, <2>3, <3>1 DEF rateVars, RateInv
  <2> QED BY <1>1, <2>1, <2>2, <2>3 DEF RateNext
<1> QED BY <1>1, RateInitInv, RateExactFromInv, PTL DEF RateSpec
-----------------------------------------------------------------------------
(* The small programs.                                                     *)

Counts == 0 .. 2^CounterWidth - 1

(* The inductive invariant of round-robin: packets that have been alone    *)
(* have not used an output the counter would give the next one.            *)
TurnInv ==
  /\ frame \in Frames \cup {NULL}
  /\ PKTCOUNTER = [def |-> PKTCOUNTER.def, data |-> PKTCOUNTER.data]
  /\ PKTCOUNTER.def.type = "ARRAY" /\ PKTCOUNTER.data \in [{0} -> Counts]
  /\ held \in [Threads -> Counts \cup {NULL}]
  /\ alone \in BOOLEAN
  /\ alone => \A t \in Threads : held[t] # NULL =>
       held[t] = PKTCOUNTER.data[0] /\ \A u \in Threads \ {t} : held[u] = NULL
  /\ alone /\ lastOutput # NULL =>
       lastOutput \in {0, 1} /\ PKTCOUNTER.data[0] % 2 # lastOutput

(* The counter keeps the parity of the packets counted, also when it wraps.*)
LEMMA IncrementedFacts ==
  ASSUME NEW n \in Counts
  PROVE  /\ Incremented(n) \in Counts /\ n % 2 \in {0, 1}
         /\ Incremented(n) % 2 # n % 2
<1> DEFINE T == 2^CounterWidth
<1>1. T \in Int /\ T >= 2 /\ T % 2 = 0 BY TurnAssumption
<1>2. n \in 0 .. T - 1 /\ Incremented(n) = (n + 1) % T BY Zenon DEF Counts, Incremented
<1> HIDE DEF T
<1>3. n \in Nat /\ n + 1 <= T BY <1>1, <1>2
<1>4. n + 1 < T => (n + 1) % T = n + 1 BY <1>1, <1>3
<1>5. n + 1 = T => (n + 1) % T = 0 BY <1>1, <1>3
<1>6. (n + 1) % T = (IF n + 1 < T THEN n + 1 ELSE 0) BY <1>1, <1>3, <1>4, <1>5
<1>7. Incremented(n) = (IF n + 1 < T THEN n + 1 ELSE 0) BY <1>2, <1>6
<1>8. (n + 1) % 2 # n % 2 /\ n % 2 \in {0, 1} BY <1>3
<1>9. Incremented(n) % 2 # n % 2
  <2>1. CASE n + 1 < T BY <2>1, <1>7, <1>8
  <2>2. CASE n + 1 = T
    <3>1. Incremented(n) = 0 /\ (n + 1) % 2 = 0 BY <2>2, <1>1, <1>7
    <3> QED BY <3>1, <1>8
  <2> QED BY <2>1, <2>2, <1>1, <1>3
<1>10. Incremented(n) \in 0 .. T - 1 BY <1>1, <1>3, <1>7
<1> QED BY <1>8, <1>9, <1>10 DEF Counts, T

LEMMA CountIsNotNull == NULL \notin Counts
BY TurnAssumption DEF Counts

LEMMA TurnInitInv == ProgramInit => TurnInv
<1> SUFFICES ASSUME ProgramInit PROVE TurnInv OBVIOUS
<1> DEFINE def == [type |-> "ARRAY", key_size |-> 4, value_size |-> 4, max_entries |-> 1]
           data == [i \in 0 .. def.max_entries - 1 |-> Zero]
<1>1. PKTCOUNTER = [def |-> def, data |-> data] BY DEF ProgramInit, Fresh
<1>2. data = [i \in {0} |-> 0] BY DEF Zero
<1>3. 0 \in Counts
  <2> DEFINE T == 2^CounterWidth
  <2>1. T \in Int /\ T >= 2 BY TurnAssumption
  <2> HIDE DEF T
  <2>2. 0 \in 0 .. T - 1 BY <2>1
  <2> QED BY <2>2 DEF Counts, T
<1>4. PKTCOUNTER.def = def /\ PKTCOUNTER.data = data BY <1>1
<1> HIDE DEF data
<1>5. PKTCOUNTER.data \in [{0} -> Counts] BY <1>2, <1>3, <1>4
<1>6. PKTCOUNTER.def.type = "ARRAY" BY <1>4
<1>7. held = [t \in Threads |-> NULL] /\ frame = NULL /\ lastOutput = NULL /\ alone = TRUE BY DEF ProgramInit
<1> QED BY <1>1, <1>4, <1>5, <1>6, <1>7 DEF TurnInv

LEMMA ReadStep ==
  ASSUME TurnInv, NEW t \in Threads, read_counter(t) PROVE TurnInv'
<1> DEFINE c == PKTCOUNTER.data[0]
<1>1. c \in Counts /\ bpf_map_lookup_elem(PKTCOUNTER, 0) = c
  BY DEF TurnInv, bpf_map_lookup_elem
<1>2. /\ held' = [held EXCEPT ![t] = c]
      /\ UNCHANGED <<frame, PKTCOUNTER, lastOutput>>
  BY Zenon, <1>1 DEF read_counter
<1>3. alone' \in BOOLEAN /\ (alone' => alone /\ \A u \in Threads : held[u] = NULL) BY Zenon DEF read_counter
<1>4. held' \in [Threads -> Counts \cup {NULL}] BY <1>1, <1>2 DEF TurnInv
<1>5. alone' => \A u \in Threads : held'[u] # NULL =>
        held'[u] = c /\ \A v \in Threads \ {u} : held'[v] = NULL
  BY <1>2, <1>3 DEF TurnInv
<1> HIDE DEF c
<1> QED BY <1>2, <1>3, <1>4, <1>5 DEF TurnInv, c

LEMMA WriteStep ==
  ASSUME TurnInv, NEW t \in Threads, write_counter(t) PROVE TurnInv'
<1> DEFINE m == PKTCOUNTER
           h == held[t]
           d == [m.data EXCEPT ![0] = Incremented(h)]
<1>1. h \in Counts /\ h # NULL BY DEF write_counter, TurnInv
<1>2. Incremented(h) \in Counts /\ h % 2 \in {0, 1} /\ Incremented(h) % 2 # h % 2
  BY <1>1, IncrementedFacts
<1>3. m' = [def |-> m.def, data |-> d]
  <2>1. m' = [m EXCEPT !.data[0] = Incremented(h)] BY DEF write_counter, bpf_map_update_elem, TurnInv
  <2> QED BY <2>1 DEF TurnInv
<1>4. d \in [{0} -> Counts] /\ d[0] = Incremented(h) BY <1>2 DEF TurnInv
<1>5. /\ held' = [held EXCEPT ![t] = NULL] /\ UNCHANGED frame
      /\ lastOutput' = IF alone THEN h % 2 ELSE NULL
      /\ alone' = (alone \/ \A u \in Threads \ {t} : held[u] = NULL)
  BY DEF write_counter, OUTPUTS_RR
<1> HIDE DEF d, h
<1>6. m'.def = m.def /\ m'.data = d BY <1>3
<1>7. held' \in [Threads -> Counts \cup {NULL}] BY <1>5 DEF TurnInv
<1>8. alone' => \A u \in Threads : held'[u] = NULL BY <1>1, <1>5 DEF TurnInv, h
<1>9. alone' /\ lastOutput' # NULL => lastOutput' \in {0, 1} /\ d[0] % 2 # lastOutput'
  BY <1>2, <1>4, <1>5
<1>10. m' = [def |-> m'.def, data |-> m'.data] /\ m'.def.type = "ARRAY" /\ m'.data \in [{0} -> Counts]
  BY <1>3, <1>4, <1>6 DEF TurnInv
<1>11. alone' \in BOOLEAN /\ frame' \in Frames \cup {NULL} BY <1>5 DEF TurnInv
<1> QED BY <1>6, <1>7, <1>8, <1>9, <1>10, <1>11 DEF TurnInv

LEMMA TurnInvariance == ProgramSpec => []TurnInv
<1>1. ASSUME TurnInv, [ProgramNext]_programVars PROVE TurnInv'
  <2>1. CASE \E f \in Frames : See(f) BY <1>1, <2>1 DEF See, turnVars, TurnInv
  <2>2. CASE \E t \in Threads : read_counter(t) \/ write_counter(t)
    BY <1>1, <2>2, ReadStep, WriteStep
  <2>3. CASE UNCHANGED programVars BY <1>1, <2>3 DEF programVars, turnVars, TurnInv
  <2> QED BY <1>1, <2>1, <2>2, <2>3 DEF ProgramNext
<1> QED BY <1>1, TurnInitInv, PTL DEF ProgramSpec

(* Packets take turns in round-robin, whatever the width of the counter,   *)
(* however many threads share it and wherever between reading and storing  *)
(* it they overlap: of two packets in a row that were alone, the second    *)
(* one gets the other output.                                              *)
THEOREM Turns == ProgramSpec => TakesTurns
<1> DEFINE A == \A t \in Threads : held[t] # NULL /\ held'[t] = NULL /\ alone /\ lastOutput # NULL
                  => held[t] % OUTPUTS_RR # lastOutput
<1>1. ASSUME TurnInv, [ProgramNext]_programVars PROVE [A]_programVars
  <2>1. A BY <1>1 DEF TurnInv, OUTPUTS_RR
  <2> QED BY <2>1
<1> QED BY <1>1, TurnInvariance, PTL DEF ProgramSpec, TakesTurns

(* dns-filter lets no query for the blocked domain pass whose headers and  *)
(* length are in order, and target-port, firewall and the classifier       *)
(* decide by the packet's own port and by no byte beyond its end, for      *)
(* frames of every length and header length.                               *)
THEOREM Verdicts == ProgramSpec => []PacketVerdicts
<1>1. ASSUME NEW f \in Frames, frame = f PROVE DnsBlocked
  <2>1. f.len \in Nat /\ f.ihl \in Nat /\ f.udp_len \in Nat BY FrameAssumption
  <2> SUFFICES ASSUME f.type = "Ipv4", f.proto = "udp", IhlBytes(f) >= IP4, Whole(f, ETH),
                      f.dest = DNS_PORT, f.udp_len >= DnsHeader,
                      NEW i \in DOMAIN f.names, f.names[i] = Blocked
               PROVE  "Pass" \notin dns_filter(f)
    BY <1>1 DEF DnsBlocked
  <2>2. Questions(f) = "Drop" BY DEF Questions
  <2>3. IhlBytes(f) \in Nat /\ PortAt(f, IhlBytes(f)) = DNS_PORT BY <2>1 DEF IhlBytes, PortAt
  <2> QED BY <2>1, <2>2, <2>3 DEF dns_filter, get_ptr, get_slice, Whole, PortLen, ETH, IP4, UDPLen, DnsHeader
<1>2. ASSUME NEW f \in Frames, frame = f PROVE PortDecides
  <2>1. f.len \in Nat BY FrameAssumption
  <2> SUFFICES ASSUME IhlBytes(f) = IP4
               PROVE  /\ target_port(f) = "Pass" => Whole(f, 0) /\ f.dest # 12345
                      /\ firewall(f) = "Pass" => Whole(f, ETH) /\ f.dest = 1000
                      /\ udp_tcp_classifier(f) # "Rest" => ETH + IP4 <= f.len
    BY <1>2 DEF PortDecides
  <2>2. PortAt(f, IP4) = f.dest /\ PortLen(f) \in Nat BY DEF PortAt, PortLen, TCPLen, UDPLen
  <2>3. target_port(f) = "Pass" => Whole(f, 0) /\ f.dest # 12345
    BY <2>1, <2>2 DEF target_port, PortReached, get_ptr, Whole, IP4
  <2>4. firewall(f) = "Pass" => Whole(f, ETH) /\ f.dest = 1000
    BY <2>1, <2>2 DEF firewall, PortReached, get_ptr, Whole, ETH, IP4
  <2>5. udp_tcp_classifier(f) # "Rest" => ETH + IP4 <= f.len
    BY <2>1 DEF udp_tcp_classifier, get_ptr
  <2> QED BY <2>3, <2>4, <2>5
<1>3. TurnInv => PacketVerdicts
  BY <1>1, <1>2 DEF TurnInv, PacketVerdicts, DnsBlocked, PortDecides
<1> QED BY <1>3, TurnInvariance, PTL
=============================================================================
