------------------------------- MODULE Checksum -------------------------------
(* update_checksum() and update_checksum_ip() of the eBPF library: the     *)
(* header checksum is kept up to date while addresses of an IP header are  *)
(* overwritten, instead of being computed again.                           *)
EXTENDS Integers

CONSTANT P    \* bits of a checksum word, and of a port: 16

ASSUME WordAssumption == P \in Nat \ {0, 1} /\ 2^P >= 4

M == 2^P
Words == 0 .. M - 1
Flip(x) == M - 1 - x    \* ! of a word
Low(x) == x % M        \* as u16
High(x) == (x \div M) % M

update_bug(checksum, old, new) ==
  LET s == Flip(checksum) + Flip(old) + new IN Flip(Low(s))

update_checksum(checksum, old, new) ==
  LET s == Flip(checksum) + Flip(old) + new
      t == Low(s) + (s \div M)
  IN  Flip(Low(t + (t \div M)))

update_checksum_ip(checksum, old, new) ==
  update_checksum(update_checksum(checksum, High(old), High(new)), Low(old), Low(new))

(* What the receiver checks: all words of the header, the checksum and the *)
(* sum r of the words that never change among them, add up to ones with    *)
(* end-around carry.  0 and M - 1 are the two zeros of that arithmetic.    *)
Valid(r, s, d, c) == (r + High(s) + Low(s) + High(d) + Low(d) + c) % (M - 1) = 0
=============================================================================
