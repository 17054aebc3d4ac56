--------------------------- MODULE StringMatcher ---------------------------
(* The StringMatcher element (stringmatcher.cc with the wrapper              *)
(* ahocorasickplus.{hh,cc}), and the eBPF program that is to do the same for *)
(* one word (ebpf/src/bin/stringmatcher.rs).                                 *)
EXTENDS Multifast

CONSTANTS
  Confs,          \* configurations: sequences of texts
  Packets,
  NOutputs,       \* numbers of outputs an element may be wired with
  MatchWord,      \* match_word of the eBPF program
  HeaderSize,     \* size of Ipv4Hdr
  MaxInspected,   \* 2000 in the code
  MaxCount        \* bound of the counter

VARIABLES
  matcher,        \* the nodes of _matcher
  matcher_open,
  _patterns,      \* Vector<String>
  _matches,
  noutputs,
  inForce,        \* history: the configuration accepted last
  packet,         \* the packet handled last, NIL before
  verdict,        \* where it went: "output 0", "output 1" or "killed"
  ebpf            \* what the eBPF program says of it

elementVars == <<matcher, matcher_open, _patterns, _matches, noutputs, inForce, packet, verdict, ebpf>>

AsPattern(t) == [ptext |-> t, rtext |-> NIL]

\* add_pattern on a matcher m: its nodes and the patterns it has taken.
add_pattern(m, t) ==
  LET status == ac_trie_add_status(TRUE, m.nodes, t)
  IN IF status # "ACERR_SUCCESS" THEN [m EXCEPT !.status = Append(@, status)]
     ELSE [nodes |-> ac_trie_add_nodes(m.nodes, AsPattern(t)),
           status |-> Append(m.status, status), taken |-> Append(m.taken, t)]

Empty == [nodes |-> Root :> node_init, status |-> <<>>, taken |-> <<>>]

is_valid_patterns(conf) ==
  LET m == FoldLeft(add_pattern, Empty, conf)
  IN \A i \in DOMAIN conf : m.status[i] \notin {"ACERR_ZERO_PATTERN", "ACERR_LONG_PATTERN"}

ElementInit ==
  /\ matcher = Empty.nodes /\ matcher_open = TRUE
  /\ _patterns = <<>> /\ _matches = 0
  /\ noutputs \in NOutputs
  /\ inForce = <<>>
  /\ packet = NIL /\ verdict = NIL /\ ebpf = NIL

\* A matcher that is closed or has patterns is released and made anew.
StringMatcher_configure_bug(conf) ==
  LET old == IF matcher_open THEN [Empty EXCEPT !.nodes = matcher] ELSE Empty
      m == FoldLeft(add_pattern, old, conf)
  IN /\ IF is_valid_patterns(conf)
        THEN /\ matcher' = ac_trie_finalize_nodes(m.nodes)
             /\ matcher_open' = FALSE
             /\ _patterns' = m.taken
        ELSE /\ matcher' = Empty.nodes
             /\ UNCHANGED <<matcher_open, _patterns>>
     /\ inForce' = IF is_valid_patterns(conf) THEN conf ELSE inForce
     /\ packet' = NIL
     /\ UNCHANGED <<_matches, noutputs, verdict, ebpf>>

StringMatcher_configure(conf) ==
  LET old == IF ~matcher_open \/ _patterns # <<>> THEN Empty
             ELSE [Empty EXCEPT !.nodes = matcher]
      m == FoldLeft(add_pattern, old, conf)
  IN /\ IF is_valid_patterns(conf)
        THEN /\ matcher' = ac_trie_finalize_nodes(m.nodes)
             /\ matcher_open' = FALSE
             /\ _patterns' = m.taken
             /\ inForce' = conf
        ELSE UNCHANGED <<matcher, matcher_open, _patterns, inForce>>
     /\ packet' = NIL
     /\ UNCHANGED <<_matches, noutputs, verdict, ebpf>>

\* settext with keep = false, so from the root, then one findnext.
match_any(t) ==
  LET r == Scan(matcher, t, 0, Root, TRUE)
  IN r.stopped /\ matcher[r.hits[1].node].matched # <<>>

\* stringmatcher_try_filter of stringmatcher.rs: the loop from byte i in the given state.
RECURSIVE Inspect(_, _, _)
Inspect(t, i, state) ==
  CASE i >= MaxInspected \/ i >= Len(t) -> "Pass"
    [] i < MaxInspected /\ i < Len(t) /\ state >= Len(MatchWord) -> "Drop"
    [] OTHER -> Inspect(t, i + 1, IF t[i + 1] = MatchWord[state + 1] THEN state + 1 ELSE 0)

stringmatcher_try_filter(t) == IF Len(t) < HeaderSize THEN "Abort" ELSE Inspect(t, 0, 0)

simple_action(p) ==
  /\ ~matcher_open                  \* packets flow once configure has succeeded
  /\ packet' = p
  /\ \/ /\ match_any(p)
        /\ _matches < MaxCount
        /\ _matches' = _matches + 1
        /\ verdict' = IF noutputs = 2 THEN "output 1" ELSE "killed"
     \/ /\ ~match_any(p)
        /\ verdict' = "output 0"
        /\ UNCHANGED _matches
  /\ ebpf' = stringmatcher_try_filter(p)
  /\ UNCHANGED <<matcher, matcher_open, _patterns, noutputs, inForce>>

write_handler ==
  /\ _matches' = 0
  /\ UNCHANGED <<matcher, matcher_open, _patterns, noutputs, inForce, packet, verdict, ebpf>>

ElementNext ==
  \/ \E conf \in Confs : StringMatcher_configure(conf)
  \/ \E p \in Packets : simple_action(p)
  \/ write_handler

-----------------------------------------------------------------------------
\* However often the element is reconfigured, and whatever was refused in
\* between, a packet leaves by output 0 exactly if it contains none of the
\* strings of the configuration accepted last; a refused configuration changes
\* nothing ("prevent us from doing any changes to the state if there is an
\* error", stringmatcher.cc).
VerdictExact ==
  packet # NIL =>
    (verdict = "output 0" <=> ~\E i \in DOMAIN inForce : Occurs(inForce[i], packet))

\* The eBPF program drops only packets that contain its word: the element
\* configured with the word would take them out too. (The converse is not so:
\* the program looks at its state before the next byte, so that it misses a
\* word at the end of a packet, and it does not look again at the byte at which
\* a beginning of the word breaks off.)
EbpfDropsOnlyWord == packet # NIL /\ ebpf = "Drop" => Occurs(MatchWord, packet)

\* The element and the program that can stand in for it decide by the word.
VerdictsSound == VerdictExact /\ EbpfDropsOnlyWord
=============================================================================
