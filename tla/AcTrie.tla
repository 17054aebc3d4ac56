------------------------------- MODULE AcTrie ------------------------------
(* The trie of the Aho-Corasick matcher: its nodes (node.c), the failure     *)
(* links and the scan of a text (ahocorasick.c). A node is told by the       *)
(* letters on the way from the root to it, so its depth is its length.       *)
EXTENDS Integers, Sequences, SequencesExt

CONSTANTS NIL, AC_PATTRN_MAX_LENGTH

Root == <<>>

node_init ==
  [final |-> FALSE, failure |-> NIL, outgoing |-> <<>>, matched |-> <<>>,
   to_be_replaced |-> NIL]

\* Linear search, while edges are in the order in which they were added.
node_find_next(nodes, n, alpha) ==
  IF \E i \in DOMAIN nodes[n].outgoing : nodes[n].outgoing[i] = alpha
  THEN Append(n, alpha) ELSE NIL

\* Binary search among outgoing edges min..max (counted from 0).
RECURSIVE Bisect(_, _, _, _)
Bisect(outgoing, alpha, min, max) ==
  LET mid == (min + max) \div 2
      amid == outgoing[mid + 1]
  IN /\ min <= max
     /\ \/ alpha = amid
        \/ alpha > amid /\ Bisect(outgoing, alpha, mid + 1, max)
        \/ alpha < amid /\ Bisect(outgoing, alpha, min, mid - 1)

node_find_next_bs(nodes, n, alpha) ==
  IF Bisect(nodes[n].outgoing, alpha, 0, Len(nodes[n].outgoing) - 1)
  THEN Append(n, alpha) ELSE NIL

\* A pattern enters the list of a node unless it has one with the same text.
node_accept_pattern(matched, patt) ==
  IF \E i \in DOMAIN matched : matched[i].ptext = patt.ptext
  THEN matched ELSE Append(matched, patt)

-----------------------------------------------------------------------------
(* ac_trie_add: the nodes on the way that are missing, an edge to each of    *)
(* them from its parent, and the pattern at the last one.                    *)

Missing(nodes, ptext) == {SubSeq(ptext, 1, i) : i \in DOMAIN ptext} \ DOMAIN nodes

node_add_edge(nodes, ptext) ==
  LET new == Missing(nodes, ptext)
      next(n) == Append(n, ptext[Len(n) + 1])
      grown(n) == IF n \in DOMAIN nodes THEN nodes[n] ELSE node_init
      hasnext(n) == /\ Len(n) < Len(ptext)
                    /\ n = SubSeq(ptext, 1, Len(n))
                    /\ next(n) \in new
  IN [n \in DOMAIN nodes \cup new |->
        IF hasnext(n)
        THEN [grown(n) EXCEPT !.outgoing = Append(@, ptext[Len(n) + 1])]
        ELSE grown(n)]

ac_trie_add_status(open, nodes, ptext) ==
  CASE ~open -> "ACERR_TRIE_CLOSED"
    [] open /\ ptext = <<>> -> "ACERR_ZERO_PATTERN"
    [] open /\ Len(ptext) > AC_PATTRN_MAX_LENGTH -> "ACERR_LONG_PATTERN"
    [] open /\ ptext \in DOMAIN nodes /\ nodes[ptext].final -> "ACERR_DUPLICATE_PATTERN"
    [] OTHER -> "ACERR_SUCCESS"

ac_trie_add_nodes(nodes, patt) ==
  [node_add_edge(nodes, patt.ptext) EXCEPT
     ![patt.ptext] = [@ EXCEPT !.final = TRUE,
                               !.matched = node_accept_pattern(@, patt)]]

-----------------------------------------------------------------------------
(* ac_trie_finalize: failure links, then the patterns that end at each node. *)

\* The first proper suffix of the way to n that is itself a node.
ac_trie_set_failure_bug(nodes, n) ==
  IF n = Root THEN NIL
  ELSE LET found == {i \in 1 .. Len(n) : SubSeq(n, i + 1, Len(n)) \in DOMAIN nodes}
       IN SubSeq(n, (CHOOSE i \in found : \A j \in found : j <= i) + 1, Len(n))

ac_trie_set_failure(nodes, n) ==
  IF n = Root THEN NIL
  ELSE LET found == {i \in 1 .. Len(n) : SubSeq(n, i + 1, Len(n)) \in DOMAIN nodes}
       IN SubSeq(n, (CHOOSE i \in found : \A j \in found : i <= j) + 1, Len(n))

RECURSIVE Failures(_, _)
Failures(nodes, n) ==
  LET f == nodes[n].failure
  IN IF f = NIL THEN <<>> ELSE <<f>> \o Failures(nodes, f)

\* qsort of the edges: letters are unique in a node.
node_sort_edges(outgoing) == SortSeq(outgoing, <)

node_collect_matches(nodes, n) ==
  LET chain == Failures(nodes, n)
      theirs == FlattenSeq([i \in DOMAIN chain |-> nodes[chain[i]].matched])
  IN [nodes EXCEPT ![n] =
        [@ EXCEPT !.matched = FoldLeft(node_accept_pattern, @, theirs),
                  !.final = @ \/ \E i \in DOMAIN chain : nodes[chain[i]].final,
                  !.outgoing = node_sort_edges(@)]]

\* The order of ac_trie_traverse_action, top down.
RECURSIVE Preorder(_, _)
Preorder(nodes, n) ==
  <<n>> \o FlattenSeq([i \in DOMAIN nodes[n].outgoing |->
                         Preorder(nodes, Append(n, nodes[n].outgoing[i]))])

\* The longest accepted pattern for which a replacement is asked.
node_book_replacement(node) ==
  LET asked == {i \in DOMAIN node.matched : node.matched[i].rtext # NIL}
      longer(i, j) == Len(node.matched[i].ptext) > Len(node.matched[j].ptext)
  IN IF ~node.final \/ asked = {} THEN NIL
     ELSE node.matched[CHOOSE i \in asked :
            \A j \in asked \ {i} : longer(i, j) \/ (~longer(j, i) /\ i < j)]

ac_trie_finalize_nodes(nodes) ==
  LET linked == [n \in DOMAIN nodes |->
                   [nodes[n] EXCEPT !.failure = ac_trie_set_failure(nodes, n)]]
      collected == FoldLeft(node_collect_matches, linked, Preorder(linked, Root))
  IN [n \in DOMAIN nodes |->
        [collected[n] EXCEPT !.to_be_replaced = node_book_replacement(collected[n])]]

-----------------------------------------------------------------------------
(* The loop of ac_trie_search and of multifast_replace from node current and *)
(* place position of text (counted from 0). A hit is a node and the place    *)
(* behind the letter that led to it. The loop ends early at the first hit    *)
(* when stop holds (the callback returns non-zero).                          *)

RECURSIVE Scan(_, _, _, _, _)
Scan(nodes, text, position, current, stop) ==
  IF position >= Len(text)
  THEN [node |-> current, position |-> position, hits |-> <<>>, stopped |-> FALSE]
  ELSE LET next == node_find_next_bs(nodes, current, text[position + 1])
           fails == next = NIL /\ nodes[current].failure # NIL
           node == IF next # NIL THEN next
                   ELSE IF fails THEN nodes[current].failure ELSE current
           behind == IF fails THEN position ELSE position + 1
           hit == IF nodes[node].final /\ next # NIL
                  THEN <<[node |-> node, position |-> behind]>> ELSE <<>>
       IN IF hit # <<>> /\ stop
          THEN [node |-> node, position |-> behind, hits |-> hit, stopped |-> TRUE]
          ELSE LET rest == Scan(nodes, text, behind, node, stop)
               IN [rest EXCEPT !.hits = hit \o @]

-----------------------------------------------------------------------------
(* What the automaton is compared with.                                      *)

\* word ends at place e of text.
EndsAt(word, text, e) ==
  Len(word) <= e /\ SubSeq(text, e - Len(word) + 1, e) = word

Occurs(word, text) == \E e \in DOMAIN text : EndsAt(word, text, e)
=============================================================================
