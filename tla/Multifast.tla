----------------------------- MODULE Multifast -----------------------------
(* The Aho-Corasick library as its clients use it: patterns are added, the   *)
(* trie is closed, then texts are searched, or patterns replaced in them,    *)
(* chunk by chunk (ahocorasick.c, replace.c, mpool.c).                       *)
(*                                                                           *)
(* Positions are counted from the start of the text that the chunks make up. *)
(* stream is that text, output what the replacement callback has received,   *)
(* call what the last call reported; all three are history.                  *)
EXTENDS AcTrie, Mpool, FiniteSets

CONSTANTS
  Patterns,                    \* records [ptext, rtext]; rtext may be NIL
  Texts,                       \* the chunks a client passes
  ReplaceModes,                \* subset of {"NORMAL", "LAZY"}
  Keeps, Copies,               \* values of keep and copy that the library gets
  NODE_SIZE,                   \* sizeof(ACT_NODE_t)
  MF_REPLACEMENT_BUFFER_SIZE,
  MaxPatterns, MaxStream       \* bounds: patterns added, letters in a stream

VARIABLES
  nodes, trie_open, last_node, base_position,
  text, position,              \* set by ac_trie_settext
  rd,                          \* MF_REPLACEMENT_DATA_t
  stream, output, call

trieVars == <<nodes, trie_open, poolVars>>
scanVars == <<last_node, base_position>>
textVars == <<text, position>>
libraryVars == <<trieVars, scanVars, textVars, rd, stream, output, call>>

Quiet == [op |-> "none", hits |-> <<>>, from |-> 0, done |-> TRUE, remembered |-> 0]

mf_repdata_reset(r) == [r EXCEPT !.buffer = <<>>, !.backlog = <<>>, !.curser = 0, !.noms = <<>>]

\* The initial states: the pool, the root, no replacement data.
ac_trie_create ==
  /\ PoolCreated(NODE_SIZE)
  /\ nodes = (Root :> node_init)
  /\ trie_open = TRUE
  /\ last_node = Root /\ base_position = 0
  /\ text = NIL /\ position = 0
  /\ rd = [buffer |-> <<>>, backlog |-> <<>>, curser |-> 0, noms |-> <<>>,
           has_replacement |-> 0, mode |-> "NORMAL"]
  /\ stream = <<>> /\ output = <<>> /\ call = Quiet

-----------------------------------------------------------------------------
\* mpool_strndup of a text: nothing for NIL, else the letters and a zero.
StrndupSizes(t) == IF t = NIL THEN <<>> ELSE <<Len(t) + 1>>

\* node_create for the missing nodes, node_copy_pattern when copy is asked.
AddSizes(patt, copy, status) ==
  [i \in 1 .. Cardinality(Missing(nodes, patt.ptext)) |-> NODE_SIZE]
  \o (IF copy /\ status = "ACERR_SUCCESS"
      THEN StrndupSizes(patt.ptext) \o StrndupSizes(patt.rtext) ELSE <<>>)

ac_trie_add(patt, copy) ==
  LET status == ac_trie_add_status(trie_open, nodes, patt.ptext)
  IN /\ Cardinality({n \in DOMAIN nodes : nodes[n].matched # <<>>}) < MaxPatterns
     /\ trie_open
     /\ \/ /\ status = "ACERR_SUCCESS"
           /\ nodes' = ac_trie_add_nodes(nodes, patt)
           /\ Requests(AddSizes(patt, copy, status))
        \/ /\ status # "ACERR_SUCCESS"
           /\ UNCHANGED <<nodes, poolVars>>
     /\ call' = [Quiet EXCEPT !.op = status]
     /\ UNCHANGED <<trie_open, scanVars, textVars, rd, stream, output>>

Booked(ns) == Cardinality({n \in DOMAIN ns : ns[n].to_be_replaced # NIL})

ac_trie_finalize ==
  /\ trie_open
  /\ nodes' = ac_trie_finalize_nodes(nodes)
  /\ rd' = [rd EXCEPT !.has_replacement = Booked(nodes')]
  /\ trie_open' = FALSE
  /\ call' = Quiet
  /\ UNCHANGED <<poolVars, scanVars, textVars, stream, output>>

-----------------------------------------------------------------------------
(* Searching. A client does not mix ways of working inside one text.         *)

\* The text that the next chunk continues: none after a replacement has ended.
Restarted == call.op \notin {"search", "find", "replace"} \/ (call.op = "replace" /\ call.done)

Using(op) == Restarted \/ call.op = op

Carried(history) == IF Restarted THEN <<>> ELSE history

Room(chunk) == Len(Carried(stream)) + Len(chunk) <= MaxStream

\* The node to go on from is read before the reset that keep = 0 asks for: it
\* spells the letters of the text before that a pattern may begin with.
ac_trie_search(chunk, keep, stop) ==
  LET base == IF keep THEN base_position ELSE 0
      before == IF keep THEN Carried(stream) ELSE last_node
      remembered == IF keep THEN call.remembered ELSE Len(last_node)
  IN /\ ~trie_open
     /\ keep => Using("search")
     /\ Len(before) + Len(chunk) <= MaxStream
     /\ \E r \in {Scan(nodes, chunk, 0, last_node, stop)} :
          /\ call' = [op |-> "search", done |-> ~r.stopped, from |-> Len(before),
                      remembered |-> IF r.stopped /\ ~keep THEN 0 ELSE remembered,
                      hits |-> [i \in DOMAIN r.hits |->
                                  [position |-> r.hits[i].position + base,
                                   matched |-> nodes[r.hits[i].node].matched]]]
          /\ IF r.stopped
             THEN /\ last_node' = IF keep THEN last_node ELSE Root
                  /\ base_position' = base
                  /\ stream' = IF keep THEN before ELSE <<>>
             ELSE /\ last_node' = r.node
                  /\ base_position' = base + r.position
                  /\ stream' = before \o chunk
     /\ rd' = IF keep THEN rd ELSE mf_repdata_reset(rd)
     /\ UNCHANGED <<trieVars, textVars, output>>

\* A sequel is passed when the chunk before it has been searched to its end.
ac_trie_settext(chunk, keep) ==
  /\ ~trie_open
  /\ keep => call.op = "find" /\ call.done
  /\ text' = chunk /\ position' = 0
  /\ IF keep
     THEN /\ Room(chunk)
          /\ stream' = stream \o chunk
          /\ UNCHANGED <<scanVars, rd>>
     ELSE /\ last_node' = Root /\ base_position' = 0
          /\ rd' = mf_repdata_reset(rd)
          /\ stream' = chunk
  /\ call' = [Quiet EXCEPT !.op = "find", !.done = FALSE, !.from = Len(stream') - Len(chunk)]
  /\ UNCHANGED <<trieVars, output>>

\* _findnext: a search that stops at the first hit and remembers where.
FindNext(ns, t, pos, node, base) ==
  LET r == Scan(ns, t, pos, node, TRUE)
  IN [stopped |-> r.stopped,
      position |-> IF r.stopped THEN r.position ELSE pos,
      node |-> r.node,
      base |-> IF r.stopped THEN base ELSE base + r.position,
      hits |-> [i \in DOMAIN r.hits |->
                  [position |-> r.hits[i].position + base,
                   matched |-> ns[r.hits[i].node].matched]]]

ac_trie_findnext ==
  /\ call.op = "find" /\ ~call.done
  /\ \E f \in {FindNext(nodes, text, position, last_node, base_position)} :
       /\ position' = f.position /\ last_node' = f.node /\ base_position' = f.base
       /\ call' = [call EXCEPT !.done = ~f.stopped, !.hits = f.hits,
                               !.from = IF call.hits = <<>> THEN @ ELSE call.hits[1].position]
  /\ UNCHANGED <<trieVars, text, rd, stream, output>>

-----------------------------------------------------------------------------
(* Replacing: operators on a record with the replacement data r and the text *)
(* the callback has received.                                                *)

Start(nom) == nom.position - Len(nom.pattern.ptext)

mf_repdata_flush(s) == [r |-> [s.r EXCEPT !.buffer = <<>>], out |-> s.out \o s.r.buffer]

\* The buffer goes to the callback whenever it is full.
mf_repdata_appendtext(s, t) ==
  LET all == s.r.buffer \o t
      full == (Len(all) \div MF_REPLACEMENT_BUFFER_SIZE) * MF_REPLACEMENT_BUFFER_SIZE
  IN [r |-> [s.r EXCEPT !.buffer = SubSeq(all, full + 1, Len(all))],
      out |-> s.out \o SubSeq(all, 1, full)]

mf_repdata_appendfactor(s, instr, base, from, to) ==
  LET backlog_base == base - Len(s.r.backlog)
      old(f, t) == SubSeq(s.r.backlog, f - backlog_base + 1, t - backlog_base)
      new(f, t) == SubSeq(instr, f - base + 1, t - base)
  IN CASE to < from -> s
       [] to >= from /\ base <= from -> mf_repdata_appendtext(s, new(from, to))
       [] to >= from /\ base > from /\ from < backlog_base -> s
       [] OTHER ->
            IF to < base THEN mf_repdata_appendtext(s, old(from, to))
            ELSE mf_repdata_appendtext(mf_repdata_appendtext(s, old(from, base)), new(base, to))

\* LAZY: what overlaps an earlier one is ignored. NORMAL: those at the end of
\* the list that lie inside the new one give way to it.
mf_repdata_booknominee(r, nom) ==
  LET keep(k) == k = 0 \/ Start(r.noms[k]) < Start(nom)
      kept == CHOOSE k \in 0 .. Len(r.noms) :
                keep(k) /\ \A j \in k + 1 .. Len(r.noms) : ~keep(j)
      late == \/ Start(nom) < r.curser
              \/ r.noms # <<>> /\ Start(nom) < Last(r.noms).position
  IN CASE nom.pattern = NIL -> r
       [] nom.pattern # NIL /\ r.mode = "LAZY" ->
            IF late THEN r ELSE [r EXCEPT !.noms = Append(@, nom)]
       [] OTHER -> [r EXCEPT !.noms = Append(SubSeq(@, 1, kept), nom)]

\* One round of the loop of mf_repdata_do_replace.
ReplaceNominee(s, instr, base, nom) ==
  LET before == mf_repdata_appendfactor(s, instr, base, s.r.curser, Start(nom))
      done == mf_repdata_appendtext(before, nom.pattern.rtext)
  IN [done EXCEPT !.r.curser = nom.position]

mf_repdata_do_replace(s, instr, base, to) ==
  LET noms == s.r.noms
      n == CHOOSE k \in 0 .. Len(noms) :
             /\ \A i \in 1 .. k : to > Start(noms[i])
             /\ k = Len(noms) \/ to <= Start(noms[k + 1])
      replaced == FoldLeft(LAMBDA acc, nom : ReplaceNominee(acc, instr, base, nom),
                           s, SubSeq(noms, 1, n))
      left == [replaced EXCEPT !.r.noms = SubSeq(noms, n + 1, Len(noms))]
      passed == IF to > left.r.curser
                THEN [mf_repdata_appendfactor(left, instr, base, left.r.curser, to)
                        EXCEPT !.r.curser = to]
                ELSE left
  IN IF to < base THEN s
     ELSE IF base <= passed.r.curser THEN [passed EXCEPT !.r.backlog = <<>>] ELSE passed

\* As if there were room for it: see BacklogFits.
mf_repdata_savetobacklog(r, instr, base, bg_pos) ==
  LET bg_pos_r == IF base < bg_pos THEN bg_pos - base ELSE 0
  IN IF Len(instr) <= bg_pos_r THEN r
     ELSE [r EXCEPT !.backlog = @ \o SubSeq(instr, bg_pos_r + 1, Len(instr))]

Nominees(hits) ==
  [i \in DOMAIN hits |-> [pattern |-> nodes[hits[i].node].to_be_replaced, position |-> base_position + hits[i].position]]

multifast_replace(instr, mode) ==
  /\ ~trie_open /\ rd.has_replacement > 0
  /\ Using("replace") /\ Room(instr)
  /\ Restarted \/ rd.mode = mode
  /\ \E scan \in {Scan(nodes, instr, 0, last_node, FALSE)} :
       LET backlog_pos == base_position + Len(instr) - Len(scan.node)
           booked == FoldLeft(mf_repdata_booknominee, [rd EXCEPT !.mode = mode], Nominees(scan.hits))
       IN  \E done \in {mf_repdata_do_replace([r |-> booked, out |-> Carried(output)], instr, base_position, backlog_pos)} :
             /\ rd' = mf_repdata_savetobacklog(done.r, instr, base_position, backlog_pos)
             /\ output' = done.out
             /\ last_node' = scan.node
             /\ base_position' = base_position + scan.position
  /\ text' = instr
  /\ stream' = Carried(stream) \o instr
  /\ call' = [Quiet EXCEPT !.op = "replace", !.done = FALSE]
  /\ UNCHANGED <<trieVars, position>>

multifast_rep_flush(keep) ==
  LET s == [r |-> rd, out |-> output]
      done == IF keep THEN s ELSE mf_repdata_do_replace(s, text, base_position, base_position)
      flushed == mf_repdata_flush(done)
  IN /\ call.op = "replace" /\ ~call.done
     /\ output' = flushed.out
     /\ IF keep
        THEN rd' = flushed.r /\ UNCHANGED <<scanVars, call>>
        ELSE /\ rd' = mf_repdata_reset(flushed.r)
             /\ last_node' = Root /\ base_position' = 0
             /\ call' = [call EXCEPT !.done = TRUE]
     /\ UNCHANGED <<trieVars, textVars, stream>>

LibraryNext ==
  \/ \E patt \in Patterns, copy \in Copies : ac_trie_add(patt, copy)
  \/ ac_trie_finalize
  \/ \E chunk \in Texts, keep \in Keeps, stop \in BOOLEAN : ac_trie_search(chunk, keep, stop)
  \/ \E chunk \in Texts, keep \in BOOLEAN : ac_trie_settext(chunk, keep)
  \/ ac_trie_findnext
  \/ \E chunk \in Texts, mode \in ReplaceModes : multifast_replace(chunk, mode)
  \/ \E keep \in BOOLEAN : multifast_rep_flush(keep)

-----------------------------------------------------------------------------
(* Properties.                                                               *)

Added == {p \in Patterns :
            /\ p.ptext \in DOMAIN nodes
            /\ nodes[p.ptext].matched # <<>>
            /\ nodes[p.ptext].matched[1] = p}

EndingAt(e) == {p \in Added : EndsAt(p.ptext, stream, e)}

Reported(e) == UNION {ToSet(call.hits[i].matched) :
                        i \in {j \in DOMAIN call.hits : call.hits[j].position = e}}

\* ac_trie_search over consecutive chunks reports at every place exactly the
\* patterns that end there in the text as a whole: those that lie across two
\* chunks too, and each with its position in the whole text.  With keep = 0 it
\* does not forget the text before: a pattern that begins in what the node it
\* goes on from remembers of it is reported too, at its place in the new text.
SearchExact ==
  call.op = "search" /\ call.done =>
    \A e \in call.from + 1 .. Len(stream) : Reported(e - call.remembered) = EndingAt(e)

\* Repeated ac_trie_findnext passes over no match and invents none: a call
\* returns the first place behind the one before at which patterns end, with
\* exactly these, the longest first (match_first names that one).
FindNextExact ==
  /\ call.op = "find" /\ call.hits # <<>> =>
       LET e == call.hits[1].position IN
       /\ Reported(e) = EndingAt(e) /\ EndingAt(e) # {}
       /\ \A f \in call.from + 1 .. e - 1 : EndingAt(f) = {}
       /\ \A p \in EndingAt(e) : Len(p.ptext) <= Len(call.hits[1].matched[1].ptext)
  /\ call.op = "find" /\ call.done =>
       \A f \in call.from + 1 .. Len(stream) : EndingAt(f) = {}

\* Both ways to search agree with plain search in the whole text.
MatchesExact == SearchExact /\ FindNextExact

\* Occurrences with a replacement: the longest one at each place, by place.
Occurrences ==
  LET asked(e) == {p \in EndingAt(e) : p.rtext # NIL}
      longest(e) == CHOOSE p \in asked(e) :
                      \A q \in asked(e) : Len(q.ptext) <= Len(p.ptext)
  IN {[pattern |-> longest(e), position |-> e] : e \in {f \in DOMAIN stream : asked(f) # {}}}

\* MF_REPLACE_MODE_NORMAL: all but those inside a later one.
Normal == {o \in Occurrences :
             ~\E q \in Occurrences : q.position > o.position /\ Start(q) <= Start(o)}

\* MF_REPLACE_MODE_LAZY: each that does not overlap the last one taken.
Lazy ==
  FoldLeft(LAMBDA taken, e :
             LET here == {o \in Occurrences : o.position = e}
             IN IF \E o \in here : \A t \in taken : t.position <= Start(o)
                THEN taken \cup here ELSE taken,
           {}, [i \in DOMAIN stream |-> i])

Rendered(chosen) ==
  LET sorted == SetToSortSeq(chosen, LAMBDA a, b : a.position < b.position)
      put(acc, o) == [at |-> o.position,
                      out |-> acc.out \o SubSeq(stream, acc.at + 1, Start(o)) \o o.pattern.rtext]
      all == FoldLeft(put, [at |-> 0, out |-> <<>>], sorted)
  IN all.out \o SubSeq(stream, all.at + 1, Len(stream))

\* However a text is cut into chunks, and wherever the buffer overflows into
\* the callback, multifast_replace and the final flush give what replacing in
\* the whole text at once gives (replace.h states the two modes).
ReplaceExact ==
  call.op = "replace" /\ call.done =>
    output = Rendered(IF rd.mode = "LAZY" THEN Lazy ELSE Normal)

\* What the library reports and what it replaces agree with plain search and
\* replacement in the whole text.
AutomatonExact == MatchesExact /\ ReplaceExact

\* mf_repdata_allocbuf gives the backlog as many letters as the longest pattern
\* may have: "Backlog length is not bigger than the max pattern length".
BacklogFits == Len(rd.backlog) <= AC_PATTRN_MAX_LENGTH
=============================================================================
