------------------------------- MODULE Mpool -------------------------------
(* The memory pool of the string matcher (libs/click/unikraft/mpool.c): a    *)
(* list of blocks, newest first, from the first of which memory is handed    *)
(* out and never taken back.                                                 *)
EXTENDS Integers, Sequences

CONSTANTS MPOOL_BLOCK_SIZE, ALIGN     \* 24 KiB and 16 in the code

ASSUME MpoolAssumption ==
  /\ ALIGN \in Nat \ {0}
  /\ MPOOL_BLOCK_SIZE \in Nat \ {0}
  /\ MPOOL_BLOCK_SIZE % ALIGN = 0     \* the #error of mpool.c

\* free is the offset of the free area from bp.
mpool_new_block(size) ==
  [size |-> IF size = 0 THEN MPOOL_BLOCK_SIZE ELSE size, free |-> 0]

mpool_create(size) == <<mpool_new_block(size)>>

Aligned(size) == ((size + ALIGN - 1) \div ALIGN) * ALIGN

\* The pool in which a request is served: a new block in front when the first
\* one has not enough room left.
WithRoom_bug(pool, size) ==
  IF pool[1].size < size
  THEN <<mpool_new_block(IF size > pool[1].size THEN size ELSE pool[1].size)>> \o pool
  ELSE pool

WithRoom(pool, size) ==
  IF pool[1].size - pool[1].free < size
  THEN <<mpool_new_block(IF size > pool[1].size THEN size ELSE pool[1].size)>> \o pool
  ELSE pool

\* The pool after the call and the piece that was handed out. Blocks are told
\* by their place in the list counted from the oldest.
mpool_malloc(pool, size) ==
  LET served == WithRoom(pool, Aligned(size))
  IN [pool |-> [served EXCEPT ![1].free = @ + Aligned(size)],
      piece |-> [block |-> Len(served), at |-> served[1].free, size |-> size]]

-----------------------------------------------------------------------------
VARIABLES mp, pieces           \* the pool, what it has handed out

poolVars == <<mp, pieces>>

\* A pool is made, and memory taken from it at once.
PoolCreated(size) ==
  LET first == mpool_malloc(mpool_create(0), size)
  IN mp = first.pool /\ pieces = <<first.piece>>

\* One request after the other. mpool_malloc refuses to hand out nothing.
Requested(sizes) ==
  LET after[n \in 0 .. Len(sizes)] ==
        IF n = 0 THEN [pool |-> mp, pieces |-> pieces]
        ELSE LET m == mpool_malloc(after[n - 1].pool, sizes[n])
             IN [pool |-> m.pool, pieces |-> Append(after[n - 1].pieces, m.piece)]
  IN after[Len(sizes)]

Requests(sizes) ==
  LET got == Requested(sizes)
  IN mp' = got.pool /\ pieces' = got.pieces

PositiveSizes == Nat \ {0}

\* The pool in the hands of any client.
PoolSpec ==
  /\ \E size \in PositiveSizes : PoolCreated(size)
  /\ [][\E sizes \in Seq(PositiveSizes) : Requests(sizes)]_poolVars

-----------------------------------------------------------------------------
BlockOf(pool, block) == pool[Len(pool) + 1 - block]

\* mpool_malloc never hands out memory twice, nor memory behind the end of a
\* block, whatever the sizes of nodes and copied patterns, and what it hands
\* out is aligned.
PoolSound ==
  /\ \A i \in DOMAIN pieces :
       /\ pieces[i].at + pieces[i].size <= BlockOf(mp, pieces[i].block).size
       /\ pieces[i].at % ALIGN = 0
  /\ \A i, j \in DOMAIN pieces :
       \/ i = j
       \/ pieces[i].block # pieces[j].block
       \/ pieces[i].at + pieces[i].size <= pieces[j].at
       \/ pieces[j].at + pieces[j].size <= pieces[i].at
=============================================================================
