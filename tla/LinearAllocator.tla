--------------------------- MODULE LinearAllocator ---------------------------
(***************************************************************************)
(* src/Stp/Base/Memory/LinearAllocator.cpp: memory handed out from the end *)
(* of the newest of a list of blocks.  A place is an offset in the data of *)
(* a block, which begins at an address with the remainder `Base'.          *)
(***************************************************************************)
EXTENDS Integers, Sequences, SequencesExt

CONSTANTS
  Sizes, Alignments,           \* what callers ask for
  MinBlockSize, MaxBlockSize,
  MaxAlign,                    \* alignof(max_align_t)
  Base,                        \* the address of the data of a block, modulo every alignment
  MaxBlocks                    \* bound on the number of blocks

VARIABLES
  blocks,    \* block_list_, newest first: size of the data, and how much of it is behind free_ptr
  chunk_size, total_capacity, total_used, total_lost,
  live       \* history: what callers hold, oldest first

vars == <<blocks, chunk_size, total_capacity, total_used, total_lost, live>>

alignForward(x, alignment) == x + ((-x) % alignment)

\* Mutation: the space is compared with the size alone.
FitsUnpadded(b, size, alignment) == b.size - b.used >= size

FitsWithin(b, size, alignment) == alignForward(Base + b.used, alignment) - Base + size <= b.size

Init ==
  /\ blocks = <<>> /\ chunk_size = MinBlockSize
  /\ total_capacity = 0 /\ total_used = 0 /\ total_lost = 0
  /\ live = <<>>

\* tryAllocateWithinBlock, in the first of these blocks.
Allocate(list, size, alignment) ==
  LET from == alignForward(Base + list[1].used, alignment) - Base
  IN /\ blocks' = [list EXCEPT ![1].used = from + size]
     /\ total_used' = total_used + (from - list[1].used) + size
     /\ live' = Append(live, [block |-> Len(list), from |-> from, size |-> size, alignment |-> alignment])

tryAllocateHere(size, alignment) ==
  /\ blocks # <<>> /\ FitsWithin(blocks[1], size, alignment)
  /\ Allocate(blocks, size, alignment)
  /\ UNCHANGED <<chunk_size, total_capacity, total_lost>>

\* newBlock of size + alignment; more than MaxBlockSize throws, and changes nothing.
tryAllocateAnew(size, alignment) ==
  LET needed == size + alignment
      room == IF needed < chunk_size THEN chunk_size ELSE needed
      grown == alignForward(chunk_size + chunk_size \div 2, MaxAlign)
  IN /\ blocks # <<>> => ~FitsWithin(blocks[1], size, alignment)
     /\ Len(blocks) < MaxBlocks
     /\ needed < chunk_size \/ needed <= MaxBlockSize
     /\ Allocate(<<[size |-> room, used |-> 0]>> \o blocks, size, alignment)
     /\ total_capacity' = total_capacity + room
     /\ total_lost' = IF blocks = <<>> THEN total_lost ELSE total_lost + blocks[1].size - blocks[1].used
     /\ chunk_size' = IF chunk_size >= MaxBlockSize THEN chunk_size
                      ELSE IF grown < MaxBlockSize THEN grown ELSE MaxBlockSize

\* What was allocated last, when its block is still the newest.
freeRecent ==
  /\ live # <<>> /\ Last(live).block = Len(blocks)
  /\ LET bytes == blocks[1].used - Last(live).from
     IN /\ total_used' = total_used - bytes
        /\ blocks' = [blocks EXCEPT ![1].used = @ - bytes]
  /\ live' = Front(live)
  /\ UNCHANGED <<chunk_size, total_capacity, total_lost>>

\* The newest of the largest blocks stays.
clear ==
  /\ LET largest == CHOOSE i \in DOMAIN blocks :
                      /\ \A j \in DOMAIN blocks : blocks[j].size <= blocks[i].size
                      /\ \A j \in 1 .. i - 1 : blocks[j].size < blocks[i].size
     IN blocks' = IF blocks = <<>> THEN <<>> ELSE <<[size |-> blocks[largest].size, used |-> 0]>>
  /\ total_capacity' = IF blocks = <<>> THEN 0 ELSE blocks'[1].size
  /\ chunk_size' = MinBlockSize /\ total_used' = 0 /\ total_lost' = 0 /\ live' = <<>>

reset ==
  /\ blocks' = <<>> /\ chunk_size' = MinBlockSize
  /\ total_capacity' = 0 /\ total_used' = 0 /\ total_lost' = 0
  /\ live' = <<>>

Next ==
  \/ \E size \in Sizes, alignment \in Alignments : tryAllocateHere(size, alignment) \/ tryAllocateAnew(size, alignment)
  \/ freeRecent
  \/ clear
  \/ reset

Spec == Init /\ [][Next]_vars

(* Properties *)

Sum(f, n) == LET s[i \in 0 .. n] == IF i = 0 THEN 0 ELSE s[i - 1] + f[i] IN s[n]

\* The assertions of validate(): the totals are those of the blocks, whatever
\* padding, freeing and clearing came before.
TotalsAgree ==
  LET n == Len(blocks)
  IN /\ total_capacity = Sum([i \in 1 .. n |-> blocks[i].size], n)
     /\ total_used = Sum([i \in 1 .. n |-> blocks[i].used], n)
     /\ total_lost = Sum([i \in 1 .. n |-> IF i = 1 THEN 0 ELSE blocks[i].size - blocks[i].used], n)

\* What callers hold is aligned, lies in what its block has given out, and
\* overlaps with nothing else that is held.
AllocationsAreSafe ==
  /\ \A i \in DOMAIN live :
       LET a == live[i] b == blocks[Len(blocks) + 1 - a.block]
       IN (Base + a.from) % a.alignment = 0 /\ a.from + a.size <= b.used /\ b.used <= b.size
  /\ \A i, j \in DOMAIN live :
       i < j /\ live[i].block = live[j].block => live[i].from + live[i].size <= live[j].from
==============================================================================
