----------------------------- MODULE MemoryPool -----------------------------
(***************************************************************************)
(* MemoryPool (core/memory_pool.hpp) and ZeroCopyMemoryPool                *)
(* (optimization/zero_copy.hpp): fixed-size blocks on a free list kept     *)
(* beside them, and the way the programs use them - take a block, write a  *)
(* message into it, send it, give it back.  A pool belongs to one thread.  *)
(*                                                                         *)
(* An address is a pair of a block and an offset in it; the quotient       *)
(* (ptr - base) / block_size_ is its first part.                           *)
(***************************************************************************)
EXTENDS Integers, FiniteSets

CONSTANTS
    NumBlocks,      \* num_blocks_
    BlockSize,      \* block_size_
    Spill,          \* how many bytes the gateway's acknowledgement exceeds a block
    Uses            \* the ways of using a pool that are considered

Blocks == 0 .. NumBlocks - 1
Offsets == 0 .. BlockSize - 1

\* SIZE_MAX, which is the index of no block, and nullptr
None == -1
Null == -1

\* kind:     heap is MemoryPool, mmap is ZeroCopyMemoryPool
\* huge:     use_huge_pages
\* prefault: the gateway's first two calls, which never give block 0 back
\* single:   the caller gives a block back before it takes the next
\* long:     its message is longer than a block
UseType == [kind : {"heap", "mmap"}, huge : BOOLEAN, prefault : BOOLEAN,
            single : BOOLEAN, long : BOOLEAN]

ASSUME SizeAssumption ==
    NumBlocks \in Nat \ {0} /\ BlockSize \in Nat \ {0} /\ Spill \in 0 .. BlockSize
\* Only the gateway's acknowledgements (44 bytes in blocks of 36, 128 of them)
\* are longer than a block.
ASSUME UsesAssumption ==
    /\ Uses \subseteq UseType
    /\ \A u \in Uses : u.long => u.single /\ u.prefault /\ NumBlocks > 2

VARIABLES
    use,        \* the way this pool is used
    pc,         \* where its caller is
    mapping,    \* the pages under the blocks
    free_list,  \* free_list_
    next_free,  \* next_free_
    answer,     \* what the last allocate() returned
    held,       \* the blocks the caller has taken and not given back
    written,    \* those of them that hold a message
    cells,      \* for each byte, the block whose message was written there last
    outside,    \* a byte past the last block has been written
    stack, depth    \* history: the free blocks, stack[depth] the last to come back

pool == <<free_list, next_free, stack, depth>>
bytes == <<cells, outside>>
vars == <<use, pc, mapping, pool, answer, held, written, bytes>>

Init ==
    /\ use \in Uses
    /\ pc = IF use.kind = "mmap" /\ use.huge THEN "map_huge" ELSE "map"
    /\ mapping = "none"
    /\ free_list = [b \in Blocks |-> 0] /\ next_free = None
    /\ answer = Null /\ held = {} /\ written = {}
    /\ cells = [c \in Blocks \X Offsets |-> None] /\ outside = FALSE
    /\ stack = [i \in 1 .. NumBlocks |-> 0] /\ depth = 0

-----------------------------------------------------------------------------
(* Construction                                                            *)

\* ZeroCopyBuffer::create with use_huge_pages: a failure falls back to
\* ordinary pages.
MapHuge ==
    /\ pc = "map_huge"
    /\ \/ mapping' = "huge" /\ pc' = "construct"
       \/ mapping' = "none" /\ pc' = "map"
    /\ UNCHANGED <<use, pool, answer, held, written, bytes>>

\* Ordinary pages, or the vector of MemoryPool.
Map ==
    /\ pc = "map"
    /\ \/ mapping' = "plain" /\ pc' = "construct"
       \/ mapping' = "none" /\ pc' = "thrown"
    /\ UNCHANGED <<use, pool, answer, held, written, bytes>>

\* The body of the constructors: each block points to the next.
Construct ==
    /\ pc = "construct"
    /\ pc' = IF use.prefault THEN "leak" ELSE "run"
    /\ free_list' = [b \in Blocks |-> IF b = NumBlocks - 1 THEN None ELSE b + 1]
    /\ next_free' = 0
    /\ stack' = [i \in 1 .. NumBlocks |-> NumBlocks - i] /\ depth' = NumBlocks
    /\ UNCHANGED <<use, mapping, answer, held, written, bytes>>

-----------------------------------------------------------------------------
(* The two operations                                                      *)

\* A pool that does not end its list: when all blocks are out it starts again.
AllocateAround ==
    /\ answer' = IF next_free = None THEN 0 ELSE next_free
    /\ next_free' = IF next_free = None THEN None ELSE free_list[next_free]
    /\ held' = held \cup {answer'}
    /\ depth' = IF depth = 0 THEN 0 ELSE depth - 1
    /\ UNCHANGED <<free_list, stack>>

Allocate ==
    \/ /\ next_free = None
       /\ answer' = Null
       /\ UNCHANGED <<pool, held>>
    \/ /\ next_free # None
       /\ next_free' = free_list[next_free]
       /\ answer' = next_free
       /\ held' = held \cup {next_free}
       /\ depth' = depth - 1
       /\ UNCHANGED <<free_list, stack>>

\* A block that comes back without its link.
DeallocateUnlinked(b) ==
    /\ next_free' = b
    /\ depth' = depth + 1
    /\ stack' = [stack EXCEPT ![depth + 1] = b]
    /\ UNCHANGED free_list

\* deallocate of an address of block b
Deallocate(b) ==
    /\ free_list' = [free_list EXCEPT ![b] = next_free]
    /\ next_free' = b
    /\ depth' = depth + 1
    /\ stack' = [stack EXCEPT ![depth + 1] = b]

-----------------------------------------------------------------------------
(* The callers                                                             *)

\* ack_pool.allocate();  // prefault
Leak ==
    /\ pc = "leak" /\ pc' = "prefault"
    /\ Allocate
    /\ UNCHANGED <<use, mapping, written, bytes>>

\* ack_pool.deallocate(ack_pool.allocate()): the second block goes out and
\* comes back; nullptr is not in the pool and is ignored.
Prefault ==
    \/ /\ pc = "prefault" /\ pc' = "giveback"
       /\ Allocate
       /\ UNCHANGED <<use, mapping, written, bytes>>
    \/ /\ pc = "giveback" /\ pc' = "run"
       /\ IF answer = Null THEN UNCHANGED <<pool, held>>
          ELSE Deallocate(answer) /\ held' = held \ {answer}
       /\ UNCHANGED <<use, mapping, answer, written, bytes>>

\* Block 0 is the one that is not given back.
InUse == IF use.prefault THEN held \ {0} ELSE held

\* A caller that fills the next block while the last one is being sent.
TakeAhead ==
    /\ pc = "run"
    /\ Allocate
    /\ UNCHANGED <<use, pc, mapping, written, bytes>>

\* uint8_t* buf = pool.allocate();
Take ==
    /\ pc = "run"
    /\ use.single => InUse = {}
    /\ Allocate
    /\ UNCHANGED <<use, pc, mapping, written, bytes>>

\* The bytes that a message in block b takes up.
Reach(b) ==
    ({b} \X Offsets) \cup (IF use.long THEN {b + 1} \X (0 .. Spill - 1) ELSE {})

\* create_data, create_ack, create_fin, encapsulate, create_keepalive
Write(b) ==
    /\ pc = "run" /\ b \in InUse \ written
    /\ written' = written \cup {b}
    /\ cells' = [c \in Blocks \X Offsets |-> IF c \in Reach(b) THEN b ELSE cells[c]]
    /\ outside' = (outside \/ ~(Reach(b) \subseteq Blocks \X Offsets))
    /\ UNCHANGED <<use, pc, mapping, pool, answer, held>>

\* pool.deallocate(packet.data), once the packet has gone to the kernel
GiveBack(b) ==
    /\ pc = "run" /\ b \in written
    /\ Deallocate(b)
    /\ held' = held \ {b} /\ written' = written \ {b}
    /\ UNCHANGED <<use, pc, mapping, answer, bytes>>

\* The end of the caller's scope: munmap.
Destroy ==
    /\ pc = "run" /\ InUse = {}
    /\ pc' = "gone" /\ mapping' = "none"
    /\ UNCHANGED <<use, pool, answer, held, written, bytes>>

Next ==
    \/ MapHuge \/ Map \/ Construct \/ Leak \/ Prefault \/ Take \/ Destroy
    \/ \E b \in Blocks : Write(b) \/ GiveBack(b)

Spec == Init /\ [][Next]_vars

-----------------------------------------------------------------------------
(* Properties                                                              *)

\* Every variable holds a value of its kind, and blocks are out or written only
\* while there are pages under them (allocate and deallocate in both pools).
TypeOK ==
    /\ use \in Uses
    /\ pc \in {"map_huge", "map", "construct", "leak", "prefault", "giveback",
               "run", "thrown", "gone"}
    /\ mapping \in {"none", "huge", "plain"}
    /\ pc \in {"leak", "prefault", "giveback", "run"} => mapping # "none"
    /\ free_list \in [Blocks -> Blocks \cup {None}]
    /\ next_free \in Blocks \cup {None} /\ answer \in Blocks \cup {Null}
    /\ held \in SUBSET Blocks /\ written \in SUBSET held
    /\ cells \in [Blocks \X Offsets -> Blocks \cup {None}] /\ outside \in BOOLEAN
    /\ stack \in [1 .. NumBlocks -> Blocks] /\ depth \in 0 .. NumBlocks

\* Once the pool is built the free list is a chain that ends: from next_free_
\* through free_list_ it runs over the free blocks, each once, in the reverse
\* of the order they came back in, and a block is either on it or out
\* (memory_pool.hpp allocate, deallocate).
FreeListIsAChain ==
    pc \in {"leak", "prefault", "giveback", "run", "gone"} =>
        /\ next_free = IF depth = 0 THEN None ELSE stack[depth]
        /\ \A i \in 1 .. depth :
               /\ free_list[stack[i]] = IF i = 1 THEN None ELSE stack[i - 1]
               /\ stack[i] \notin held
               /\ \A j \in 1 .. depth : stack[i] = stack[j] => i = j
        /\ \A b \in Blocks \ held : \E i \in 1 .. depth : stack[i] = b
        /\ depth + Cardinality(held) = NumBlocks

\* A message stays as it was written until its block is given back, and no byte
\* is written past the blocks - although the gateway's acknowledgement is longer
\* than its block, because the block after it is never in use
\* (order_gateway.cpp kAckBufSize).
MessagesStayWhole ==
    /\ ~outside
    /\ \A b \in written : \A c \in Reach(b) : cells[c] = b

Promise == INSTANCE BlockPool

\* The pool does what BlockPool promises: no block goes out twice, and allocate
\* returns nullptr only when every block is out.
ImplementsBlockPool == Promise!Spec
=============================================================================
