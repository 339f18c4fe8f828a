-------------------------- MODULE MemoryPoolProofs --------------------------
(***************************************************************************)
(* Proofs about MemoryPool: its type invariant, the shape of its free      *)
(* list, that messages stay whole, and that it implements BlockPool.       *)
(***************************************************************************)
EXTENDS MemoryPool, FiniteSetTheorems, TLAPS

Built == {"leak", "prefault", "giveback", "run", "gone"}

\* The free list, without the guard.
ChainInv ==
    /\ next_free = IF depth = 0 THEN None ELSE stack[depth]
    /\ \A i \in 1 .. depth :
           /\ free_list[stack[i]] = IF i = 1 THEN None ELSE stack[i - 1]
           /\ stack[i] \notin held
           /\ \A j \in 1 .. depth : stack[i] = stack[j] => i = j
    /\ \A b \in Blocks \ held : \E i \in 1 .. depth : stack[i] = b
    /\ depth + Cardinality(held) = NumBlocks

\* Which blocks are out, and what holds of the answer, in each phase.
PhaseInv ==
    /\ pc \notin Built => held = {}
    /\ pc = "construct" => mapping # "none"
    /\ pc # "run" => written = {}
    /\ use.prefault => 0 \notin written
    /\ pc = "giveback" => answer = Null \/ answer \in held

\* With messages longer than a block only blocks 0 and 1 ever go out.
SpillInv ==
    /\ stack[NumBlocks] = 0 /\ stack[NumBlocks - 1] = 1
    /\ held \subseteq {0, 1}
    /\ pc = "leak" => depth = NumBlocks /\ held = {}
    /\ pc = "prefault" => depth = NumBlocks - 1 /\ held \subseteq {0}
    /\ pc = "giveback" => depth = NumBlocks - 2 /\ answer = 1
    /\ pc = "run" => \/ depth = NumBlocks - 1 /\ held \subseteq {0}
                     \/ depth = NumBlocks - 2 /\ 1 \in held

Inv ==
    /\ TypeOK
    /\ PhaseInv
    /\ pc \in Built => ChainInv
    /\ use.long /\ pc \in Built => SpillInv
    /\ MessagesStayWhole

USE SizeAssumption, UsesAssumption

-----------------------------------------------------------------------------

LEMMA BlocksFinite ==
    ASSUME NEW S \in SUBSET Blocks
    PROVE  IsFiniteSet(S) /\ Cardinality(S) \in Nat
<1>1. IsFiniteSet(Blocks)
  BY FS_Interval DEF Blocks
<1> QED
  BY <1>1, FS_Subset, FS_CardinalityType

LEMMA BlocksCard == Cardinality(Blocks) = NumBlocks
  BY FS_Interval DEF Blocks

LEMMA InitInv == Init => Inv
<1> SUFFICES ASSUME Init PROVE Inv
  OBVIOUS
<1> USE DEF Init
<1>1. pc \in {"map_huge", "map"}
  OBVIOUS
<1>2. TypeOK
  <2>1. 0 \in Blocks
    BY DEF Blocks
  <2>2. free_list \in [Blocks -> Blocks \cup {None}]
    BY <2>1
  <2>3. stack \in [1 .. NumBlocks -> Blocks] /\ depth \in 0 .. NumBlocks
    BY <2>1
  <2>4. cells \in [Blocks \X Offsets -> Blocks \cup {None}]
    OBVIOUS
  <2> QED
    BY <1>1, <2>2, <2>3, <2>4 DEF TypeOK
<1>3. PhaseInv /\ pc \notin Built
  BY <1>1 DEF PhaseInv, Built
<1>4. MessagesStayWhole
  BY DEF MessagesStayWhole
<1> QED
  BY <1>2, <1>3, <1>4 DEF Inv

-----------------------------------------------------------------------------
(* The two operations keep the free list                                   *)

LEMMA AllocateChain ==
    ASSUME TypeOK, ChainInv, Allocate
    PROVE  /\ ChainInv'
           /\ next_free' \in Blocks \cup {None} /\ answer' \in Blocks \cup {Null}
           /\ held' \in SUBSET Blocks /\ depth' \in 0 .. NumBlocks
           /\ UNCHANGED <<free_list, stack>>
           /\ \/ depth = 0 /\ answer' = Null /\ UNCHANGED <<held, depth>>
              \/ /\ depth > 0 /\ answer' = stack[depth] /\ stack[depth] \notin held
                 /\ held' = held \cup {stack[depth]} /\ depth' = depth - 1
<1>1. CASE depth = 0
  <2>1. next_free = None
    BY <1>1 DEF ChainInv
  <2>2. answer' = Null /\ UNCHANGED <<pool, held>>
    BY <2>1 DEF Allocate
  <2> QED
    BY <1>1, <2>1, <2>2 DEF ChainInv, pool, TypeOK
<1>2. CASE depth > 0
  <2>1. depth \in 1 .. NumBlocks /\ next_free = stack[depth]
    BY <1>2 DEF ChainInv, TypeOK
  <2>2. next_free \in Blocks /\ next_free # None
    BY <2>1 DEF TypeOK, Blocks, None
  <2>3. /\ next_free' = free_list[next_free] /\ answer' = next_free
        /\ held' = held \cup {next_free} /\ depth' = depth - 1
        /\ UNCHANGED <<free_list, stack>>
    BY <2>2 DEF Allocate
  <2>4. next_free \notin held
    BY <2>1 DEF ChainInv
  <2>5. Cardinality(held') = Cardinality(held) + 1
    BY <2>2, <2>3, <2>4, FS_AddElement, BlocksFinite DEF TypeOK
  <2>6. Cardinality(held) \in Nat
    BY BlocksFinite DEF TypeOK
  <2>7. depth' + Cardinality(held') = NumBlocks
    BY <2>1, <2>3, <2>5, <2>6 DEF ChainInv
  <2>8. next_free' = IF depth' = 0 THEN None ELSE stack'[depth']
    BY <2>1, <2>3 DEF ChainInv
  <2>9. ASSUME NEW i \in 1 .. depth'
        PROVE  /\ free_list'[stack'[i]] = IF i = 1 THEN None ELSE stack'[i - 1]
               /\ stack'[i] \notin held'
               /\ \A j \in 1 .. depth' : stack'[i] = stack'[j] => i = j
    <3>1. i \in 1 .. depth /\ i # depth /\ 1 .. depth' \subseteq 1 .. depth
      BY <2>1, <2>3
    <3> QED
      BY <2>1, <2>3, <3>1 DEF ChainInv
  <2>10. ASSUME NEW b \in Blocks \ held' PROVE \E i \in 1 .. depth' : stack'[i] = b
    <3>1. PICK i \in 1 .. depth : stack[i] = b
      BY <2>3 DEF ChainInv
    <3>2. i \in 1 .. depth'
      BY <2>1, <2>3, <3>1
    <3> QED
      BY <2>3, <3>1, <3>2
  <2>11. ChainInv'
    BY <2>7, <2>8, <2>9, <2>10 DEF ChainInv
  <2>12. next_free' \in Blocks \cup {None} /\ depth' \in 0 .. NumBlocks
    BY <2>1, <2>2, <2>3 DEF TypeOK
  <2> QED
    BY <1>2, <2>1, <2>2, <2>3, <2>4, <2>11, <2>12 DEF TypeOK
<1> QED
  BY <1>1, <1>2 DEF TypeOK

LEMMA DeallocateChain ==
    ASSUME TypeOK, ChainInv, NEW b \in held, Deallocate(b), held' = held \ {b}
    PROVE  /\ ChainInv'
           /\ free_list' \in [Blocks -> Blocks \cup {None}]
           /\ next_free' \in Blocks \cup {None}
           /\ held' \in SUBSET Blocks /\ depth' \in 0 .. NumBlocks
           /\ stack' \in [1 .. NumBlocks -> Blocks]
           /\ depth' = depth + 1 /\ depth < NumBlocks
           /\ stack' = [stack EXCEPT ![depth + 1] = b]
<1> USE DEF Deallocate
<1>1. b \in Blocks /\ depth \in 0 .. NumBlocks
  BY DEF TypeOK
<1>2. Cardinality(held') = Cardinality(held) - 1 /\ Cardinality(held) \in Nat
      /\ Cardinality(held') \in Nat
  <2>1. Cardinality(held') = Cardinality(held) - 1
    BY FS_RemoveElement, BlocksFinite DEF TypeOK
  <2>2. held' \in SUBSET Blocks
    BY DEF TypeOK
  <2> QED
    BY <2>1, <2>2, BlocksFinite DEF TypeOK
<1>3. depth < NumBlocks
  BY <1>1, <1>2 DEF ChainInv
<1>4. depth' + Cardinality(held') = NumBlocks
  BY <1>1, <1>2 DEF ChainInv
<1>5. depth + 1 \in 1 .. NumBlocks /\ depth' = depth + 1
  BY <1>1, <1>3
<1>6. /\ stack'[depth + 1] = b
      /\ \A i \in 1 .. depth : stack'[i] = stack[i]
  <2>1. stack'[depth + 1] = b
    BY <1>5 DEF TypeOK
  <2>2. ASSUME NEW i \in 1 .. depth PROVE stack'[i] = stack[i]
    <3>1. i \in 1 .. NumBlocks /\ i # depth + 1
      BY <1>1
    <3> QED
      BY <3>1 DEF TypeOK
  <2> QED
    BY <2>1, <2>2
<1>7. \A i \in 1 .. depth : stack[i] # b /\ stack[i] \in Blocks
  BY <1>1 DEF ChainInv, TypeOK
<1>8. /\ free_list'[b] = next_free
      /\ \A i \in 1 .. depth : free_list'[stack[i]] = free_list[stack[i]]
  BY <1>1, <1>7 DEF TypeOK
<1>9. next_free' = IF depth' = 0 THEN None ELSE stack'[depth']
  BY <1>1, <1>5, <1>6
<1>10. ASSUME NEW i \in 1 .. depth'
       PROVE  /\ free_list'[stack'[i]] = IF i = 1 THEN None ELSE stack'[i - 1]
              /\ stack'[i] \notin held'
              /\ \A j \in 1 .. depth' : stack'[i] = stack'[j] => i = j
  <2>1. CASE i = depth + 1
    <3>1. free_list'[stack'[i]] = next_free
      BY <1>6, <1>8, <2>1
    <3>2. next_free = IF i = 1 THEN None ELSE stack'[i - 1]
      <4>1. CASE depth = 0
        BY <2>1, <4>1 DEF ChainInv
      <4>2. CASE depth # 0
        <5>1. i - 1 = depth /\ depth \in 1 .. depth /\ i # 1
          BY <1>1, <2>1, <4>2
        <5> QED
          BY <1>6, <4>2, <5>1 DEF ChainInv
      <4> QED
        BY <4>1, <4>2
    <3>3. ASSUME NEW j \in 1 .. depth', j # i PROVE stack'[j] # b
      <4>1. j \in 1 .. depth
        BY <1>1, <1>5, <2>1, <3>3
      <4> QED
        BY <1>6, <1>7, <4>1
    <3>4. stack'[i] = b
      BY <1>6, <2>1
    <3> QED
      BY <3>1, <3>2, <3>3, <3>4
  <2>2. CASE i # depth + 1
    <3>1. i \in 1 .. depth
      BY <1>1, <1>5, <2>2
    <3>2. stack'[i] = stack[i]
      BY <1>6, <3>1
    <3>3. free_list'[stack'[i]] = IF i = 1 THEN None ELSE stack[i - 1]
      BY <1>8, <3>1, <3>2 DEF ChainInv
    <3>4. i # 1 => stack'[i - 1] = stack[i - 1]
      <4>1. i # 1 => i - 1 \in 1 .. depth
        BY <1>1, <3>1
      <4> QED
        BY <1>6, <4>1
    <3>5. stack'[i] \notin held'
      BY <3>1, <3>2 DEF ChainInv
    <3>6. ASSUME NEW j \in 1 .. depth', stack'[i] = stack'[j] PROVE i = j
      <4>1. CASE j = depth + 1
        BY <1>6, <1>7, <3>1, <3>2, <3>6, <4>1
      <4>2. CASE j # depth + 1
        <5>1. j \in 1 .. depth
          BY <1>1, <1>5, <4>2
        <5> QED
          BY <1>6, <3>1, <3>6, <5>1 DEF ChainInv
      <4> QED
        BY <4>1, <4>2
    <3> QED
      BY <3>3, <3>4, <3>5, <3>6
  <2> QED
    BY <2>1, <2>2
<1>11. ASSUME NEW a \in Blocks \ held' PROVE \E i \in 1 .. depth' : stack'[i] = a
  <2>1. CASE a = b
    BY <1>1, <1>5, <1>6, <2>1
  <2>2. CASE a # b
    <3>1. PICK i \in 1 .. depth : stack[i] = a
      BY <2>2 DEF ChainInv
    <3>2. i \in 1 .. depth'
      BY <1>1, <1>5, <3>1
    <3> QED
      BY <1>6, <3>1, <3>2
  <2> QED
    BY <2>1, <2>2
<1>12. ChainInv'
  BY <1>4, <1>9, <1>10, <1>11 DEF ChainInv
<1>13. /\ free_list' \in [Blocks -> Blocks \cup {None}]
       /\ stack' \in [1 .. NumBlocks -> Blocks]
  BY <1>1, <1>5 DEF TypeOK
<1> QED
  BY <1>1, <1>3, <1>5, <1>12, <1>13 DEF TypeOK

-----------------------------------------------------------------------------
(* Construction and the callers                                            *)

LEMMA ConstructStep ==
    ASSUME Inv, Construct
    PROVE  Inv'
<1> USE DEF Construct
<1>1. /\ pc = "construct" /\ pc' \in {"leak", "run"}
      /\ held = {} /\ written = {} /\ mapping # "none" /\ TypeOK
  BY DEF Inv, PhaseInv, Built
<1>2. UNCHANGED <<use, mapping, answer, held, written, cells, outside>>
  BY DEF bytes
<1>3. /\ free_list' \in [Blocks -> Blocks \cup {None}]
      /\ stack' \in [1 .. NumBlocks -> Blocks]
      /\ next_free' \in Blocks \cup {None}
      /\ depth' \in 0 .. NumBlocks
  BY DEF Blocks
<1>4. TypeOK'
  BY <1>1, <1>2, <1>3, Zenon DEF TypeOK
<1>5. PhaseInv'
  BY <1>1, <1>2 DEF PhaseInv, Built
<1>6. ChainInv'
  <2>1. next_free' = IF depth' = 0 THEN None ELSE stack'[depth']
    OBVIOUS
  <2>2. ASSUME NEW i \in 1 .. depth'
        PROVE  /\ free_list'[stack'[i]] = IF i = 1 THEN None ELSE stack'[i - 1]
               /\ stack'[i] \notin held'
               /\ \A j \in 1 .. depth' : stack'[i] = stack'[j] => i = j
    <3>1. i \in 1 .. NumBlocks /\ stack'[i] = NumBlocks - i /\ stack'[i] \in Blocks
      BY DEF Blocks
    <3>2. free_list'[stack'[i]] = IF i = 1 THEN None ELSE stack'[i] + 1
      BY <3>1
    <3>3. i # 1 => stack'[i - 1] = stack'[i] + 1
      <4>1. i # 1 => i - 1 \in 1 .. NumBlocks
        BY <3>1
      <4> QED
        BY <3>1, <4>1
    <3>4. \A j \in 1 .. depth' : stack'[i] = stack'[j] => i = j
      BY <3>1
    <3> QED
      BY <1>1, <1>2, <3>2, <3>3, <3>4
  <2>3. ASSUME NEW b \in Blocks \ held' PROVE \E i \in 1 .. depth' : stack'[i] = b
    <3>1. NumBlocks - b \in 1 .. depth' /\ stack'[NumBlocks - b] = b
      BY DEF Blocks
    <3> QED
      BY <3>1
  <2>4. depth' + Cardinality(held') = NumBlocks
    BY <1>1, <1>2, FS_EmptySet
  <2> QED
    BY <2>1, <2>2, <2>3, <2>4 DEF ChainInv
<1>7. use'.long => SpillInv'
  <2> SUFFICES ASSUME use.long PROVE SpillInv'
    BY <1>2
  <2>1. use.prefault /\ NumBlocks > 2
    BY <1>1 DEF TypeOK
  <2>2. pc' = "leak" /\ depth' = NumBlocks /\ held' = {}
    BY <1>1, <1>2, <2>1
  <2>3. stack'[NumBlocks] = 0 /\ stack'[NumBlocks - 1] = 1
    BY <2>1
  <2> QED
    BY <2>2, <2>3 DEF SpillInv
<1>8. MessagesStayWhole'
  BY <1>1, <1>2 DEF Inv, MessagesStayWhole
<1> QED
  BY <1>4, <1>5, <1>6, <1>7, <1>8 DEF Inv

\* What the callers of allocate have in common.
LEMMA TakeStep ==
    ASSUME Inv, Allocate, pc \in {"leak", "prefault", "run"},
           UNCHANGED <<use, mapping, written, bytes>>,
           pc' \in {"prefault", "giveback", "run"},
           pc' = "giveback" => pc = "prefault",
           pc' = "run" => pc = "run",
           pc' = "prefault" => pc = "leak",
           use.long /\ pc = "run" => InUse = {}
    PROVE  Inv'
<1>1. TypeOK /\ ChainInv /\ PhaseInv
  BY DEF Inv, Built
<1>2. UNCHANGED <<use, mapping, written, cells, outside, free_list, stack>>
  BY <1>1, AllocateChain DEF bytes
<1>3. \/ depth = 0 /\ answer' = Null /\ UNCHANGED <<held, depth>>
      \/ /\ depth > 0 /\ answer' = stack[depth] /\ stack[depth] \notin held
         /\ held' = held \cup {stack[depth]} /\ depth' = depth - 1
  BY <1>1, AllocateChain
<1>4. /\ ChainInv'
      /\ next_free' \in Blocks \cup {None} /\ answer' \in Blocks \cup {Null}
      /\ held' \in SUBSET Blocks /\ depth' \in 0 .. NumBlocks
  BY <1>1, AllocateChain
<1>5. written' \in SUBSET held'
  BY <1>1, <1>2, <1>3 DEF TypeOK
<1>6. TypeOK'
  BY <1>1, <1>2, <1>4, <1>5, Zenon DEF TypeOK
<1>7. PhaseInv'
  BY <1>1, <1>2, <1>3 DEF PhaseInv, Built
<1>8. use'.long => SpillInv'
  <2> SUFFICES ASSUME use.long PROVE SpillInv'
    BY <1>2
  <2>1. use.prefault /\ NumBlocks > 2 /\ SpillInv
    BY <1>1 DEF TypeOK, Inv, Built
  <2>2. pc = "run" => depth = NumBlocks - 1 /\ held \subseteq {0}
    BY <2>1 DEF SpillInv, InUse
  <2>3. CASE pc = "leak"
    BY <1>2, <1>3, <2>1, <2>3 DEF SpillInv
  <2>4. CASE pc = "prefault" \/ pc = "run"
    <3>1. depth = NumBlocks - 1 /\ held \subseteq {0} /\ stack[depth] = 1
      BY <2>1, <2>2, <2>4 DEF SpillInv
    <3>2. answer' = 1 /\ held' = held \cup {1} /\ depth' = NumBlocks - 2
      BY <1>3, <2>1, <3>1
    <3>3. pc' \in {"giveback", "run"}
      BY <2>4
    <3> QED
      BY <1>2, <2>1, <3>1, <3>2, <3>3 DEF SpillInv
  <2> QED
    BY <2>3, <2>4
<1>9. MessagesStayWhole'
  BY <1>2 DEF Inv, MessagesStayWhole, Reach
<1> QED
  BY <1>4, <1>6, <1>7, <1>8, <1>9 DEF Inv

\* What the callers of deallocate have in common.
LEMMA GiveBackStep ==
    ASSUME Inv, NEW b \in held, Deallocate(b), held' = held \ {b},
           pc \in {"giveback", "run"}, pc' = "run",
           pc = "giveback" => b = answer,
           pc = "run" => b \in written,
           written' = written \ {b},
           UNCHANGED <<use, mapping, answer, bytes>>
    PROVE  Inv'
<1>1. TypeOK /\ ChainInv /\ PhaseInv
  BY DEF Inv, Built
<1>2. UNCHANGED <<use, mapping, answer, cells, outside>>
  BY DEF bytes
<1>3. /\ ChainInv'
      /\ free_list' \in [Blocks -> Blocks \cup {None}]
      /\ next_free' \in Blocks \cup {None}
      /\ held' \in SUBSET Blocks /\ depth' \in 0 .. NumBlocks
      /\ stack' \in [1 .. NumBlocks -> Blocks]
  BY <1>1, DeallocateChain
<1>4. depth' = depth + 1 /\ stack' = [stack EXCEPT ![depth + 1] = b]
  BY <1>1, DeallocateChain
<1>5. written' \in SUBSET held'
  BY <1>1 DEF TypeOK
<1>6. TypeOK'
  BY <1>1, <1>2, <1>3, <1>5, Zenon DEF TypeOK
<1>7. PhaseInv'
  BY <1>1, <1>2 DEF PhaseInv, Built
<1>8. use'.long => SpillInv'
  <2> SUFFICES ASSUME use.long PROVE SpillInv'
    BY <1>2
  <2>1. use.prefault /\ NumBlocks > 2 /\ SpillInv
    BY <1>1 DEF TypeOK, Inv, Built
  <2>2. b = 1 /\ depth = NumBlocks - 2
    BY <1>1, <2>1 DEF SpillInv, PhaseInv, TypeOK
  <2>3. stack' = [stack EXCEPT ![NumBlocks - 1] = 1] /\ depth' = NumBlocks - 1
    BY <1>4, <2>1, <2>2
  <2>4. stack'[NumBlocks] = 0 /\ stack'[NumBlocks - 1] = 1
    BY <1>1, <2>1, <2>3 DEF SpillInv, TypeOK
  <2>5. held' \subseteq {0}
    BY <2>1, <2>2 DEF SpillInv
  <2> QED
    BY <2>3, <2>4, <2>5 DEF SpillInv
<1>9. MessagesStayWhole'
  BY <1>2 DEF Inv, MessagesStayWhole, Reach
<1> QED
  BY <1>3, <1>6, <1>7, <1>8, <1>9 DEF Inv

LEMMA WriteStep ==
    ASSUME Inv, NEW b \in Blocks, Write(b)
    PROVE  Inv'
<1>1. /\ TypeOK /\ ChainInv /\ PhaseInv /\ pc = "run" /\ b \in InUse /\ b \notin written
      /\ MessagesStayWhole
  BY DEF Write, Inv, Built
<1>2. UNCHANGED <<use, pc, mapping, answer, held, free_list, next_free, stack, depth>>
  BY DEF Write, pool
<1>3. b \in held /\ (use.prefault => b # 0)
  BY <1>1 DEF InUse
<1>4. use.long => b = 1 /\ NumBlocks > 2 /\ use.prefault /\ SpillInv
  BY <1>1, <1>3 DEF Inv, SpillInv, TypeOK, Built
<1>5. Reach(b) \subseteq Blocks \X Offsets
  <2>1. {b} \X Offsets \subseteq Blocks \X Offsets
    OBVIOUS
  <2>2. use.long => {b + 1} \X (0 .. Spill - 1) \subseteq Blocks \X Offsets
    <3>1. use.long => b + 1 \in Blocks
      BY <1>4 DEF Blocks
    <3>2. 0 .. Spill - 1 \subseteq Offsets
      BY DEF Offsets
    <3> QED
      BY <3>1, <3>2
  <2> QED
    BY <2>1, <2>2 DEF Reach
<1>6. cells' = [c \in Blocks \X Offsets |-> IF c \in Reach(b) THEN b ELSE cells[c]]
      /\ outside' = (outside \/ ~(Reach(b) \subseteq Blocks \X Offsets))
      /\ written' = written \cup {b}
  BY DEF Write
<1>7. outside' = FALSE
  BY <1>1, <1>5, <1>6 DEF MessagesStayWhole
<1>8. cells' \in [Blocks \X Offsets -> Blocks \cup {None}]
  <2>1. \A c \in Blocks \X Offsets : cells[c] \in Blocks \cup {None}
    BY <1>1 DEF TypeOK
  <2> QED
    BY <1>6, <2>1
<1>9. TypeOK'
  <2>1. written' \in SUBSET held' /\ outside' \in BOOLEAN
    BY <1>1, <1>2, <1>3, <1>6, <1>7 DEF TypeOK
  <2> QED
    BY <1>1, <1>2, <1>8, <2>1, Zenon DEF TypeOK
<1>10. PhaseInv'
  BY <1>1, <1>2, <1>3, <1>6 DEF PhaseInv, Built
<1>11. ChainInv' /\ (use'.long => SpillInv')
  <2>1. ChainInv'
    BY <1>1, <1>2, Zenon DEF ChainInv
  <2>2. use.long => SpillInv'
    BY <1>2, <1>4 DEF SpillInv
  <2> QED
    BY <1>2, <2>1, <2>2
<1>12. ASSUME NEW a \in written', NEW c \in Reach(a)' PROVE cells'[c] = a
  <2>1. Reach(a)' = Reach(a)
    BY <1>2 DEF Reach
  <2>2. CASE a = b
    <3>1. c \in Reach(b) /\ c \in Blocks \X Offsets
      BY <1>5, <2>1, <2>2
    <3> QED
      BY <1>6, <2>2, <3>1
  <2>3. CASE a # b
    <3>1. a \in written
      BY <1>6, <2>3
    <3>2. ~use.long
      BY <1>1, <1>4, <2>3, <3>1 DEF SpillInv, PhaseInv, TypeOK
    <3>3. c \in {a} \X Offsets /\ Reach(b) = {b} \X Offsets
      BY <2>1, <3>2 DEF Reach
    <3>4. c \notin Reach(b) /\ c \in Blocks \X Offsets
      BY <1>1, <2>3, <3>1, <3>3 DEF TypeOK
    <3>5. cells'[c] = cells[c]
      BY <1>6, <3>4
    <3>6. cells[c] = a
      BY <1>1, <2>1, <3>1 DEF MessagesStayWhole
    <3> QED
      BY <3>5, <3>6
  <2> QED
    BY <2>2, <2>3
<1>13. MessagesStayWhole'
  BY <1>7, <1>12 DEF MessagesStayWhole
<1> QED
  BY <1>9, <1>10, <1>11, <1>13 DEF Inv

LEMMA NextInv == Inv /\ [Next]_vars => Inv'
<1> SUFFICES ASSUME Inv, [Next]_vars PROVE Inv'
  OBVIOUS
<1>1. ASSUME \/ MapHuge \/ Map \/ Destroy \/ UNCHANGED vars PROVE Inv'
  <2>1. /\ UNCHANGED <<use, answer, held, written, cells, outside>>
        /\ UNCHANGED <<free_list, next_free, stack, depth>>
    BY <1>1 DEF MapHuge, Map, Destroy, vars, pool, bytes
  <2>2. TypeOK
    BY DEF Inv
  <2>3. /\ pc' \in {"map_huge", "map", "construct", "leak", "prefault", "giveback",
                    "run", "thrown", "gone"}
        /\ mapping' \in {"none", "huge", "plain"}
        /\ pc' \in {"leak", "prefault", "giveback", "run"} => mapping' # "none"
    BY <1>1, <2>2 DEF MapHuge, Map, Destroy, vars, TypeOK
  <2>4. TypeOK'
    BY <2>1, <2>2, <2>3, Zenon DEF TypeOK
  <2>5. \/ pc' = pc /\ mapping' = mapping
        \/ pc \notin Built /\ pc' \notin Built /\ (pc' = "construct" => mapping' # "none")
           /\ pc # "run"
        \/ pc = "run" /\ InUse = {} /\ pc' = "gone"
    BY <1>1 DEF MapHuge, Map, Destroy, vars, Built
  <2>6. InUse = {} => written = {}
    BY <2>2 DEF Inv, PhaseInv, InUse, TypeOK
  <2>7. PhaseInv'
    BY <2>1, <2>5, <2>6 DEF Inv, PhaseInv, Built
  <2>8. pc' \in Built => pc \in Built
    BY <2>5 DEF Built
  <2>9. ChainInv => ChainInv'
    BY <2>1, Zenon DEF ChainInv
  <2>10. SpillInv => SpillInv'
    BY <2>1, <2>5, <2>8 DEF SpillInv, Built
  <2>11. MessagesStayWhole'
    BY <2>1 DEF Inv, MessagesStayWhole, Reach
  <2> QED
    BY <2>1, <2>4, <2>7, <2>8, <2>9, <2>10, <2>11 DEF Inv
<1>2. CASE Leak
  BY <1>2, TakeStep DEF Leak
<1>3. CASE Prefault
  <2>1. CASE pc = "prefault"
    BY <1>3, <2>1, TakeStep DEF Prefault
  <2>2. CASE pc = "giveback"
    <3>1. /\ pc' = "run" /\ UNCHANGED <<use, mapping, answer, written, bytes>>
          /\ IF answer = Null THEN UNCHANGED <<pool, held>>
             ELSE Deallocate(answer) /\ held' = held \ {answer}
      BY <1>3, <2>2 DEF Prefault
    <3>2. PhaseInv /\ TypeOK /\ written = {} /\ MessagesStayWhole /\ ChainInv
      BY <2>2 DEF Inv, PhaseInv, Built
    <3>3. CASE answer # Null
      <4>1. answer \in held /\ written' = written \ {answer}
        BY <2>2, <3>1, <3>2, <3>3 DEF PhaseInv
      <4> QED
        BY <2>2, <3>1, <3>3, <4>1, GiveBackStep
    <3>4. CASE answer = Null
      <4>1. /\ UNCHANGED <<use, mapping, answer, held, written, cells, outside>>
            /\ UNCHANGED <<free_list, next_free, stack, depth>>
        BY <3>1, <3>4 DEF pool, bytes
      <4>2. ~use.long
        BY <2>2, <3>4 DEF Inv, SpillInv, Built, Null
      <4>3. TypeOK'
        BY <2>2, <3>1, <3>2, <4>1 DEF TypeOK
      <4>4. PhaseInv' /\ MessagesStayWhole'
        BY <3>1, <3>2, <4>1 DEF PhaseInv, MessagesStayWhole, Built
      <4>5. ChainInv'
        BY <3>2, <4>1, Zenon DEF ChainInv
      <4> QED
        BY <4>1, <4>2, <4>3, <4>4, <4>5 DEF Inv
    <3> QED
      BY <3>3, <3>4
  <2> QED
    BY <1>3, <2>1, <2>2 DEF Prefault
<1>4. CASE Take
  <2>1. use.long => InUse = {}
    BY <1>4 DEF Take, Inv, TypeOK
  <2> QED
    BY <1>4, <2>1, TakeStep DEF Take
<1>5. ASSUME NEW b \in Blocks, GiveBack(b) PROVE Inv'
  <2>1. b \in held
    BY <1>5 DEF GiveBack, Inv, TypeOK
  <2> QED
    BY <1>5, <2>1, GiveBackStep DEF GiveBack
<1> QED
  BY <1>1, <1>2, <1>3, <1>4, <1>5, ConstructStep, WriteStep DEF Next

LEMMA SpecInv == Spec => []Inv
  BY InitInv, NextInv, PTL DEF Spec

-----------------------------------------------------------------------------

\* Every variable of the pools keeps its type, and blocks go out only while
\* there are pages under them (memory_pool.hpp, zero_copy.hpp).
THEOREM PoolTypeOK == Spec => []TypeOK
<1>1. Inv => TypeOK
  BY DEF Inv
<1> QED
  BY <1>1, SpecInv, PTL

\* The free list of allocate and deallocate is a chain of the free blocks that
\* ends, whatever the number of blocks and the order they come back in.
THEOREM PoolFreeList == Spec => []FreeListIsAChain
<1>1. Inv => FreeListIsAChain
  BY DEF Inv, Built, ChainInv, FreeListIsAChain
<1> QED
  BY <1>1, SpecInv, PTL

\* No message is overwritten before its block is given back and nothing is
\* written past the pool, the gateway's long acknowledgements included.
THEOREM PoolMessagesStayWhole == Spec => []MessagesStayWhole
<1>1. Inv => MessagesStayWhole
  BY DEF Inv
<1> QED
  BY <1>1, SpecInv, PTL

\* The linked list implements the abstract pool: allocate never hands out a
\* block that is out, and returns nullptr only when all of them are.
THEOREM PoolImplementsBlockPool == Spec => ImplementsBlockPool
<1>1. Init => Promise!Init
  BY DEF Init, Promise!Init
<1>2. Inv /\ Inv' /\ [Next]_vars => [Promise!Next]_<<held, answer>>
  <2> SUFFICES ASSUME Inv, [Next]_vars
               PROVE  Promise!Next \/ UNCHANGED <<held, answer>>
    OBVIOUS
  <2>1. TypeOK
    BY DEF Inv
  <2>2. ASSUME Allocate, pc \in Built PROVE Promise!Next
    <3>1. ChainInv
      BY <2>2 DEF Inv
    <3>2. \/ depth = 0 /\ answer' = Null /\ UNCHANGED <<held, depth>>
          \/ /\ depth > 0 /\ answer' = stack[depth] /\ stack[depth] \notin held
             /\ held' = held \cup {stack[depth]} /\ depth' = depth - 1
      BY <2>1, <2>2, <3>1, AllocateChain
    <3>3. CASE depth = 0
      <4>1. Blocks \ held = {}
        BY <3>1, <3>3 DEF ChainInv
      <4>2. held = Blocks
        BY <2>1, <4>1 DEF TypeOK
      <4> QED
        BY <3>2, <3>3, <4>2 DEF Promise!Next, Promise!Refuse
    <3>4. CASE depth > 0
      <4>1. stack[depth] \in Blocks
        BY <2>1, <3>4 DEF TypeOK
      <4> QED
        BY <3>2, <3>4, <4>1 DEF Promise!Next, Promise!Hand
    <3> QED
      BY <2>1, <3>3, <3>4 DEF TypeOK
  <2>3. ASSUME NEW b \in held, held' = held \ {b}, UNCHANGED answer PROVE Promise!Next
    BY <2>3 DEF Promise!Next, Promise!TakeBack
  <2>4. CASE Leak \/ Take
    BY <2>2, <2>4 DEF Leak, Take, Built
  <2>5. CASE Prefault
    <3>1. CASE pc = "prefault"
      BY <2>2, <2>5, <3>1 DEF Prefault, Built
    <3>2. CASE pc = "giveback"
      BY <2>3, <2>5, <3>2 DEF Prefault, Inv, PhaseInv
    <3> QED
      BY <2>5, <3>1, <3>2 DEF Prefault
  <2>6. ASSUME NEW b \in Blocks, GiveBack(b) PROVE Promise!Next
    BY <2>1, <2>3, <2>6 DEF GiveBack, TypeOK
  <2>7. CASE MapHuge \/ Map \/ Construct \/ Destroy \/ UNCHANGED vars
            \/ \E b \in Blocks : Write(b)
    BY <2>7 DEF MapHuge, Map, Construct, Destroy, Write, vars
  <2> QED
    BY <2>4, <2>5, <2>6, <2>7 DEF Next
<1> QED
  BY <1>1, <1>2, SpecInv, PTL DEF Spec, ImplementsBlockPool, Promise!Spec
=============================================================================
