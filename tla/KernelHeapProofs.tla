-------------------------- MODULE KernelHeapProofs --------------------------
(***************************************************************************)
(* For a heap of any size: allocations keep their blocks, the heap loses    *)
(* none, and heap_alloc finds the first room there is.                     *)
(***************************************************************************)
EXTENDS KernelHeap, TLAPS

\* What the loop of heap_alloc knows at block i: it has just counted n_found
\* free blocks, fewer than it needs, after a used block or the beginning.
Counted ==
  /\ n_alloc # 0 => n_found < n_alloc
  /\ n_alloc = 0 => i = 0 /\ n_found = 0
  /\ \A c \in i - n_found .. i - 1 : ~heap[c].used
  /\ n_found = i \/ heap[i - n_found - 1].used

\* There was no room in the blocks it has left behind.
NoRoomBefore ==
  n_alloc # 0 => \A b \in Blocks : b + n_alloc <= i => ~HasRoom(b, n_alloc)

HeapInv == TypeOK /\ AllocationsIntact /\ UsedIsHeld /\ Counted /\ NoRoomBefore

-----------------------------------------------------------------------------
(* Addresses. *)

\* Blocks have addresses in their order, none of them NULL.
LEMMA AddressOrder ==
  ASSUME NEW b \in Blocks, NEW c \in Blocks
  PROVE  /\ Address(b) \in Nat \ {NULL}
         /\ b < c => Address(b) < Address(c)
<1> USE HeapAssumption
<1>1. b \in Nat /\ c \in Nat
  BY DEF Blocks
<1>2. b * HEAP_BLOCK_SIZE \in Nat /\ c * HEAP_BLOCK_SIZE \in Nat
  BY <1>1
<1>3. ASSUME b < c PROVE b * HEAP_BLOCK_SIZE < c * HEAP_BLOCK_SIZE
  <2>1. PICK k \in Nat : c = b + 1 + k
    <3>1. c - b - 1 \in Nat /\ c = b + 1 + (c - b - 1)
      BY <1>1, <1>3
    <3> QED BY <3>1
  <2>2. c * HEAP_BLOCK_SIZE = b * HEAP_BLOCK_SIZE + HEAP_BLOCK_SIZE + k * HEAP_BLOCK_SIZE
    BY <1>1, <2>1
  <2>3. k * HEAP_BLOCK_SIZE \in Nat
    BY <2>1
  <2> QED BY <1>2, <2>2, <2>3
<1> QED BY <1>2, <1>3 DEF Address, NULL

\* A block is known by its address.
LEMMA AddressIsUnique ==
  ASSUME NEW b \in Blocks, NEW c \in Blocks, Address(b) = Address(c)
  PROVE  b = c
<1>1. b \in Int /\ c \in Int
  BY HeapAssumption DEF Blocks
<1>2. Address(b) \in Nat /\ Address(c) \in Nat
  BY AddressOrder
<1> QED BY <1>1, <1>2, AddressOrder

-----------------------------------------------------------------------------
(* The type invariant. *)

\* The heap that heap_init makes has the right type.
LEMMA InitType == Init => TypeOK
  BY HeapAssumption DEF Init, TypeOK, Blocks, FreeBlock, Nothing, NULL

\* Where an allocation that was found begins.
LEMMA FirstOfRun ==
  ASSUME TypeOK, Counted, Found
  PROVE  /\ n_alloc = n_found + 1
         /\ i + 1 - n_alloc \in Blocks
         /\ i + 1 - n_alloc = i - n_found
         /\ \A c \in i + 1 - n_alloc .. i : c \in Blocks /\ ~heap[c].used
  <1>1. n_alloc \in Nat /\ i \in Nat /\ n_found \in Nat /\ n_found <= i /\ i < HEAP_NUM_BLOCK
    BY HeapAssumption DEF TypeOK, Found, Looking
  <1>2. n_found < n_alloc /\ n_found + 1 >= n_alloc
    BY DEF Counted, Found, Looking, Idle
  <1>3. n_alloc = n_found + 1 /\ i + 1 - n_alloc = i - n_found
    BY <1>1, <1>2
  <1>4. ASSUME NEW c \in i + 1 - n_alloc .. i
        PROVE  c \in Blocks /\ ~heap[c].used
    <2>1. c \in Blocks
      BY <1>1, <1>3, <1>4, HeapAssumption DEF Blocks
    <2>2. c = i \/ c \in i - n_found .. i - 1
      BY <1>1, <1>3, <1>4
    <2> QED BY <2>1, <2>2 DEF Counted, Found
  <1> QED BY <1>1, <1>3, <1>4, HeapAssumption DEF Blocks

\* Blocks needed for more than no bytes.
LEMMA SomeBlocks ==
  ASSUME NEW size \in Nat \ {0} PROVE BlocksFor(size) \in Nat \ {0}
  <1> DEFINE q == size \div HEAP_BLOCK_SIZE
             r == size % HEAP_BLOCK_SIZE
  <1>1. q \in Nat /\ r \in 0 .. HEAP_BLOCK_SIZE - 1 /\ size = HEAP_BLOCK_SIZE * q + r
    BY HeapAssumption
  <1>2. CASE r = 0
    <2>1. q # 0
      BY <1>1, <1>2, HeapAssumption
    <2> QED BY <1>1, <1>2, <2>1 DEF BlocksFor
  <1>3. CASE r # 0
    BY <1>1, <1>3 DEF BlocksFor
  <1> QED BY <1>2, <1>3

\* Every step keeps the type, the loop of heap_alloc because it finds blocks of
\* the heap (Counted).
LEMMA NextType == TypeOK /\ Counted /\ [Next]_vars => TypeOK'
  <1> SUFFICES ASSUME TypeOK, Counted, [Next]_vars PROVE TypeOK'
    OBVIOUS
  <1> USE HeapAssumption
  <1>1. ASSUME NEW size \in Sizes, Allocate(size) PROVE TypeOK'
    <2>1. CASE size = 0
      BY <1>1, <2>1 DEF Allocate, Done, TypeOK
    <2>2. CASE size # 0
      BY <1>1, <2>2, SomeBlocks DEF Allocate, TypeOK
    <2> QED BY <2>1, <2>2
  <1>2. ASSUME SkipUsed PROVE TypeOK'
    BY <1>2 DEF SkipUsed, Looking, TypeOK
  <1>3. ASSUME CountFree PROVE TypeOK'
    BY <1>3 DEF CountFree, Looking, TypeOK
  <1>4. ASSUME Found PROVE TypeOK'
    <2> DEFINE first == i + 1 - n_alloc
    <2>1. first \in Blocks /\ Address(first) \in Addresses
      BY <1>4, FirstOfRun DEF Addresses
    <2>2. heap' \in [Blocks -> [used : BOOLEAN, ptr : Addresses \cup {NULL}]]
      BY <1>4, <2>1 DEF Found, TypeOK
    <2>3. live' = With(live, Address(first), n_alloc) /\ n_alloc \in Nat \ {0}
      BY <1>4 DEF Found, Looking, Idle, TypeOK
    <2>4. live' \in [DOMAIN live' -> Nat \ {0}] /\ DOMAIN live' \subseteq Addresses
      BY <2>1, <2>3 DEF With, TypeOK
    <2> QED BY <1>4, <2>1, <2>2, <2>4 DEF Found, Done, TypeOK
  <1>5. ASSUME NotFound PROVE TypeOK'
    BY <1>5 DEF NotFound, Done, TypeOK
  <1>6. ASSUME NEW ptr \in Addresses \cup {NULL}, heap_free(ptr) PROVE TypeOK'
    <2>1. heap' \in [Blocks -> [used : BOOLEAN, ptr : Addresses \cup {NULL}]]
      BY <1>6 DEF heap_free, TypeOK, FreeBlock
    <2>2. live' \in [DOMAIN live' -> Nat \ {0}] /\ DOMAIN live' \subseteq Addresses
      BY <1>6 DEF heap_free, Without, TypeOK
    <2> QED BY <1>6, <2>1, <2>2 DEF heap_free, TypeOK
  <1>7. ASSUME Exit PROVE TypeOK'
    <2>1. live' \in [DOMAIN live' -> Nat \ {0}] /\ DOMAIN live' \subseteq Addresses
      BY <1>7 DEF Exit, Nothing
    <2>2. lost' \in [DOMAIN lost' -> Nat \ {0}] /\ DOMAIN lost' \subseteq Addresses
      BY <1>7 DEF Exit, TypeOK
    <2> QED BY <1>7, <2>1, <2>2 DEF Exit, TypeOK
  <1>8. CASE UNCHANGED vars
    BY <1>8 DEF vars, TypeOK
  <1> QED BY <1>1, <1>2, <1>3, <1>4, <1>5, <1>6, <1>7, <1>8 DEF Next

-----------------------------------------------------------------------------
(* The loop of heap_alloc. *)

\* Every step of the loop keeps count of the free blocks just before it.
LEMMA NextCounted == TypeOK /\ Counted /\ [Next]_vars => Counted'
  <1> SUFFICES ASSUME TypeOK, Counted, [Next]_vars PROVE Counted'
    OBVIOUS
  <1> USE HeapAssumption
  <1>0. n_alloc \in Nat /\ i \in Nat /\ n_found \in Nat /\ n_found <= i /\ i <= HEAP_NUM_BLOCK
    BY DEF TypeOK
  <1>1. ASSUME NEW size \in Sizes, Allocate(size) PROVE Counted'
    BY <1>0, <1>1, SomeBlocks DEF Allocate, Idle, Done, Counted
  <1>2. ASSUME SkipUsed PROVE Counted'
    BY <1>0, <1>2 DEF SkipUsed, Looking, Idle, Counted
  <1>3. ASSUME CountFree PROVE Counted'
    <2>1. /\ n_found' = n_found + 1 /\ i' = i + 1 /\ heap' = heap /\ n_alloc' = n_alloc
          /\ n_alloc # 0 /\ n_found + 1 < n_alloc /\ ~heap[i].used
      BY <1>3 DEF CountFree, Looking, Idle
    <2>2. ASSUME NEW c \in i' - n_found' .. i' - 1 PROVE ~heap[c].used
      <3>1. c = i \/ c \in i - n_found .. i - 1
        BY <1>0, <2>1, <2>2
      <3> QED BY <2>1, <3>1 DEF Counted
    <2>3. i' - n_found' = i - n_found
      BY <1>0, <2>1
    <2>4. n_found' = i' \/ heap[i' - n_found' - 1].used
      BY <1>0, <2>1, <2>3 DEF Counted
    <2> QED BY <2>1, <2>2, <2>4 DEF Counted
  <1>4. ASSUME Found \/ NotFound PROVE Counted'
    BY <1>4 DEF Found, NotFound, Done, Counted
  <1>5. ASSUME NEW ptr \in Addresses \cup {NULL}, heap_free(ptr) \/ Exit PROVE Counted'
    BY <1>0, <1>5 DEF heap_free, Exit, Idle, Counted
  <1>6. CASE UNCHANGED vars
    BY <1>6 DEF vars, Counted
  <1>7. NULL \in Addresses \cup {NULL}
    OBVIOUS
  <1> QED BY <1>1, <1>2, <1>3, <1>4, <1>5, <1>6, <1>7 DEF Next

\* Blocks with room that end at block i, or before it, begin among the free
\* blocks that were counted.
LEMMA NextNoRoomBefore == TypeOK /\ Counted /\ NoRoomBefore /\ [Next]_vars => NoRoomBefore'
  <1> SUFFICES ASSUME TypeOK, Counted, NoRoomBefore, [Next]_vars PROVE NoRoomBefore'
    OBVIOUS
  <1> USE HeapAssumption
  <1>0. n_alloc \in Nat /\ i \in Nat /\ n_found \in Nat /\ n_found <= i /\ i <= HEAP_NUM_BLOCK
    BY DEF TypeOK
  <1>1. ASSUME NEW size \in Sizes, Allocate(size) PROVE NoRoomBefore'
    <2>1. CASE size = 0
      BY <1>1, <2>1 DEF Allocate, Done, NoRoomBefore
    <2>2. CASE size # 0
      <3>1. PICK n \in Nat \ {0} : n_alloc' = n
        BY <1>1, <2>2, SomeBlocks DEF Allocate
      <3>2. i' = 0
        BY <1>1, <2>2 DEF Allocate, Idle, Counted
      <3>3. \A b \in Blocks : ~(b + n <= 0)
        BY DEF Blocks
      <3> QED BY <3>1, <3>2, <3>3 DEF NoRoomBefore
    <2> QED BY <2>1, <2>2
  <1>2. ASSUME SkipUsed \/ CountFree PROVE NoRoomBefore'
    <2>1. /\ n_alloc' = n_alloc /\ n_alloc # 0 /\ i' = i + 1 /\ heap' = heap /\ i < HEAP_NUM_BLOCK
          /\ heap[i].used \/ n_found + 1 < n_alloc
      BY <1>2 DEF SkipUsed, CountFree, Looking, Idle
    <2>2. ASSUME NEW b \in Blocks, b + n_alloc <= i + 1 PROVE ~HasRoom(b, n_alloc)
      <3>1. CASE b + n_alloc <= i
        BY <2>1, <3>1 DEF NoRoomBefore
      <3>2. CASE b + n_alloc = i + 1
        <4>1. b \in Nat
          BY DEF Blocks
        <4>2. i \in Run(b, n_alloc)
          BY <1>0, <2>1, <3>2, <4>1 DEF Run
        <4>3. CASE heap[i].used
          BY <4>2, <4>3 DEF HasRoom
        <4>4. CASE n_found + 1 < n_alloc
          <5>1. n_found # i /\ i - n_found - 1 \in Run(b, n_alloc)
            BY <1>0, <3>2, <4>1, <4>4 DEF Run
          <5> QED BY <5>1 DEF HasRoom, Counted
        <4> QED BY <2>1, <4>3, <4>4
      <3>3. b + n_alloc <= i \/ b + n_alloc = i + 1
        BY <1>0, <2>2 DEF Blocks
      <3> QED BY <3>1, <3>2, <3>3
    <2> QED BY <2>1, <2>2 DEF NoRoomBefore, HasRoom
  <1>3. ASSUME Found \/ NotFound PROVE NoRoomBefore'
    BY <1>3 DEF Found, NotFound, Done, NoRoomBefore
  <1>4. ASSUME NEW ptr \in Addresses \cup {NULL}, heap_free(ptr) \/ Exit PROVE NoRoomBefore'
    BY <1>4 DEF heap_free, Exit, Idle, NoRoomBefore
  <1>5. CASE UNCHANGED vars
    BY <1>5 DEF vars, NoRoomBefore, HasRoom
  <1>6. NULL \in Addresses \cup {NULL}
    OBVIOUS
  <1> QED BY <1>1, <1>2, <1>3, <1>4, <1>5, <1>6 DEF Next

-----------------------------------------------------------------------------
(* Allocations. *)

\* Every step keeps allocations and the table in agreement: heap_alloc takes free
\* blocks only, and heap_free frees the blocks of one allocation.
LEMMA NextAllocations ==
  TypeOK /\ Counted /\ AllocationsIntact /\ UsedIsHeld /\ [Next]_vars
    => AllocationsIntact' /\ UsedIsHeld'
  <1> SUFFICES ASSUME TypeOK, Counted, AllocationsIntact, UsedIsHeld, [Next]_vars
               PROVE  AllocationsIntact' /\ UsedIsHeld'
    OBVIOUS
  <1> USE HeapAssumption
  <1>1. ASSUME UNCHANGED <<heap, live, lost>> PROVE AllocationsIntact' /\ UsedIsHeld'
    BY <1>1 DEF AllocationsIntact, UsedIsHeld, Held, LengthAt
  <1>2. ASSUME Found PROVE AllocationsIntact' /\ UsedIsHeld'
    <2>0. PICK first \in Blocks : first = i + 1 - n_alloc
      BY <1>2, FirstOfRun
    <2>1. /\ first .. i = Run(first, n_alloc)
          /\ \A c \in first .. i : c \in Blocks /\ ~heap[c].used
      <3>1. n_alloc \in Nat /\ i \in Nat
        BY <1>2 DEF TypeOK, Found, Looking
      <3>2. i = first + n_alloc - 1
        BY <2>0, <3>1
      <3>3. \A c \in first .. i : c \in Blocks /\ ~heap[c].used
        BY <1>2, <2>0, FirstOfRun
      <3> QED BY <3>2, <3>3 DEF Run
    <2>2. /\ heap' = [c \in Blocks |-> IF c \in first .. i
                                      THEN [used |-> TRUE, ptr |-> Address(first)] ELSE heap[c]]
          /\ live' = With(live, Address(first), n_alloc) /\ lost' = lost
      BY <1>2, <2>0 DEF Found
    <2>3. first \in first .. i
      BY <1>2, <2>0, FirstOfRun DEF TypeOK
    \* The blocks found are new: what was allocated before has other ones.
    <2>4. Held' = Held \cup {Address(first)} /\ LengthAt(Address(first))' = n_alloc
      BY <2>2 DEF Held, LengthAt, With
    <2>5. ASSUME NEW b \in Blocks, Address(b) \in Held
          PROVE  /\ \A c \in Run(b, LengthAt(Address(b))) : c \in Blocks /\ c \notin first .. i
                 /\ Address(b) # Address(first)
                 /\ LengthAt(Address(b))' = LengthAt(Address(b))
      <3>0. ASSUME NEW c \in Run(b, LengthAt(Address(b)))
            PROVE  c \in Blocks /\ heap[c] = [used |-> TRUE, ptr |-> Address(b)]
        BY <2>5, <3>0 DEF AllocationsIntact
      <3>1. \A c \in Run(b, LengthAt(Address(b))) : c \in Blocks /\ heap[c].used
        BY <3>0
      <3>2. LengthAt(Address(b)) \in Nat \ {0}
        BY <2>5 DEF Held, LengthAt, TypeOK
      <3>3. b \in Run(b, LengthAt(Address(b)))
        BY <3>2 DEF Run, Blocks
      <3>4. Address(b) # Address(first)
        BY <2>1, <2>3, <3>1, <3>3, AddressIsUnique
      <3>5. LengthAt(Address(b))' = LengthAt(Address(b))
        BY <2>2, <3>4 DEF LengthAt, With
      <3> QED BY <2>1, <3>1, <3>4, <3>5
    <2>6. AllocationsIntact'
      <3> SUFFICES ASSUME NEW b \in Blocks, Address(b) \in Held',
                          NEW c \in Run(b, LengthAt(Address(b))')
                   PROVE  c \in Blocks /\ heap'[c] = [used |-> TRUE, ptr |-> Address(b)]
        BY DEF AllocationsIntact, Run
      <3>1. CASE Address(b) = Address(first)
        <4>1. b = first
          BY <2>1, <3>1, AddressIsUnique
        <4>2. c \in first .. i
          BY <2>1, <2>4, <4>1
        <4> QED BY <2>1, <2>2, <4>1, <4>2
      <3>2. CASE Address(b) \in Held
        <4>1. c \in Run(b, LengthAt(Address(b))) /\ c \in Blocks /\ c \notin first .. i
          BY <2>5, <3>2
        <4>2. heap[c] = [used |-> TRUE, ptr |-> Address(b)]
          BY <3>2, <4>1 DEF AllocationsIntact
        <4> QED BY <2>2, <4>1, <4>2
      <3> QED BY <2>4, <3>1, <3>2
    <2>7. UsedIsHeld'
      <3> SUFFICES ASSUME NEW c \in Blocks, heap'[c] # FreeBlock
                   PROVE  \E b \in Blocks : /\ Address(b) \in Held'
                                            /\ c \in Run(b, LengthAt(Address(b))')
        BY DEF UsedIsHeld, Run, FreeBlock, NULL
      <3>1. CASE c \in first .. i
        BY <2>1, <2>4, <3>1
      <3>2. CASE c \notin first .. i
        <4>1. heap[c] # FreeBlock
          BY <2>2, <3>2
        <4>2. PICK b \in Blocks : Address(b) \in Held /\ c \in Run(b, LengthAt(Address(b)))
          BY <4>1 DEF UsedIsHeld
        <4> QED BY <2>4, <2>5, <4>2
      <3> QED BY <3>1, <3>2
    <2> QED BY <2>6, <2>7
  <1>3. ASSUME NEW ptr \in Addresses \cup {NULL}, heap_free(ptr)
        PROVE  AllocationsIntact' /\ UsedIsHeld'
    <2>1. /\ ptr \notin DOMAIN lost /\ lost' = lost /\ live' = Without(live, ptr)
          /\ heap' = [b \in Blocks |-> IF ptr # NULL /\ heap[b].used /\ heap[b].ptr = ptr
                                       THEN FreeBlock ELSE heap[b]]
      BY <1>3 DEF heap_free
    <2>2. Held' = Held \ {ptr}
      BY <2>1 DEF Held, Without
    <2>3. ASSUME NEW p \in Held, p # ptr PROVE LengthAt(p)' = LengthAt(p)
      BY <2>1, <2>3 DEF Held, LengthAt, Without
    <2>4. AllocationsIntact'
      <3> SUFFICES ASSUME NEW b \in Blocks, Address(b) \in Held',
                          NEW c \in Run(b, LengthAt(Address(b))')
                   PROVE  c \in Blocks /\ heap'[c] = [used |-> TRUE, ptr |-> Address(b)]
        BY DEF AllocationsIntact, Run
      <3>1. Address(b) \in Held /\ Address(b) # ptr /\ c \in Run(b, LengthAt(Address(b)))
        BY <2>2, <2>3
      <3>2. c \in Blocks /\ heap[c] = [used |-> TRUE, ptr |-> Address(b)]
        BY <3>1 DEF AllocationsIntact
      <3> QED BY <2>1, <3>1, <3>2
    <2>5. UsedIsHeld'
      <3> SUFFICES ASSUME NEW c \in Blocks, heap'[c] # FreeBlock
                   PROVE  \E b \in Blocks : /\ Address(b) \in Held'
                                            /\ c \in Run(b, LengthAt(Address(b))')
        BY DEF UsedIsHeld, Run, FreeBlock, NULL
      <3>1. heap'[c] = heap[c] /\ heap[c] # FreeBlock
        BY <2>1
      <3>2. PICK b \in Blocks : Address(b) \in Held /\ c \in Run(b, LengthAt(Address(b)))
        BY <3>1 DEF UsedIsHeld
      <3>3. heap[c] = [used |-> TRUE, ptr |-> Address(b)]
        BY <3>2 DEF AllocationsIntact
      <3>4. Address(b) # ptr
        BY <2>1, <3>1, <3>3, AddressOrder
      <3> QED BY <2>2, <2>3, <3>2, <3>4
    <2> QED BY <2>4, <2>5
  <1>4. ASSUME Exit PROVE AllocationsIntact' /\ UsedIsHeld'
    <2>1. heap' = heap /\ Held' = Held /\ \A p \in Held : LengthAt(p)' = LengthAt(p)
      BY <1>4 DEF Exit, Held, LengthAt, Nothing
    <2> QED BY <2>1 DEF AllocationsIntact, UsedIsHeld
  <1>5. ASSUME Next PROVE UNCHANGED <<heap, live, lost>> \/ Found \/ Exit
                          \/ \E ptr \in Addresses \cup {NULL} : heap_free(ptr)
    BY <1>5 DEF Next, Allocate, SkipUsed, CountFree, NotFound
  <1> QED BY <1>1, <1>2, <1>3, <1>4, <1>5 DEF vars

-----------------------------------------------------------------------------
(* The theorems. *)

\* The inductive invariant holds of the heap that heap_init makes.
LEMMA InitHeapInv == Init => HeapInv
  <1> SUFFICES ASSUME Init PROVE HeapInv
    OBVIOUS
  <1>1. TypeOK
    BY InitType
  <1>2. Counted /\ NoRoomBefore
    BY DEF Init, Counted, NoRoomBefore
  <1>3. AllocationsIntact /\ UsedIsHeld
    BY DEF Init, AllocationsIntact, UsedIsHeld, Held, Nothing
  <1> QED BY <1>1, <1>2, <1>3 DEF HeapInv

\* The inductive invariant of the heap.
THEOREM HeapInvariant == Spec => []HeapInv
  <1>1. Init => HeapInv
    BY InitHeapInv
  <1>2. HeapInv /\ [Next]_vars => HeapInv'
    BY NextType, NextCounted, NextNoRoomBefore, NextAllocations DEF HeapInv
  <1> QED BY <1>1, <1>2, PTL DEF Spec

\* The end of a search: if n blocks in a row are free, an address at or before
\* the first of them is returned.
LEMMA SearchEnds ==
  ASSUME HeapInv, Found \/ NotFound, NEW b \in Blocks, HasRoom(b, n_alloc)
  PROVE  ret' # NULL /\ ret' <= Address(b)
  <1> USE HeapAssumption
  <1>0. n_alloc \in Nat \ {0} /\ i \in Nat /\ b \in Nat
    BY DEF HeapInv, TypeOK, Found, NotFound, Looking, Idle, Blocks
  <1>1. ~(b + n_alloc <= i)
    BY <1>0 DEF HeapInv, NoRoomBefore
  <1>2. CASE Found
    <2>1. PICK first \in Blocks : first = i + 1 - n_alloc
      BY <1>2, FirstOfRun DEF HeapInv
    <2>2. ret' = Address(first)
      BY <1>2, <2>1 DEF Found, Done
    <2>3. first \in Nat /\ (first < b \/ first = b)
      BY <1>0, <1>1, <2>1 DEF Blocks
    <2>4. Address(first) \in Nat \ {NULL} /\ (first < b => Address(first) < Address(b))
      BY <2>1, AddressOrder
    <2>5. Address(b) \in Nat
      BY AddressOrder
    <2> QED BY <2>2, <2>3, <2>4, <2>5
  <1>3. CASE NotFound
    <2>1. i = HEAP_NUM_BLOCK
      BY <1>3 DEF NotFound
    <2>2. b + n_alloc - 1 \in Blocks
      BY <1>0 DEF HasRoom, Run
    <2> QED BY <1>0, <1>1, <2>1, <2>2 DEF Blocks
  <1> QED BY <1>2, <1>3

\* heap_alloc finds memory whenever there is room in one piece, and the first
\* there is, for programs that ask for anything in any order.
THEOREM FirstFit == Spec => AllocatesFirstFit
  <1>1. ASSUME HeapInv, [Next]_vars
        PROVE  [~Idle /\ Idle' =>
                 \A b \in Blocks : HasRoom(b, n_alloc) => ret' # NULL /\ ret' <= Address(b)]_vars
    <2> SUFFICES ASSUME Next, ~Idle, Idle', NEW b \in Blocks, HasRoom(b, n_alloc)
                 PROVE  ret' # NULL /\ ret' <= Address(b)
      BY <1>1
    <2>1. Found \/ NotFound
      BY DEF Next, Allocate, SkipUsed, CountFree, heap_free, Exit, Idle
    <2> QED BY <1>1, <2>1, SearchEnds
  <1> QED BY <1>1, HeapInvariant, PTL DEF Spec, AllocatesFirstFit

\* In a heap of any size, programs that ask for any sizes and free any addresses
\* leave a table of the right type.
THEOREM TypeCorrect == Spec => []TypeOK
  <1>1. HeapInv => TypeOK
    BY DEF HeapInv
  <1> QED BY <1>1, HeapInvariant, PTL

\* No call of heap_alloc or heap_free takes a block from an allocation.
THEOREM AllocationsStayIntact == Spec => []AllocationsIntact
  <1>1. HeapInv => AllocationsIntact
    BY DEF HeapInv
  <1> QED BY <1>1, HeapInvariant, PTL

\* No call leaves a block used that no allocation has.
THEOREM NothingIsLost == Spec => []UsedIsHeld
  <1>1. HeapInv => UsedIsHeld
    BY DEF HeapInv
  <1> QED BY <1>1, HeapInvariant, PTL
=============================================================================
