----------------------------- MODULE KernelHeap -----------------------------
(***************************************************************************)
(* The memory that programs get from the kernel (source/kernel.c): a table  *)
(* of blocks, malloc (SYSCALL_MEM_ALLOCATE) and mfree (SYSCALL_MEM_FREE).   *)
(* The command line runs one program at a time (source/cli.c), and nothing  *)
(* takes back what a program that returns has not freed.                   *)
(***************************************************************************)
EXTENDS Integers

CONSTANTS
  HEAP_NUM_BLOCK,    \* blocks in the heap (32)
  HEAP_BLOCK_SIZE,   \* bytes in a block (8192)
  HEAPADDR,          \* address of the first block (0x30000)
  Sizes              \* sizes that programs ask for

NULL == 0

ASSUME HeapAssumption ==
  /\ HEAP_NUM_BLOCK \in Nat \ {0}
  /\ HEAP_BLOCK_SIZE \in Nat \ {0}
  /\ HEAPADDR \in Nat \ {NULL}
  /\ Sizes \subseteq Nat

VARIABLES
  heap,    \* the table: used, and the address the block was allocated under
  live,    \* what the running program holds: from addresses to numbers of blocks
  lost,    \* what programs that have returned had not freed
  ret,     \* the last address that heap_alloc returned
  n_alloc, \* blocks that the call of heap_alloc under way looks for; 0 if none is
  i,       \* the block its loop looks at
  n_found  \* free blocks just before it

vars == <<heap, live, lost, ret, n_alloc, i, n_found>>

-----------------------------------------------------------------------------
Blocks == 0 .. HEAP_NUM_BLOCK - 1
FreeBlock == [used |-> FALSE, ptr |-> NULL]

\* The address of a block: what heap_alloc may return.
Address(b) == HEAPADDR + b * HEAP_BLOCK_SIZE
Addresses == {Address(b) : b \in Blocks}

\* The blocks that size bytes take.
BlocksFor(size) == size \div HEAP_BLOCK_SIZE + (IF size % HEAP_BLOCK_SIZE = 0 THEN 0 ELSE 1)
Run(b, n) == b .. b + n - 1

\* The function with, or without, key p.
With(f, p, n) == [q \in DOMAIN f \cup {p} |-> IF q = p THEN n ELSE f[q]]
Without(f, p) == [q \in DOMAIN f \ {p} |-> f[q]]
Nothing == [p \in {} |-> 0]

-----------------------------------------------------------------------------
Init == /\ heap = [b \in Blocks |-> FreeBlock]
        /\ live = Nothing
        /\ lost = Nothing
        /\ ret = NULL
        /\ n_alloc = 0 /\ i = 0 /\ n_found = 0

Idle == n_alloc = 0
\* A mistake the checks must notice: the count is not reset.
DoneKeepingCount(ptr) == ret' = ptr /\ n_alloc' = 0 /\ i' = 0 /\ UNCHANGED n_found
Done(ptr) == ret' = ptr /\ n_alloc' = 0 /\ i' = 0 /\ n_found' = 0

\* heap_alloc is called.
Allocate(size) ==
  /\ Idle
  /\ IF size = 0 THEN Done(NULL)
     ELSE n_alloc' = BlocksFor(size) /\ UNCHANGED <<ret, i, n_found>>
  /\ UNCHANGED <<heap, live, lost>>

\* The ways its loop goes on: past a used block, past a free one that is not
\* enough yet, to the end of a run of blocks that is, and out of blocks.
Looking == ~Idle /\ i < HEAP_NUM_BLOCK

SkipUsed ==
  /\ Looking /\ heap[i].used
  /\ n_found' = 0 /\ i' = i + 1
  /\ UNCHANGED <<heap, live, lost, ret, n_alloc>>

CountFree ==
  /\ Looking /\ ~heap[i].used /\ n_found + 1 < n_alloc
  /\ n_found' = n_found + 1 /\ i' = i + 1
  /\ UNCHANGED <<heap, live, lost, ret, n_alloc>>

Found ==
  /\ Looking /\ ~heap[i].used /\ n_found + 1 >= n_alloc
  /\ LET first == i + 1 - n_alloc
     IN  /\ heap' = [c \in Blocks |-> IF c \in first .. i
                                      THEN [used |-> TRUE, ptr |-> Address(first)] ELSE heap[c]]
         /\ live' = With(live, Address(first), n_alloc)
         /\ Done(Address(first))
  /\ UNCHANGED lost

\* A mistake: the loop gives up at the last block.
NotFoundEarly ==
  /\ ~Idle /\ i = HEAP_NUM_BLOCK - 1
  /\ Done(NULL)
  /\ UNCHANGED <<heap, live, lost>>

NotFound ==
  /\ ~Idle /\ i = HEAP_NUM_BLOCK
  /\ Done(NULL)
  /\ UNCHANGED <<heap, live, lost>>

\* Mistakes: too many blocks are freed, and only the first one is.
FreeFrom(ptr) ==
  /\ Idle
  /\ ptr \notin DOMAIN lost
  /\ heap' = [b \in Blocks |-> IF ptr # NULL /\ heap[b].ptr >= ptr THEN FreeBlock ELSE heap[b]]
  /\ live' = Without(live, ptr)
  /\ UNCHANGED <<lost, ret, n_alloc, i, n_found>>
FreeFirst(ptr) ==
  /\ Idle
  /\ ptr \notin DOMAIN lost
  /\ heap' = [b \in Blocks |-> IF ptr = Address(b) /\ heap[b].ptr = ptr THEN FreeBlock ELSE heap[b]]
  /\ live' = Without(live, ptr)
  /\ UNCHANGED <<lost, ret, n_alloc, i, n_found>>

\* A program may pass any address to heap_free: one it holds, one it has freed
\* before, one inside an allocation, or NULL; but nothing that an earlier
\* program left behind, which it cannot know.
heap_free(ptr) ==
  /\ Idle
  /\ ptr \notin DOMAIN lost
  /\ heap' = [b \in Blocks |->
                IF ptr # NULL /\ heap[b].used /\ heap[b].ptr = ptr THEN FreeBlock ELSE heap[b]]
  /\ live' = Without(live, ptr)
  /\ UNCHANGED <<lost, ret, n_alloc, i, n_found>>

\* The program returns to the command line.
Exit ==
  /\ Idle
  /\ live # Nothing
  /\ live' = Nothing
  /\ lost' = [p \in DOMAIN lost \cup DOMAIN live |-> IF p \in DOMAIN live THEN live[p] ELSE lost[p]]
  /\ UNCHANGED <<heap, ret, n_alloc, i, n_found>>

Next == \/ \E size \in Sizes : Allocate(size)
        \/ SkipUsed
        \/ CountFree
        \/ Found
        \/ NotFound
        \/ \E ptr \in Addresses \cup {NULL} : heap_free(ptr)
        \/ Exit

Spec == Init /\ [][Next]_vars

-----------------------------------------------------------------------------
(* What programs rely on. *)

\* The addresses with something allocated at them, and how many blocks.
Held == DOMAIN live \cup DOMAIN lost
LengthAt(p) == IF p \in DOMAIN live THEN live[p] ELSE lost[p]

\* The type of the state.
TypeOK ==
  /\ heap \in [Blocks -> [used : BOOLEAN, ptr : Addresses \cup {NULL}]]
  /\ live \in [DOMAIN live -> Nat \ {0}] /\ DOMAIN live \subseteq Addresses
  /\ lost \in [DOMAIN lost -> Nat \ {0}] /\ DOMAIN lost \subseteq Addresses
  /\ ret \in Addresses \cup {NULL}
  /\ n_alloc \in Nat /\ i \in 0 .. HEAP_NUM_BLOCK /\ n_found \in 0 .. i

\* Every allocation keeps all of its blocks, whatever is allocated and freed
\* after it (heap_free releases blocks by the address stored in them): the
\* blocks from its address on are used and carry that address.
AllocationsIntact ==
  \A b \in Blocks : Address(b) \in Held =>
    \A c \in Run(b, LengthAt(Address(b))) :
      c \in Blocks /\ heap[c] = [used |-> TRUE, ptr |-> Address(b)]

\* The heap loses nothing: a used block belongs to an allocation that a program
\* holds or left behind, and one that belongs to none is as heap_init made it.
UsedIsHeld ==
  \A c \in Blocks :
    \/ heap[c] = FreeBlock
    \/ \E b \in Blocks : Address(b) \in Held /\ c \in Run(b, LengthAt(Address(b)))

\* heap_alloc finds memory if n blocks in a row are free, and the first that
\* are: the loop that counts free blocks does not step over a run of them.
HasRoom(b, n) == Run(b, n) \subseteq Blocks /\ \A c \in Run(b, n) : ~heap[c].used
AllocatesFirstFit ==
  [][~Idle /\ Idle' =>
       \A b \in Blocks : HasRoom(b, n_alloc) => ret' # NULL /\ ret' <= Address(b)]_vars
=============================================================================
