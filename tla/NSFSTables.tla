----------------------------- MODULE NSFSTables -----------------------------
(*****************************************************************************)
(* The entry table of a disk, and what the steps of the calls in             *)
(* source/fs.c do to it: the inductive invariant of NSFS, that it implies    *)
(* what source/fs.h promises, and that each step on one directory or one     *)
(* file keeps it.                                                            *)
(*****************************************************************************)
EXTENDS NSFSInv, LeastElement, TLAPS

\* The table of a disk and its parts.
Table     == [EntryIndex -> Entry]
UsedIn(E) == {n \in EntryIndex : E[n].flags # FREE}
IsDir(e)  == e.flags = T_DIR
IsFile(e) == e.flags = T_FILE
\* The bytes that an entry of a file holds at most.
Capacity  == SFS_ENTRYREFS * BLOCK_SIZE

-----------------------------------------------------------------------------
(***************************************************************************)
(* The inductive invariant.  O is a set of unlisted entries: within a call *)
(* an entry is in the table for a while before its directory lists it, or  *)
(* after.  Between calls there is none.                                    *)
(***************************************************************************)

\* Entry 0 is the root directory; it is its own parent.
RootIsRoot(E) == E[0].flags = T_DIR /\ E[0].name = ROOT_DIR_NAME /\ E[0].parent = 0

\* Nothing is left in a free entry: a new one is made from it.
FreeIsZero(E) == \A n \in EntryIndex : E[n].flags = FREE => E[n] = ZeroEntry

\* A directory is one entry: the discipline keeps it from getting a second one.
DirsFit(E) == \A n \in EntryIndex : IsDir(E[n]) => E[n].next = 0 /\ E[n].size <= SFS_ENTRYREFS

\* Names are as string_to_name makes them.
StoredNames(E) == \A n \in UsedIn(E) \ {0} : E[n].name \in Names /\ StoredName[E[n].name] = E[n].name

\* An entry of a file goes on in another one if its size is more than it holds.
Chains(E) ==
  \A n \in EntryIndex : IsFile(E[n]) =>
    /\ E[n].size <= Capacity <=> E[n].next = 0
    /\ E[n].next # 0 => LET c == E[E[n].next]
                        IN  IsFile(c) /\ c.parent = n /\ c.size = E[n].size - Capacity

\* The parent of an entry is a file that goes on in it or a directory that lists it.
Parents(E, O) ==
  \A n \in UsedIn(E) \ {0} :
    LET p == E[E[n].parent]
    IN  /\ p.flags # FREE
        /\ IsFile(p) => p.next = n
        /\ IsDir(p) /\ n \notin O => \E i \in 0 .. p.size - 1 : p.ref[i] = n

\* What a directory lists is in it, and is listed once.
Listings(E, O) ==
  \A p \in EntryIndex : IsDir(E[p]) =>
    \A i \in 0 .. E[p].size - 1 :
      LET c == E[p].ref[i]
      IN  /\ c \in UsedIn(E) \ ({0} \cup O) /\ E[c].parent = p
          /\ \A j \in 0 .. E[p].size - 1 : E[p].ref[j] = c => j = i

\* The names in a directory are different.
DirNames(E) ==
  \A m, n \in UsedIn(E) \ {0} :
    m # n /\ E[m].parent = E[n].parent /\ IsDir(E[E[n].parent]) => E[m].name # E[n].name

\* A reference that the size does not cover is 0; the references of a file are blocks.
Refs(E) ==
  \A n \in EntryIndex :
    /\ \A i \in RefIndex \ LiveRefs(E[n]) : E[n].ref[i] = 0
    /\ IsFile(E[n]) => \A i \in RefIndex : E[n].ref[i] \in {0} \cup DataBlocks

\* No block is at two places.
OneOwner(E) ==
  \A m, n \in EntryIndex, i, j \in RefIndex :
    IsFile(E[m]) /\ IsFile(E[n]) /\ E[m].ref[i] = E[n].ref[j] /\ E[m].ref[i] # 0 => m = n /\ i = j

\* Going up ends at the root: a set of used entries that holds the parent of each of
\* them holds the root.  That is EveryEntryUnderRoot without counting steps.
Rooted(E) ==
  \A S \in SUBSET UsedIn(E) : S # {} /\ (\A n \in S : E[n].parent \in S) => 0 \in S

Good(E, O) == /\ RootIsRoot(E) /\ FreeIsZero(E) /\ DirsFit(E) /\ StoredNames(E)
              /\ Chains(E) /\ Parents(E, O) /\ Listings(E, O) /\ DirNames(E)
              /\ Refs(E) /\ OneOwner(E) /\ Rooted(E)

\* Every disk is in order and no data was written over its table.
IInv == \A d \in Disks : Good(disk[d].entry, {}) /\ disk[d].smashed = {}

-----------------------------------------------------------------------------
(* Changes of a directory and of the table that keep it good. *)

\* Directory e with a reference to c added, and with reference number i taken out.
Plus(e, c) == [e EXCEPT !.ref = [@ EXCEPT ![e.size] = c], !.size = e.size + 1]
Minus(e, i) == [e EXCEPT !.ref = [j \in RefIndex |-> IF j < i THEN e.ref[j] ELSE IF j + 1 < e.size THEN e.ref[j + 1] ELSE 0],
                         !.size = e.size - 1]

\* The constants are natural numbers; no entry has the number of a data block.
LEMMA Numbers ==
  /\ 0 \in EntryIndex /\ EntryIndex \subseteq Nat
  /\ SFS_ENTRYREFS \in Nat /\ SFS_ENTRYREFS > 1 /\ BLOCK_SIZE \in Nat /\ BLOCK_SIZE > 0
  /\ Capacity \in Nat /\ Capacity >= SFS_ENTRYREFS /\ Capacity >= BLOCK_SIZE
  /\ FirstBlock \in Nat /\ DataBlocks \subseteq Nat /\ \A b \in DataBlocks : b \notin EntryIndex /\ b > 1 /\ b >= FirstBlock
<1>1. NEntries \in Nat /\ NEntries > 0 /\ NBlocks \in Nat /\ SFS_ENTRYREFS \in Nat /\ SFS_ENTRYREFS > 1
      /\ BLOCK_SIZE \in Nat /\ BLOCK_SIZE > 0
  BY NSFSDiskAssumption
<1>2. Capacity \in Nat /\ Capacity >= SFS_ENTRYREFS /\ Capacity >= BLOCK_SIZE
  BY <1>1 DEF Capacity
<1> QED BY <1>1, <1>2 DEF EntryIndex, FirstBlock, DataBlocks

\* In a directory of one entry the size says how many references are valid.
LEMMA DirRefs ==
  ASSUME NEW e \in Entry, IsDir(e), e.size <= SFS_ENTRYREFS
  PROVE  LiveRefs(e) = 0 .. e.size - 1
BY Numbers DEF LiveRefs, IsDir, Least, T_DIR, T_FILE, Entry

\* What add_ref_in_entry makes of a directory with a reference to spare.
LEMMA PlusFields ==
  ASSUME NEW e \in Entry, NEW c \in EntryIndex, IsDir(e), e.size < SFS_ENTRYREFS
  PROVE  /\ Plus(e, c) \in Entry /\ Plus(e, c).flags = T_DIR /\ Plus(e, c).name = e.name
         /\ Plus(e, c).parent = e.parent /\ Plus(e, c).next = e.next /\ Plus(e, c).size = e.size + 1
         /\ Plus(e, c).ref[e.size] = c /\ e.size \in RefIndex
         /\ \A i \in RefIndex \ {e.size} : Plus(e, c).ref[i] = e.ref[i]
<1>1. e.size \in RefIndex
  BY Numbers DEF Entry, RefIndex
<1> DEFINE f == [e.ref EXCEPT ![e.size] = c]
           size == e.size + 1
<1>2. f \in [RefIndex -> EntryIndex \cup DataBlocks] /\ size \in Nat
  BY <1>1, Numbers DEF Entry
<1>3. f[e.size] = c /\ \A i \in RefIndex \ {e.size} : f[i] = e.ref[i]
  BY <1>1 DEF Entry
<1>4. Plus(e, c) = [e EXCEPT !.ref = f, !.size = size]
  BY DEF Plus
<1>5. size = e.size + 1
  OBVIOUS
<1> HIDE DEF f, size
<1> QED BY <1>1, <1>2, <1>3, <1>4, <1>5 DEF Entry, IsDir

\* Listing in its parent an entry that is unlisted so far keeps the rest of the table good.
LEMMA Link ==
  ASSUME NEW E \in Table, NEW O \in SUBSET EntryIndex, NEW n \in UsedIn(E) \ {0}, n \notin O,
         Good(E, O \cup {n}), IsDir(E[E[n].parent]), E[E[n].parent].size < SFS_ENTRYREFS
  PROVE  LET p == E[n].parent
             E1 == [E EXCEPT ![p] = Plus(E[p], n)]
         IN  E1 \in Table /\ Good(E1, O)
<1> DEFINE p == E[n].parent
           E1 == [E EXCEPT ![p] = Plus(E[p], n)]
<1> SUFFICES E1 \in Table /\ Good(E1, O)
  OBVIOUS
<1>1. p \in EntryIndex /\ n \in EntryIndex /\ E[p] \in Entry /\ E[n] \in Entry
  BY DEF Table, Entry, UsedIn
<1>2. /\ E1[p] \in Entry /\ E1[p].flags = T_DIR /\ E1[p].name = E[p].name
      /\ E1[p].parent = E[p].parent /\ E1[p].next = E[p].next /\ E1[p].size = E[p].size + 1
      /\ E1[p].ref[E[p].size] = n /\ E[p].size \in RefIndex
      /\ \A i \in RefIndex \ {E[p].size} : E1[p].ref[i] = E[p].ref[i]
  BY <1>1, PlusFields DEF Table
<1>3. E1 \in Table /\ \A m \in EntryIndex \ {p} : E1[m] = E[m]
  BY <1>1, <1>2 DEF Table
<1>4. /\ \A m \in EntryIndex : E[m] \in Entry /\ E1[m] \in Entry /\ E1[m].flags = E[m].flags /\ E1[m].parent = E[m].parent
                             /\ E1[m].next = E[m].next /\ E1[m].name = E[m].name
      /\ UsedIn(E1) = UsedIn(E)
  BY <1>1, <1>2, <1>3 DEF Table, UsedIn, IsDir
<1> HIDE DEF E1
<1>5. E[p].size \in Nat /\ \A m \in EntryIndex : E[m].parent \in EntryIndex /\ E[m].next \in EntryIndex
  BY <1>1, <1>4 DEF Entry
<1>10. RootIsRoot(E1)
  BY <1>4, Numbers DEF Good, RootIsRoot
<1>11. FreeIsZero(E1)
  BY <1>2, <1>3, <1>4 DEF Good, FreeIsZero, FREE, T_DIR
<1>12. DirsFit(E1)
  BY <1>2, <1>3, <1>4, <1>5, Numbers DEF Good, DirsFit, IsDir
<1>13. StoredNames(E1)
  BY <1>4 DEF Good, StoredNames, UsedIn
<1>14. Chains(E1)
  BY <1>2, <1>3, <1>4, <1>5 DEF Good, Chains, IsFile, T_FILE, T_DIR
<1>15. Parents(E1, O)
  <2> SUFFICES ASSUME NEW m \in UsedIn(E1) \ {0}
               PROVE  /\ E1[E1[m].parent].flags # FREE
                      /\ IsFile(E1[E1[m].parent]) => E1[E1[m].parent].next = m
                      /\ IsDir(E1[E1[m].parent]) /\ m \notin O =>
                            \E i \in 0 .. E1[E1[m].parent].size - 1 : E1[E1[m].parent].ref[i] = m
    BY DEF Parents
  <2> DEFINE q == E[m].parent
  <2>1. m \in EntryIndex /\ q \in EntryIndex /\ E1[m].parent = q
    BY <1>4, <1>5 DEF UsedIn
  <2>2. /\ E[q].flags # FREE
        /\ IsFile(E[q]) => E[q].next = m
        /\ IsDir(E[q]) /\ m \notin O \cup {n} => \E i \in 0 .. E[q].size - 1 : E[q].ref[i] = m
    BY <1>4 DEF Good, Parents
  <2>3. ASSUME IsDir(E1[q]), m \notin O PROVE \E i \in 0 .. E1[q].size - 1 : E1[q].ref[i] = m
    <3>1. CASE m = n
      BY <1>2, <1>5, <3>1
    <3>2. CASE m # n /\ q # p
      BY <1>3, <2>1, <2>2, <2>3, <3>2
    <3>3. CASE m # n /\ q = p
      <4>1. PICK i \in 0 .. E[p].size - 1 : E[p].ref[i] = m
        BY <2>2, <2>3, <3>3
      <4>2. i \in RefIndex \ {E[p].size} /\ i \in 0 .. E1[p].size - 1
        BY <1>2, <1>5, <4>1, Numbers DEF RefIndex
      <4> QED BY <1>2, <3>3, <4>1, <4>2
    <3> QED BY <3>1, <3>2, <3>3
  <2> QED BY <1>4, <2>1, <2>2, <2>3 DEF IsFile, IsDir
<1>16. Listings(E1, O)
  <2> SUFFICES ASSUME NEW q \in EntryIndex, IsDir(E1[q]), NEW i \in 0 .. E1[q].size - 1
               PROVE  /\ E1[q].ref[i] \in UsedIn(E1) \ ({0} \cup O) /\ E1[E1[q].ref[i]].parent = q
                      /\ \A j \in 0 .. E1[q].size - 1 : E1[q].ref[j] = E1[q].ref[i] => j = i
    BY DEF Listings
  <2>1. \A k \in 0 .. E[q].size - 1 :
          /\ E[q].ref[k] \in UsedIn(E) \ ({0} \cup O \cup {n}) /\ E[E[q].ref[k]].parent = q
          /\ \A j \in 0 .. E[q].size - 1 : E[q].ref[j] = E[q].ref[k] => j = k
    BY <1>4 DEF Good, Listings, IsDir
  <2>2. CASE q # p
    BY <1>3, <1>4, <2>1, <2>2 DEF UsedIn
  <2>3. CASE q = p
    <3>1. \A k \in 0 .. E[p].size - 1 : k \in RefIndex \ {E[p].size}
      BY <1>2, <1>5, Numbers DEF RefIndex
    <3>2. \A k \in 0 .. E1[p].size - 1 : k = E[p].size \/ k \in 0 .. E[p].size - 1
      BY <1>2, <1>5
    <3>3. \A k \in 0 .. E[p].size - 1 : E1[p].ref[k] = E[p].ref[k]
      BY <1>2, <3>1
    <3>4. \A k \in 0 .. E[p].size - 1 : E1[p].ref[k] # n
      BY <2>1, <2>3, <3>3
    <3> QED BY <1>2, <1>4, <2>1, <2>3, <3>2, <3>3, <3>4 DEF UsedIn
  <2> QED BY <2>2, <2>3
<1>17. DirNames(E1)
  BY <1>4, <1>5 DEF Good, DirNames, IsDir, UsedIn
<1>18. Refs(E1)
  <2>1. E[p].size <= SFS_ENTRYREFS /\ E1[p].size <= SFS_ENTRYREFS
    BY <1>1, <1>2, <1>5, <1>12 DEF Good, DirsFit, IsDir
  <2>2. LiveRefs(E[p]) = 0 .. E[p].size - 1 /\ LiveRefs(E1[p]) = 0 .. E[p].size
    BY <1>1, <1>2, <1>5, <2>1, DirRefs DEF IsDir
  <2>3. \A i \in RefIndex \ LiveRefs(E1[p]) : i # E[p].size /\ i \notin LiveRefs(E[p])
    BY <1>5, <2>2
  <2> QED BY <1>1, <1>2, <1>3, <2>3 DEF Good, Refs, IsFile, T_FILE, T_DIR
<1>19. OneOwner(E1)
  BY <1>2, <1>3, <1>4 DEF Good, OneOwner, IsFile, T_FILE, T_DIR
<1>20. Rooted(E1)
  BY <1>4 DEF Good, Rooted, UsedIn
<1> QED BY <1>3, <1>10, <1>11, <1>12, <1>13, <1>14, <1>15, <1>16, <1>17, <1>18, <1>19, <1>20 DEF Good

\* What remove_ref_in_entry makes of a directory.
LEMMA MinusFields ==
  ASSUME NEW e \in Entry, NEW k \in 0 .. e.size - 1, IsDir(e), e.size <= SFS_ENTRYREFS
  PROVE  /\ Minus(e, k) \in Entry /\ Minus(e, k).flags = T_DIR /\ Minus(e, k).name = e.name
         /\ Minus(e, k).parent = e.parent /\ Minus(e, k).next = e.next /\ Minus(e, k).size = e.size - 1
         /\ \A i \in RefIndex : Minus(e, k).ref[i] =
              IF i < k THEN e.ref[i] ELSE IF i + 1 < e.size THEN e.ref[i + 1] ELSE 0
<1> DEFINE f == [j \in RefIndex |-> IF j < k THEN e.ref[j] ELSE IF j + 1 < e.size THEN e.ref[j + 1] ELSE 0]
           size == e.size - 1
<1>1. size \in Nat /\ e.size \in Nat
  BY DEF Entry
<1>2. f \in [RefIndex -> EntryIndex \cup DataBlocks]
  <2> SUFFICES ASSUME NEW j \in RefIndex PROVE f[j] \in EntryIndex \cup DataBlocks
    OBVIOUS
  <2>1. \A i \in RefIndex : e.ref[i] \in EntryIndex \cup DataBlocks
    BY DEF Entry
  <2>2. j + 1 < e.size => j + 1 \in RefIndex
    BY <1>1, Numbers DEF RefIndex
  <2> QED BY <2>1, <2>2, Numbers
<1>3. \A i \in RefIndex : f[i] = IF i < k THEN e.ref[i] ELSE IF i + 1 < e.size THEN e.ref[i + 1] ELSE 0
  OBVIOUS
<1>4. Minus(e, k) = [e EXCEPT !.ref = f, !.size = size]
  BY DEF Minus
<1>5. size = e.size - 1
  OBVIOUS
<1> HIDE DEF f, size
<1>6. /\ Minus(e, k) \in Entry /\ Minus(e, k).flags = T_DIR /\ Minus(e, k).name = e.name
      /\ Minus(e, k).parent = e.parent /\ Minus(e, k).next = e.next /\ Minus(e, k).size = size
      /\ Minus(e, k).ref = f
  BY <1>1, <1>2, <1>4 DEF Entry, IsDir
<1> QED BY <1>3, <1>5, <1>6

\* Taking a reference out of a directory leaves a good table in which that entry is unlisted.
LEMMA Unlink ==
  ASSUME NEW E \in Table, NEW O \in SUBSET EntryIndex, NEW n \in UsedIn(E) \ {0}, n \notin O,
         Good(E, O), IsDir(E[E[n].parent]), NEW k \in 0 .. E[E[n].parent].size - 1,
         E[E[n].parent].ref[k] = n
  PROVE  LET p == E[n].parent
             E1 == [E EXCEPT ![p] = Minus(E[p], k)]
         IN  E1 \in Table /\ Good(E1, O \cup {n})
<1> DEFINE p == E[n].parent
           E1 == [E EXCEPT ![p] = Minus(E[p], k)]
<1> SUFFICES E1 \in Table /\ Good(E1, O \cup {n})
  OBVIOUS
<1>1. p \in EntryIndex /\ n \in EntryIndex /\ E[p] \in Entry /\ E[n] \in Entry
  BY DEF Table, Entry, UsedIn
<1>a. E[p].size <= SFS_ENTRYREFS
  BY <1>1 DEF Good, DirsFit
<1>2. /\ E1[p] \in Entry /\ E1[p].flags = T_DIR /\ E1[p].name = E[p].name
      /\ E1[p].parent = E[p].parent /\ E1[p].next = E[p].next /\ E1[p].size = E[p].size - 1
      /\ \A i \in RefIndex : E1[p].ref[i] =
              IF i < k THEN E[p].ref[i] ELSE IF i + 1 < E[p].size THEN E[p].ref[i + 1] ELSE 0
  BY <1>1, <1>a, MinusFields DEF Table
<1>3. E1 \in Table /\ \A m \in EntryIndex \ {p} : E1[m] = E[m]
  BY <1>1, <1>2 DEF Table
<1>4. /\ \A m \in EntryIndex : E[m] \in Entry /\ E1[m] \in Entry /\ E1[m].flags = E[m].flags /\ E1[m].parent = E[m].parent
                             /\ E1[m].next = E[m].next /\ E1[m].name = E[m].name
      /\ UsedIn(E1) = UsedIn(E)
  BY <1>1, <1>2, <1>3 DEF Table, UsedIn, IsDir
<1> HIDE DEF E1
<1>5. E[p].size \in Nat /\ \A m \in EntryIndex : E[m].parent \in EntryIndex /\ E[m].next \in EntryIndex
  BY <1>1, <1>4 DEF Entry
<1>6. /\ \A i \in 0 .. E[p].size - 1 : i \in RefIndex
      /\ \A i \in 0 .. E1[p].size - 1 : i \in 0 .. E[p].size - 1 /\ i + 1 \in 0 .. E[p].size - 1
      /\ \A i \in 0 .. E1[p].size - 1 : E1[p].ref[i] = IF i < k THEN E[p].ref[i] ELSE E[p].ref[i + 1]
  BY <1>2, <1>5, <1>a, Numbers DEF RefIndex
<1>10. RootIsRoot(E1)
  BY <1>4, Numbers DEF Good, RootIsRoot
<1>11. FreeIsZero(E1)
  BY <1>2, <1>3, <1>4 DEF Good, FreeIsZero, FREE, T_DIR
<1>12. DirsFit(E1)
  BY <1>2, <1>3, <1>4, <1>5, Numbers DEF Good, DirsFit, IsDir
<1>13. StoredNames(E1)
  BY <1>4 DEF Good, StoredNames, UsedIn
<1>14. Chains(E1)
  BY <1>2, <1>3, <1>4, <1>5 DEF Good, Chains, IsFile, T_FILE, T_DIR
<1>15. Parents(E1, O \cup {n})
  <2> SUFFICES ASSUME NEW m \in UsedIn(E1) \ {0}
               PROVE  /\ E1[E1[m].parent].flags # FREE
                      /\ IsFile(E1[E1[m].parent]) => E1[E1[m].parent].next = m
                      /\ IsDir(E1[E1[m].parent]) /\ m \notin O \cup {n} =>
                            \E i \in 0 .. E1[E1[m].parent].size - 1 : E1[E1[m].parent].ref[i] = m
    BY DEF Parents
  <2> DEFINE q == E[m].parent
  <2>1. m \in EntryIndex /\ q \in EntryIndex /\ E1[m].parent = q
    BY <1>4, <1>5 DEF UsedIn
  <2>2. /\ E[q].flags # FREE
        /\ IsFile(E[q]) => E[q].next = m
        /\ IsDir(E[q]) /\ m \notin O => \E i \in 0 .. E[q].size - 1 : E[q].ref[i] = m
    BY <1>4 DEF Good, Parents
  <2>3. ASSUME IsDir(E1[q]), m \notin O \cup {n} PROVE \E i \in 0 .. E1[q].size - 1 : E1[q].ref[i] = m
    <3>0. PICK i \in 0 .. E[q].size - 1 : E[q].ref[i] = m
      BY <1>4, <2>1, <2>2, <2>3 DEF IsDir
    <3>1. CASE q # p
      BY <1>3, <2>1, <3>0, <3>1
    <3>2. CASE q = p /\ i < k
      <4>1. i \in 0 .. E1[p].size - 1
        BY <1>2, <1>5, <3>0, <3>2
      <4> QED BY <1>6, <3>0, <3>2, <4>1
    <3>3. CASE q = p /\ i > k
      <4>1. i - 1 \in 0 .. E1[p].size - 1 /\ ~(i - 1 < k) /\ i - 1 + 1 = i
        BY <1>2, <1>5, <3>0, <3>3
      <4> QED BY <1>6, <3>0, <3>3, <4>1
    <3>4. CASE q = p /\ i = k
      BY <2>3, <3>0, <3>4
    <3> QED BY <3>1, <3>2, <3>3, <3>4
  <2> QED BY <1>4, <2>1, <2>2, <2>3 DEF IsFile, IsDir
<1>16. Listings(E1, O \cup {n})
  <2> SUFFICES ASSUME NEW q \in EntryIndex, IsDir(E1[q]), NEW i \in 0 .. E1[q].size - 1
               PROVE  /\ E1[q].ref[i] \in UsedIn(E1) \ ({0} \cup O \cup {n}) /\ E1[E1[q].ref[i]].parent = q
                      /\ \A j \in 0 .. E1[q].size - 1 : E1[q].ref[j] = E1[q].ref[i] => j = i
    BY DEF Listings
  <2>1. \A x \in 0 .. E[q].size - 1 :
          /\ E[q].ref[x] \in UsedIn(E) \ ({0} \cup O) /\ E[E[q].ref[x]].parent = q
          /\ \A j \in 0 .. E[q].size - 1 : E[q].ref[j] = E[q].ref[x] => j = x
    BY <1>4 DEF Good, Listings, IsDir
  <2>2. CASE q # p
    BY <1>3, <1>4, <2>1, <2>2 DEF UsedIn
  <2>3. CASE q = p
    <3> DEFINE was(x) == IF x < k THEN x ELSE x + 1
    <3>1. \A x \in 0 .. E1[p].size - 1 : was(x) \in 0 .. E[p].size - 1 /\ E1[p].ref[x] = E[p].ref[was(x)] /\ was(x) # k
      BY <1>6
    <3>2. \A x, y \in 0 .. E1[p].size - 1 : was(x) = was(y) => x = y
      BY <1>2, <1>5
    <3> HIDE DEF was
    <3>3. E1[p].ref[i] # n
      BY <2>1, <2>3, <3>1
    <3> QED BY <1>4, <2>1, <2>3, <3>1, <3>2, <3>3 DEF UsedIn
  <2> QED BY <2>2, <2>3
<1>17. DirNames(E1)
  BY <1>4, <1>5 DEF Good, DirNames, IsDir, UsedIn
<1>18. Refs(E1)
  <2>1. E1[p].size <= SFS_ENTRYREFS /\ E1[p].size \in Nat
    BY <1>1, <1>2, <1>5, <1>a, Numbers
  <2>2. LiveRefs(E1[p]) = 0 .. E1[p].size - 1
    BY <1>1, <1>2, <1>5, <2>1, DirRefs DEF IsDir
  <2>3. \A i \in RefIndex \ LiveRefs(E1[p]) : ~(i < k) /\ ~(i + 1 < E[p].size)
    BY <1>2, <1>5, <2>2, Numbers DEF RefIndex
  <2>4. \A i \in RefIndex \ LiveRefs(E1[p]) : E1[p].ref[i] = 0
    BY <1>2, <2>3
  <2> QED BY <1>1, <1>2, <1>3, <2>4 DEF Good, Refs, IsFile, T_FILE, T_DIR
<1>19. OneOwner(E1)
  BY <1>2, <1>3, <1>4 DEF Good, OneOwner, IsFile, T_FILE, T_DIR
<1>20. Rooted(E1)
  BY <1>4 DEF Good, Rooted, UsedIn
<1> QED BY <1>3, <1>10, <1>11, <1>12, <1>13, <1>14, <1>15, <1>16, <1>17, <1>18, <1>19, <1>20 DEF Good

\* ------
Named(flags, p, name) == [ZeroEntry EXCEPT !.flags = flags, !.parent = p, !.name = name]

\* The fields of a new entry.
LEMMA Fresh ==
  ASSUME NEW flags \in {T_DIR, T_FILE}, NEW p \in EntryIndex, NEW name \in Names
  PROVE  /\ Named(flags, p, name) \in Entry /\ Named(flags, p, name).flags = flags
         /\ Named(flags, p, name).parent = p /\ Named(flags, p, name).name = name
         /\ Named(flags, p, name).size = 0 /\ Named(flags, p, name).next = 0
         /\ \A i \in RefIndex : Named(flags, p, name).ref[i] = 0
<1>1. ZeroEntry.ref = NoRefs /\ NoRefs \in [RefIndex -> EntryIndex \cup DataBlocks]
      /\ \A i \in RefIndex : NoRefs[i] = 0
  BY Numbers DEF ZeroEntry, NoRefs
<1> QED BY <1>1, Numbers DEF Named, ZeroEntry, Entry, T_DIR, T_FILE, FREE

\* A new file or directory in a free entry, under a directory where its name is not taken,
\* is an unlisted entry of a good table.
LEMMA NewUnlisted ==
  ASSUME NEW E \in Table, NEW O \in SUBSET EntryIndex, NEW n \in EntryIndex, E[n].flags = FREE,
         Good(E, O), NEW p \in EntryIndex, IsDir(E[p]), NEW name \in Names, StoredName[name] = name,
         NEW flags \in {T_DIR, T_FILE},
         \A m \in UsedIn(E) : ~(E[m].parent = p /\ E[m].name = name)
  PROVE  LET E1 == [E EXCEPT ![n] = Named(flags, p, name)]
         IN  E1 \in Table /\ Good(E1, O \cup {n})
<1> DEFINE e == Named(flags, p, name)
           E1 == [E EXCEPT ![n] = e]
<1> SUFFICES E1 \in Table /\ Good(E1, O \cup {n})
  OBVIOUS
<1>0. /\ e \in Entry /\ e.flags = flags /\ e.parent = p /\ e.name = name
      /\ e.size = 0 /\ e.next = 0 /\ \A i \in RefIndex : e.ref[i] = 0
  BY Fresh
<1> HIDE DEF e
<1>1. \A m \in EntryIndex : E[m] \in Entry
  BY DEF Table
<1>2. /\ E1[n] \in Entry /\ E1[n].flags = flags /\ E1[n].parent = p /\ E1[n].name = name
      /\ E1[n].size = 0 /\ E1[n].next = 0 /\ \A i \in RefIndex : E1[n].ref[i] = 0
  BY <1>0 DEF Table
<1>3. E1 \in Table /\ \A m \in EntryIndex \ {n} : E1[m] = E[m]
  BY <1>2 DEF Table
<1> HIDE DEF E1
<1>4. UsedIn(E1) = UsedIn(E) \cup {n} /\ n \notin UsedIn(E) /\ n # p /\ n # 0
  BY <1>2, <1>3, Numbers DEF UsedIn, FREE, T_DIR, T_FILE, IsDir, Good, RootIsRoot
<1>5. \A m \in EntryIndex : E[m].parent \in EntryIndex /\ E[m].next \in EntryIndex
  BY <1>1 DEF Entry
<1>6. \A m \in UsedIn(E) : m # n /\ m \in EntryIndex /\ E1[m] = E[m] /\ E[m].parent # n /\ E[m].next # n
  <2> SUFFICES ASSUME NEW m \in UsedIn(E) PROVE m # n /\ m \in EntryIndex /\ E1[m] = E[m] /\ E[m].parent # n /\ E[m].next # n
    OBVIOUS
  <2>1. m # n /\ m \in EntryIndex /\ E1[m] = E[m]
    BY <1>3, <1>4 DEF UsedIn
  <2>2. E[m].parent # n
    BY <1>4, <2>1, Numbers DEF Good, Parents, RootIsRoot
  <2>3. E[m].next # n
    <3>1. CASE IsFile(E[m])
      BY <1>4, <2>1, <3>1 DEF Good, Chains, IsFile, FREE, T_FILE
    <3>2. CASE IsDir(E[m])
      BY <1>4, <2>1, <3>2 DEF Good, DirsFit
    <3>3. IsFile(E[m]) \/ IsDir(E[m])
      BY <1>1, <2>1 DEF Entry, UsedIn, IsFile, IsDir
    <3> QED BY <3>1, <3>2, <3>3
  <2> QED BY <2>1, <2>2, <2>3
<1>10. RootIsRoot(E1)
  BY <1>3, <1>4, Numbers DEF Good, RootIsRoot
<1>11. FreeIsZero(E1)
  BY <1>2, <1>3 DEF Good, FreeIsZero, FREE, T_DIR, T_FILE
<1>12. DirsFit(E1)
  BY <1>2, <1>3, Numbers DEF Good, DirsFit, IsDir
<1>13. StoredNames(E1)
  BY <1>2, <1>4, <1>6 DEF Good, StoredNames
<1>14. Chains(E1)
  <2> SUFFICES ASSUME NEW m \in EntryIndex, IsFile(E1[m])
               PROVE  /\ E1[m].size <= Capacity <=> E1[m].next = 0
                      /\ E1[m].next # 0 => /\ IsFile(E1[E1[m].next]) /\ E1[E1[m].next].parent = m
                                           /\ E1[E1[m].next].size = E1[m].size - Capacity
    BY DEF Chains
  <2>1. CASE m = n
    BY <1>2, <2>1, Numbers
  <2>2. CASE m # n
    <3>1. m \in UsedIn(E)
      BY <1>3, <2>2 DEF UsedIn, IsFile, FREE, T_FILE
    <3> QED BY <1>3, <1>5, <1>6, <3>1 DEF Good, Chains
  <2> QED BY <2>1, <2>2
<1>15. Parents(E1, O \cup {n})
  <2> SUFFICES ASSUME NEW m \in UsedIn(E1) \ {0}
               PROVE  /\ E1[E1[m].parent].flags # FREE
                      /\ IsFile(E1[E1[m].parent]) => E1[E1[m].parent].next = m
                      /\ IsDir(E1[E1[m].parent]) /\ m \notin O \cup {n} =>
                            \E i \in 0 .. E1[E1[m].parent].size - 1 : E1[E1[m].parent].ref[i] = m
    BY DEF Parents
  <2>1. CASE m = n
    BY <1>2, <1>3, <1>4, <2>1 DEF IsDir, IsFile, FREE, T_DIR, T_FILE
  <2>2. CASE m # n
    <3>1. m \in UsedIn(E) /\ E[m].parent \in EntryIndex \ {n}
      BY <1>4, <1>5, <1>6, <2>2
    <3> QED BY <1>3, <1>6, <2>2, <3>1 DEF Good, Parents
  <2> QED BY <2>1, <2>2
<1>16. Listings(E1, O \cup {n})
  <2> SUFFICES ASSUME NEW q \in EntryIndex, IsDir(E1[q]), NEW i \in 0 .. E1[q].size - 1
               PROVE  /\ E1[q].ref[i] \in UsedIn(E1) \ ({0} \cup O \cup {n}) /\ E1[E1[q].ref[i]].parent = q
                      /\ \A j \in 0 .. E1[q].size - 1 : E1[q].ref[j] = E1[q].ref[i] => j = i
    BY DEF Listings
  <2>1. q # n
    BY <1>2
  <2> QED BY <1>3, <1>4, <1>6, <2>1 DEF Good, Listings
<1>17. DirNames(E1)
  <2> SUFFICES ASSUME NEW l \in UsedIn(E1) \ {0}, NEW m \in UsedIn(E1) \ {0}, l # m,
                      E1[l].parent = E1[m].parent, IsDir(E1[E1[m].parent])
               PROVE  E1[l].name # E1[m].name
    BY DEF DirNames
  <2>1. CASE l = n
    BY <1>2, <1>4, <1>6, <2>1
  <2>2. CASE m = n
    BY <1>2, <1>4, <1>6, <2>2
  <2>3. CASE l # n /\ m # n
    BY <1>3, <1>4, <1>5, <1>6, <2>3 DEF Good, DirNames
  <2> QED BY <2>1, <2>2, <2>3
<1>18. Refs(E1)
  BY <1>2, <1>3 DEF Good, Refs
<1>19. OneOwner(E1)
  BY <1>2, <1>3 DEF Good, OneOwner
<1>20. Rooted(E1)
  <2> SUFFICES ASSUME NEW S \in SUBSET UsedIn(E1), S # {}, \A m \in S : E1[m].parent \in S
               PROVE  0 \in S
    BY DEF Rooted
  <2>1. S \ {n} \in SUBSET UsedIn(E) /\ S \ {n} # {}
    BY <1>2, <1>4
  <2>2. \A m \in S \ {n} : E[m].parent \in S \ {n}
    BY <1>6, <2>1
  <2> QED BY <2>1, <2>2 DEF Good, Rooted
<1> QED BY <1>3, <1>10, <1>11, <1>12, <1>13, <1>14, <1>15, <1>16, <1>17, <1>18, <1>19, <1>20 DEF Good

\* An unlisted entry may get a new name and a new parent, if the new parent is not below it:
\* Q is a set that is closed under parents, holds the new parent and does not hold the entry.
LEMMA Reparent ==
  ASSUME NEW E \in Table, NEW O \in SUBSET EntryIndex, NEW n \in UsedIn(E) \ {0}, n \in O,
         Good(E, O), IsDir(E[E[n].parent]), NEW q \in EntryIndex, IsDir(E[q]), NEW name \in Names, StoredName[name] = name,
         \A m \in UsedIn(E) : m # n => ~(E[m].parent = q /\ E[m].name = name),
         NEW Q \in SUBSET EntryIndex, q \in Q, n \notin Q, \A m \in Q : E[m].parent \in Q
  PROVE  LET E1 == [E EXCEPT ![n] = [E[n] EXCEPT !.name = name, !.parent = q]]
         IN  E1 \in Table /\ Good(E1, O)
<1> DEFINE e == [E[n] EXCEPT !.name = name, !.parent = q]
           E1 == [E EXCEPT ![n] = e]
<1> SUFFICES E1 \in Table /\ Good(E1, O)
  OBVIOUS
<1>1. \A m \in EntryIndex : E[m] \in Entry /\ E[m].parent \in EntryIndex /\ E[m].next \in EntryIndex
  BY DEF Table, Entry
<1>2. n \in EntryIndex /\ n # 0 /\ E[n].flags # FREE /\ n # q
  BY DEF UsedIn
<1>0. /\ e \in Entry /\ e.flags = E[n].flags /\ e.parent = q /\ e.name = name
      /\ e.size = E[n].size /\ e.next = E[n].next /\ e.ref = E[n].ref
  BY <1>1, <1>2 DEF Entry
<1> HIDE DEF e
<1>3. E1 \in Table /\ E1[n] = e /\ \A m \in EntryIndex \ {n} : E1[m] = E[m]
  BY <1>0, <1>2 DEF Table
<1> HIDE DEF E1
<1>4. /\ \A m \in EntryIndex : E1[m].flags = E[m].flags /\ E1[m].size = E[m].size
                             /\ E1[m].next = E[m].next /\ E1[m].ref = E[m].ref
      /\ UsedIn(E1) = UsedIn(E)
  BY <1>0, <1>3 DEF UsedIn
<1>5. \A m \in EntryIndex : m # n => E1[m].parent = E[m].parent /\ E1[m].name = E[m].name
  BY <1>3
<1>6. \A m \in EntryIndex : LiveRefs(E1[m]) = LiveRefs(E[m])
  BY <1>4 DEF LiveRefs
<1>10. RootIsRoot(E1)
  BY <1>2, <1>3, Numbers DEF Good, RootIsRoot
<1>11. FreeIsZero(E1)
  BY <1>2, <1>3, <1>4 DEF Good, FreeIsZero
<1>12. DirsFit(E1)
  BY <1>4 DEF Good, DirsFit, IsDir
<1>13. StoredNames(E1)
  BY <1>0, <1>3, <1>4 DEF Good, StoredNames, UsedIn
<1>14. Chains(E1)
  <2> SUFFICES ASSUME NEW m \in EntryIndex, IsFile(E1[m])
               PROVE  /\ E1[m].size <= Capacity <=> E1[m].next = 0
                      /\ E1[m].next # 0 => /\ IsFile(E1[E1[m].next]) /\ E1[E1[m].next].parent = m
                                           /\ E1[E1[m].next].size = E1[m].size - Capacity
    BY DEF Chains
  <2>1. /\ E[m].size <= Capacity <=> E[m].next = 0
        /\ E[m].next # 0 => /\ IsFile(E[E[m].next]) /\ E[E[m].next].parent = m
                            /\ E[E[m].next].size = E[m].size - Capacity
    BY <1>4 DEF Good, Chains, IsFile
  <2>2. IsFile(E[m])
    BY <1>4 DEF IsFile
  <2>3. E[m].next # 0 => E[m].next # n
    BY <1>1, <2>1, <2>2 DEF IsFile, IsDir, T_DIR, T_FILE
  <2> QED BY <1>1, <1>4, <1>5, <2>1, <2>3 DEF IsFile
<1>15. Parents(E1, O)
  <2> SUFFICES ASSUME NEW m \in UsedIn(E1) \ {0}
               PROVE  /\ E1[E1[m].parent].flags # FREE
                      /\ IsFile(E1[E1[m].parent]) => E1[E1[m].parent].next = m
                      /\ IsDir(E1[E1[m].parent]) /\ m \notin O =>
                            \E i \in 0 .. E1[E1[m].parent].size - 1 : E1[E1[m].parent].ref[i] = m
    BY DEF Parents
  <2>1. CASE m = n
    BY <1>0, <1>3, <1>4, <2>1 DEF IsDir, IsFile, FREE, T_DIR, T_FILE
  <2>2. CASE m # n
    BY <1>1, <1>4, <1>5, <2>2 DEF Good, Parents, UsedIn, IsFile, IsDir
  <2> QED BY <2>1, <2>2
<1>16. Listings(E1, O)
  BY <1>2, <1>4, <1>5 DEF Good, Listings, IsDir, UsedIn
<1>17. DirNames(E1)
  <2> SUFFICES ASSUME NEW l \in UsedIn(E1) \ {0}, NEW m \in UsedIn(E1) \ {0}, l # m,
                      E1[l].parent = E1[m].parent, IsDir(E1[E1[m].parent])
               PROVE  E1[l].name # E1[m].name
    BY DEF DirNames
  <2>0. l \in EntryIndex /\ m \in EntryIndex
    BY DEF UsedIn
  <2>1. CASE l = n
    BY <1>0, <1>3, <1>4, <1>5, <2>0, <2>1
  <2>2. CASE m = n
    BY <1>0, <1>3, <1>4, <1>5, <2>0, <2>2
  <2>3. CASE l # n /\ m # n
    BY <1>1, <1>4, <1>5, <2>0, <2>3 DEF Good, DirNames, IsDir
  <2> QED BY <2>1, <2>2, <2>3
<1>18. Refs(E1)
  BY <1>4, <1>6 DEF Good, Refs, IsFile
<1>19. OneOwner(E1)
  BY <1>4 DEF Good, OneOwner, IsFile
<1>20. Rooted(E1)
  <2> SUFFICES ASSUME NEW S \in SUBSET UsedIn(E1), S # {}, \A m \in S : E1[m].parent \in S
               PROVE  0 \in S
    BY DEF Rooted
  <2>1. CASE n \notin S
    BY <1>4, <1>5, <2>1 DEF Good, Rooted, UsedIn
  <2>2. CASE n \in S
    <3>1. q \in S
      BY <1>0, <1>3, <2>2
    <3>2. \A m \in S \cap Q : E[m].parent \in S \cap Q
      BY <1>5
    <3>3. S \cap Q \in SUBSET UsedIn(E) /\ S \cap Q # {}
      BY <1>4, <3>1
    <3> QED BY <3>2, <3>3 DEF Good, Rooted
  <2> QED BY <2>1, <2>2
<1> QED BY <1>3, <1>10, <1>11, <1>12, <1>13, <1>14, <1>15, <1>16, <1>17, <1>18, <1>19, <1>20 DEF Good

\* -----
Zeroed(E, Z) == [m \in EntryIndex |-> IF m \in Z THEN ZeroEntry ELSE E[m]]

\* The fields of a zeroed entry.
LEMMA ZeroIsEntry == /\ ZeroEntry \in Entry /\ ZeroEntry.flags = FREE /\ \A i \in RefIndex : ZeroEntry.ref[i] = 0
                     /\ ZeroEntry.next = 0 /\ ZeroEntry.size = 0 /\ ZeroEntry.parent = 0
BY Numbers DEF ZeroEntry, Entry, NoRefs, FREE

\* A table with some entries zeroed.
LEMMA ZeroedFields ==
  ASSUME NEW E \in Table, NEW Z
  PROVE  /\ Zeroed(E, Z) \in Table
         /\ \A m \in EntryIndex : Zeroed(E, Z)[m] = IF m \in Z THEN ZeroEntry ELSE E[m]
         /\ UsedIn(Zeroed(E, Z)) = UsedIn(E) \ Z
BY ZeroIsEntry DEF Zeroed, Table, UsedIn

\* A set of entries to be freed: unlisted, with what is below them and after them.
Removable(E, O, Z) ==
  /\ 0 \notin Z
  /\ \A m \in UsedIn(E) \ {0} : E[m].parent \in Z => m \in Z
  /\ \A m \in Z : IsDir(E[E[m].parent]) /\ E[m].parent \notin Z => m \in O
  /\ \A m \in Z : IsFile(E[E[m].parent]) => E[m].parent \in Z

\* Entries that no directory lists and no other entry belongs to can be zeroed together.
LEMMA Freed ==
  ASSUME NEW E \in Table, NEW O \in SUBSET EntryIndex, NEW Z \in SUBSET UsedIn(E), Good(E, O), Removable(E, O, Z)
  PROVE  Zeroed(E, Z) \in Table /\ Good(Zeroed(E, Z), O \ Z)
<1> DEFINE E1 == Zeroed(E, Z)
<1>0. E1 = Zeroed(E, Z)
  OBVIOUS
<1>1. \A m \in EntryIndex : E[m] \in Entry /\ E[m].parent \in EntryIndex /\ E[m].next \in EntryIndex
  BY DEF Table, Entry
<1>2. /\ 0 \notin Z
      /\ \A m \in UsedIn(E) \ {0} : E[m].parent \in Z => m \in Z
      /\ \A m \in Z : IsDir(E[E[m].parent]) /\ E[m].parent \notin Z => m \in O
      /\ \A m \in Z : IsFile(E[E[m].parent]) => E[m].parent \in Z
  BY DEF Removable
<1>3. /\ E1 \in Table
      /\ \A m \in EntryIndex : E1[m] = IF m \in Z THEN ZeroEntry ELSE E[m]
      /\ UsedIn(E1) = UsedIn(E) \ Z
  BY ZeroedFields
<1> HIDE DEF E1
<1>4. /\ ZeroEntry \in Entry /\ ZeroEntry.flags = FREE /\ \A i \in RefIndex : ZeroEntry.ref[i] = 0
      /\ ~IsDir(ZeroEntry) /\ ~IsFile(ZeroEntry)
  BY ZeroIsEntry DEF IsDir, IsFile, T_DIR, T_FILE, FREE
<1>5. \A m \in UsedIn(E) \ Z : E1[m] = E[m] /\ (m = 0 \/ E[m].parent \in UsedIn(E) \ Z) /\ m \in EntryIndex
  BY <1>1, <1>2, <1>3 DEF Good, Parents, UsedIn
<1>6. \A m \in EntryIndex : IsDir(E1[m]) \/ IsFile(E1[m]) => m \in UsedIn(E) \ Z /\ E1[m] = E[m]
  BY <1>3, <1>4 DEF UsedIn, IsDir, IsFile, T_DIR, T_FILE, FREE
<1>10. RootIsRoot(E1)
  BY <1>2, <1>3, Numbers DEF Good, RootIsRoot
<1>11. FreeIsZero(E1)
  BY <1>3, <1>4 DEF Good, FreeIsZero
<1>12. DirsFit(E1)
  BY <1>6 DEF Good, DirsFit
<1>13. StoredNames(E1)
  BY <1>3, <1>5 DEF Good, StoredNames
<1>14. Chains(E1)
  <2> SUFFICES ASSUME NEW m \in EntryIndex, IsFile(E1[m])
               PROVE  /\ E1[m].size <= Capacity <=> E1[m].next = 0
                      /\ E1[m].next # 0 => /\ IsFile(E1[E1[m].next]) /\ E1[E1[m].next].parent = m
                                           /\ E1[E1[m].next].size = E1[m].size - Capacity
    BY DEF Chains
  <2>1. m \in UsedIn(E) \ Z /\ E1[m] = E[m] /\ IsFile(E[m])
    BY <1>6
  <2>2. E[m].next # 0 => E[m].next \in UsedIn(E) /\ E[m].next \notin Z
    BY <1>1, <1>2, <2>1 DEF Good, Chains, UsedIn, IsFile, T_FILE, FREE
  <2> QED BY <1>5, <2>1, <2>2 DEF Good, Chains
<1>15. Parents(E1, O \ Z)
  <2> SUFFICES ASSUME NEW m \in UsedIn(E1) \ {0}
               PROVE  /\ E1[E1[m].parent].flags # FREE
                      /\ IsFile(E1[E1[m].parent]) => E1[E1[m].parent].next = m
                      /\ IsDir(E1[E1[m].parent]) /\ m \notin O \ Z =>
                            \E i \in 0 .. E1[E1[m].parent].size - 1 : E1[E1[m].parent].ref[i] = m
    BY DEF Parents
  <2>1. m \in UsedIn(E) \ Z /\ E1[m] = E[m] /\ E[m].parent \in UsedIn(E) \ Z /\ E1[E[m].parent] = E[E[m].parent]
    BY <1>3, <1>5
  <2> QED BY <2>1 DEF Good, Parents
<1>16. Listings(E1, O \ Z)
  <2> SUFFICES ASSUME NEW q \in EntryIndex, IsDir(E1[q]), NEW i \in 0 .. E1[q].size - 1
               PROVE  /\ E1[q].ref[i] \in UsedIn(E1) \ ({0} \cup (O \ Z)) /\ E1[E1[q].ref[i]].parent = q
                      /\ \A j \in 0 .. E1[q].size - 1 : E1[q].ref[j] = E1[q].ref[i] => j = i
    BY DEF Listings
  <2>1. q \in UsedIn(E) \ Z /\ E1[q] = E[q]
    BY <1>6
  <2>2. /\ E[q].ref[i] \in UsedIn(E) \ ({0} \cup O) /\ E[E[q].ref[i]].parent = q
        /\ \A j \in 0 .. E[q].size - 1 : E[q].ref[j] = E[q].ref[i] => j = i
    BY <2>1 DEF Good, Listings
  <2>3. E[q].ref[i] \notin Z
    BY <1>2, <2>1, <2>2
  <2> QED BY <1>3, <1>5, <2>1, <2>2, <2>3
<1>17. DirNames(E1)
  BY <1>3, <1>5 DEF Good, DirNames
<1>18. Refs(E1)
  BY <1>3, <1>4 DEF Good, Refs
<1>19. OneOwner(E1)
  BY <1>6 DEF Good, OneOwner
<1>20. Rooted(E1)
  BY <1>3, <1>5 DEF Good, Rooted
<1> QED BY <1>0, <1>3, <1>10, <1>11, <1>12, <1>13, <1>14, <1>15, <1>16, <1>17, <1>18, <1>19, <1>20 DEF Good

\* A file that ends in its head entry, e now; Z held what was after it.
EndsIn(E, n, e, Z) ==
  /\ IsFile(E[n]) /\ IsDir(E[E[n].parent])
  /\ e.flags = T_FILE /\ e.name = E[n].name /\ e.parent = E[n].parent /\ e.next = 0 /\ e.size <= Capacity
  /\ \A i \in RefIndex : e.ref[i] \in {0, E[n].ref[i]}
  /\ \A i \in RefIndex \ LiveRefs(e) : e.ref[i] = 0
  /\ n \notin Z /\ (E[n].next = 0 \/ E[n].next \in Z)
  /\ \A z \in Z : IsFile(E[z]) /\ (E[z].next = 0 \/ E[z].next \in Z) /\ (E[z].parent = n \/ E[z].parent \in Z)

\* A file that ends at entry n, with the entries that followed it zeroed, leaves a good table.
LEMMA CutShorter ==
  ASSUME NEW E \in Table, NEW O \in SUBSET EntryIndex, Good(E, O), NEW n \in EntryIndex, NEW e \in Entry,
         NEW Z \in SUBSET UsedIn(E), EndsIn(E, n, e, Z),
         NEW E1, E1 = [Zeroed(E, Z) EXCEPT ![n] = e]
  PROVE  E1 \in Table /\ Good(E1, O)
<1>1. \A m \in EntryIndex : E[m] \in Entry /\ E[m].parent \in EntryIndex /\ E[m].next \in EntryIndex
  BY DEF Table, Entry
<1>2. /\ IsFile(E[n]) /\ IsDir(E[E[n].parent])
      /\ e.flags = T_FILE /\ e.name = E[n].name /\ e.parent = E[n].parent /\ e.next = 0 /\ e.size <= Capacity
      /\ \A i \in RefIndex : e.ref[i] \in {0, E[n].ref[i]}
      /\ \A i \in RefIndex \ LiveRefs(e) : e.ref[i] = 0
      /\ n \notin Z /\ (E[n].next = 0 \/ E[n].next \in Z)
      /\ \A z \in Z : IsFile(E[z]) /\ (E[z].next = 0 \/ E[z].next \in Z) /\ (E[z].parent = n \/ E[z].parent \in Z)
  BY DEF EndsIn
<1>3. /\ E1 \in Table /\ E1[n] = e
      /\ \A m \in EntryIndex \ {n} : E1[m] = IF m \in Z THEN ZeroEntry ELSE E[m]
  BY ZeroedFields DEF Table
<1>4. /\ ZeroEntry \in Entry /\ ZeroEntry.flags = FREE /\ \A i \in RefIndex : ZeroEntry.ref[i] = 0
      /\ ~IsDir(ZeroEntry) /\ ~IsFile(ZeroEntry)
  BY ZeroIsEntry DEF IsDir, IsFile, T_DIR, T_FILE, FREE
<1>5. /\ 0 \notin Z /\ n # 0 /\ Z \subseteq EntryIndex
      /\ n \in UsedIn(E)
      /\ UsedIn(E1) = UsedIn(E) \ Z
  BY <1>2, <1>3, <1>4 DEF Good, RootIsRoot, UsedIn, IsDir, IsFile, T_DIR, T_FILE, FREE
<1>6. \A m \in UsedIn(E) \ Z : /\ m \in EntryIndex /\ E1[m].flags = E[m].flags /\ E1[m].name = E[m].name
                               /\ E1[m].parent = E[m].parent
                               /\ m # n => E1[m] = E[m]
  BY <1>2, <1>3 DEF UsedIn, IsFile
<1>7. \A m \in UsedIn(E) \ Z : m = 0 \/ (E[m].parent \in UsedIn(E) \ (Z \cup {n}))
  BY <1>1, <1>2, <1>5 DEF Good, Parents, UsedIn
<1>8. \A m \in EntryIndex : IsDir(E1[m]) => m \in UsedIn(E) \ Z /\ m # n /\ E1[m] = E[m]
  BY <1>2, <1>3, <1>4 DEF UsedIn, IsDir, IsFile, T_DIR, T_FILE, FREE
<1>9. \A m \in EntryIndex : IsFile(E1[m]) => m \in UsedIn(E) \ Z /\ IsFile(E[m]) /\ (m # n => E1[m] = E[m])
  BY <1>2, <1>3, <1>4, <1>5 DEF UsedIn, IsDir, IsFile, T_DIR, T_FILE, FREE
<1>10. RootIsRoot(E1)
  BY <1>3, <1>5, Numbers DEF Good, RootIsRoot
<1>11. FreeIsZero(E1)
  BY <1>2, <1>3, <1>4 DEF Good, FreeIsZero, FREE, T_FILE
<1>12. DirsFit(E1)
  BY <1>8 DEF Good, DirsFit
<1>13. StoredNames(E1)
  BY <1>5, <1>6 DEF Good, StoredNames
<1>14. Chains(E1)
  <2> SUFFICES ASSUME NEW m \in EntryIndex, IsFile(E1[m])
               PROVE  /\ E1[m].size <= Capacity <=> E1[m].next = 0
                      /\ E1[m].next # 0 => /\ IsFile(E1[E1[m].next]) /\ E1[E1[m].next].parent = m
                                           /\ E1[E1[m].next].size = E1[m].size - Capacity
    BY DEF Chains
  <2>1. CASE m = n
    BY <1>2, <1>3, <2>1
  <2>2. CASE m # n
    <3>1. m \in UsedIn(E) \ Z /\ E1[m] = E[m] /\ IsFile(E[m])
      BY <1>9, <2>2
    <3>2. E[m].next # 0 => /\ E[m].next \in UsedIn(E) /\ E[m].next \notin Z /\ E[m].next # n
                           /\ IsFile(E[E[m].next]) /\ E[E[m].next].parent = m
                           /\ E[E[m].next].size = E[m].size - Capacity
      BY <1>1, <1>2, <2>2, <3>1 DEF Good, Chains, UsedIn, IsFile, IsDir, T_FILE, T_DIR, FREE
    <3>3. E[m].size <= Capacity <=> E[m].next = 0
      BY <3>1 DEF Good, Chains
    <3> QED BY <1>6, <3>1, <3>2, <3>3
  <2> QED BY <2>1, <2>2
<1>15. Parents(E1, O)
  <2> SUFFICES ASSUME NEW m \in UsedIn(E1) \ {0}
               PROVE  /\ E1[E1[m].parent].flags # FREE
                      /\ IsFile(E1[E1[m].parent]) => E1[E1[m].parent].next = m
                      /\ IsDir(E1[E1[m].parent]) /\ m \notin O =>
                            \E i \in 0 .. E1[E1[m].parent].size - 1 : E1[E1[m].parent].ref[i] = m
    BY DEF Parents
  <2>1. m \in UsedIn(E) \ Z /\ E1[m].parent = E[m].parent /\ E1[E[m].parent] = E[E[m].parent]
    BY <1>5, <1>6, <1>7
  <2> QED BY <2>1 DEF Good, Parents
<1>16. Listings(E1, O)
  <2> SUFFICES ASSUME NEW q \in EntryIndex, IsDir(E1[q]), NEW i \in 0 .. E1[q].size - 1
               PROVE  /\ E1[q].ref[i] \in UsedIn(E1) \ ({0} \cup O) /\ E1[E1[q].ref[i]].parent = q
                      /\ \A j \in 0 .. E1[q].size - 1 : E1[q].ref[j] = E1[q].ref[i] => j = i
    BY DEF Listings
  <2>1. q \in UsedIn(E) \ Z /\ E1[q] = E[q] /\ q # n
    BY <1>8
  <2>2. /\ E[q].ref[i] \in UsedIn(E) \ ({0} \cup O) /\ E[E[q].ref[i]].parent = q
        /\ \A j \in 0 .. E[q].size - 1 : E[q].ref[j] = E[q].ref[i] => j = i
    BY <2>1 DEF Good, Listings
  <2>3. E[q].ref[i] \notin Z
    BY <1>2, <2>1, <2>2
  <2> QED BY <1>5, <1>6, <2>1, <2>2, <2>3
<1>17. DirNames(E1)
  <2> SUFFICES ASSUME NEW l \in UsedIn(E1) \ {0}, NEW m \in UsedIn(E1) \ {0}, l # m,
                      E1[l].parent = E1[m].parent, IsDir(E1[E1[m].parent])
               PROVE  E1[l].name # E1[m].name
    BY DEF DirNames
  <2>1. l \in UsedIn(E) \ {0} /\ m \in UsedIn(E) \ {0} /\ E[l].parent = E[m].parent
        /\ E1[l].name = E[l].name /\ E1[m].name = E[m].name
    BY <1>5, <1>6
  <2>2. IsDir(E[E[m].parent])
    BY <1>5, <1>6, <1>7 DEF IsDir
  <2> QED BY <2>1, <2>2 DEF Good, DirNames
<1>18. Refs(E1)
  <2> SUFFICES ASSUME NEW m \in EntryIndex
               PROVE  /\ \A i \in RefIndex \ LiveRefs(E1[m]) : E1[m].ref[i] = 0
                      /\ IsFile(E1[m]) => \A i \in RefIndex : E1[m].ref[i] \in {0} \cup DataBlocks
    BY DEF Refs
  <2>1. CASE m = n
    <3>1. \A i \in RefIndex : E[n].ref[i] \in {0} \cup DataBlocks
      BY <1>2 DEF Good, Refs
    <3> QED BY <1>2, <1>3, <2>1, <3>1
  <2>2. CASE m # n
    BY <1>3, <1>4, <2>2 DEF Good, Refs
  <2> QED BY <2>1, <2>2
<1>19. OneOwner(E1)
  <2>1. \A m \in EntryIndex : IsFile(E1[m]) => IsFile(E[m]) /\ \A i \in RefIndex : E1[m].ref[i] \in {0, E[m].ref[i]}
    BY <1>2, <1>3, <1>9
  <2> QED BY <2>1 DEF Good, OneOwner
<1>20. Rooted(E1)
  <2> SUFFICES ASSUME NEW S \in SUBSET UsedIn(E1), S # {}, \A m \in S : E1[m].parent \in S
               PROVE  0 \in S
    BY DEF Rooted
  <2> QED BY <1>5, <1>6 DEF Good, Rooted
<1> QED BY <1>3, <1>10, <1>11, <1>12, <1>13, <1>14, <1>15, <1>16, <1>17, <1>18, <1>19, <1>20 DEF Good

\* A file's chain c[0] .. c[k], before: all of it, or all but a last entry that was free.
Chain(E, n, c, k, h) ==
  /\ c \in [0 .. k -> EntryIndex] /\ c[0] = n
  /\ \A i, j \in 0 .. k : c[i] = c[j] => i = j
  /\ IsDir(E[E[n].parent])
  /\ \A j \in 0 .. h : IsFile(E[c[j]])
  /\ \A j \in 0 .. h - 1 : E[c[j]].next = c[j + 1]
  /\ E[c[h]].next = 0
  /\ \A j \in 0 .. k : j > h => E[c[j]].flags = FREE
\* And after: the size in them, and perhaps a block b for reference x of the last.
NewBlock(E, b) == b \in {0} \cup DataBlocks /\ \A m \in EntryIndex, i \in RefIndex : IsFile(E[m]) /\ E[m].ref[i] = b => b = 0
Extended(E, E1, n, c, k, h, size, x, b) ==
  /\ \A m \in EntryIndex : (\A j \in 0 .. k : m # c[j]) => E1[m] = E[m]
  /\ \A j \in 0 .. k :
       LET e == E1[c[j]]
       IN  /\ e.flags = T_FILE /\ e.name = E[c[IF j > h THEN h ELSE j]].name
           /\ e.parent = IF j = 0 THEN E[n].parent ELSE c[j - 1]
           /\ e.next = IF j = k THEN 0 ELSE c[j + 1]
           /\ e.size = size - j * Capacity /\ (e.size <= Capacity <=> j = k)
           /\ \A i \in RefIndex \ LiveRefs(e) : e.ref[i] = 0
           /\ \A i \in RefIndex : e.ref[i] = IF j = k /\ i = x THEN b ELSE E[c[j]].ref[i]

\* A file that is one block longer, with a block of no other file, leaves a good table.
LEMMA Extend ==
  ASSUME NEW E \in Table, NEW O \in SUBSET EntryIndex, Good(E, O), NEW n \in EntryIndex, NEW k \in Nat, NEW h \in 0 .. k, h >= k - 1,
         NEW c, Chain(E, n, c, k, h), NEW x \in RefIndex, NEW b, NewBlock(E, b),
         NEW E1 \in Table, NEW size \in Nat, Extended(E, E1, n, c, k, h, size, x, b)
  PROVE  Good(E1, O)
<1> DEFINE C == {c[j] : j \in 0 .. k}
<1>1. \A m \in EntryIndex : /\ E[m] \in Entry /\ E[m].parent \in EntryIndex /\ E[m].next \in EntryIndex
                           /\ E1[m] \in Entry /\ E1[m].size \in Nat
  BY Numbers DEF Table, Entry
<1>2. /\ c \in [0 .. k -> EntryIndex] /\ c[0] = n
      /\ \A i, j \in 0 .. k : c[i] = c[j] => i = j
      /\ IsDir(E[E[n].parent])
      /\ \A j \in 0 .. h : IsFile(E[c[j]])
      /\ \A j \in 0 .. h - 1 : E[c[j]].next = c[j + 1]
      /\ E[c[h]].next = 0
      /\ \A j \in 0 .. k : j > h => E[c[j]].flags = FREE
  BY DEF Chain
<1>3. /\ \A m \in EntryIndex \ C : E1[m] = E[m]
      /\ \A j \in 0 .. k :
           /\ E1[c[j]].flags = T_FILE
           /\ j <= h => E1[c[j]].name = E[c[j]].name
           /\ j > h => E1[c[j]].name = E[c[h]].name
           /\ j = 0 => E1[c[j]].parent = E[n].parent
           /\ j # 0 => E1[c[j]].parent = c[j - 1]
           /\ j = k => E1[c[j]].next = 0
           /\ j # k => E1[c[j]].next = c[j + 1]
           /\ E1[c[j]].size = size - j * Capacity /\ (E1[c[j]].size <= Capacity <=> j = k)
           /\ \A i \in RefIndex \ LiveRefs(E1[c[j]]) : E1[c[j]].ref[i] = 0
           /\ \A i \in RefIndex : E1[c[j]].ref[i] = IF j = k /\ i = x THEN b ELSE E[c[j]].ref[i]
  BY DEF Extended
<1>4. C \subseteq EntryIndex /\ n \in C
  BY <1>2
<1>5. 0 \notin C
  BY <1>2, Numbers DEF Good, RootIsRoot, IsFile, T_DIR, T_FILE, FREE
<1>6. UsedIn(E1) = UsedIn(E) \cup C
  BY <1>2, <1>3, <1>4 DEF UsedIn, T_FILE, FREE
<1>7. \A j \in 0 .. k : \/ j <= h /\ IsFile(E[c[j]]) /\ c[j] \in UsedIn(E)
                        \/ j > h /\ j = k /\ k # 0 /\ E[c[j]].flags = FREE /\ c[j] \notin UsedIn(E)
  BY <1>2 DEF UsedIn, IsFile, T_FILE, FREE
<1>8. \A m \in EntryIndex : IsDir(E1[m]) <=> IsDir(E[m])
  BY <1>3, <1>7 DEF IsDir, IsFile, T_DIR, T_FILE, FREE
<1>9. \A m \in EntryIndex : IsDir(E[m]) => m \notin C /\ E1[m] = E[m]
  BY <1>3, <1>7 DEF IsDir, IsFile, T_DIR, T_FILE, FREE
<1>a. \A j \in 1 .. h : E[c[j]].parent = c[j - 1]
  <2> SUFFICES ASSUME NEW j \in 1 .. h PROVE E[c[j]].parent = c[j - 1]
    OBVIOUS
  <2>1. j - 1 \in 0 .. h - 1 /\ j - 1 \in 0 .. h /\ j - 1 \in 0 .. k /\ j - 1 + 1 = j /\ j \in 0 .. k
    OBVIOUS
  <2>2. E[c[j - 1]].next = c[j] /\ IsFile(E[c[j - 1]]) /\ c[j] # 0 /\ c[j - 1] \in EntryIndex
    BY <1>2, <1>5, <2>1
  <2> QED BY <2>2 DEF Good, Chains
\* A used entry that is not of the chain has its parent not in it, nor its next one.
<1>b. \A m \in UsedIn(E) \ C : m # 0 => E[m].parent \notin C
  <2> SUFFICES ASSUME NEW m \in UsedIn(E) \ C, m # 0, NEW j \in 0 .. k, E[m].parent = c[j] PROVE FALSE
    OBVIOUS
  <2>1. c[j] \in EntryIndex /\ E[c[j]].flags # FREE /\ (IsFile(E[c[j]]) => E[c[j]].next = m)
    BY <1>1 DEF Good, Parents, UsedIn
  <2>2. j \in 0 .. h /\ E[c[j]].next = m
    BY <1>7, <2>1
  <2>3. CASE j = h
    BY <1>2, <2>2, <2>3
  <2>4. CASE j # h
    BY <1>2, <2>2, <2>4
  <2> QED BY <2>3, <2>4
<1>c. \A m \in EntryIndex \ C : IsFile(E[m]) /\ E[m].next # 0 => E[m].next \notin C
  <2> SUFFICES ASSUME NEW m \in EntryIndex \ C, IsFile(E[m]), E[m].next # 0, NEW j \in 0 .. k, E[m].next = c[j] PROVE FALSE
    OBVIOUS
  <2>1. IsFile(E[c[j]]) /\ E[c[j]].parent = m
    BY DEF Good, Chains
  <2>2. j \in 0 .. h
    BY <1>7, <2>1 DEF IsFile, T_FILE, FREE
  <2>3. CASE j = 0
    BY <1>2, <2>1, <2>3 DEF IsFile, IsDir, T_FILE, T_DIR
  <2>4. CASE j # 0
    <3>1. j \in 1 .. h /\ j - 1 \in 0 .. k
      BY <2>2, <2>4
    <3> QED BY <1>a, <2>1, <3>1
  <2> QED BY <2>3, <2>4
<1> HIDE DEF C
<1>d. \A m \in C : \E j \in 0 .. k : m = c[j]
  BY DEF C
<1>e. \A j \in 0 .. k : c[j] \in C /\ c[j] \in EntryIndex /\ c[j] # 0
  BY <1>2, <1>5 DEF C
<1>10. RootIsRoot(E1)
  BY <1>3, <1>5, Numbers DEF Good, RootIsRoot
<1>11. FreeIsZero(E1)
  BY <1>3, <1>d DEF Good, FreeIsZero, FREE, T_FILE
<1>12. DirsFit(E1)
  BY <1>8, <1>9 DEF Good, DirsFit
<1>13. StoredNames(E1)
  <2> SUFFICES ASSUME NEW m \in UsedIn(E1) \ {0} PROVE E1[m].name \in Names /\ StoredName[E1[m].name] = E1[m].name
    BY DEF StoredNames
  <2>1. CASE m \notin C
    BY <1>3, <1>6, <2>1 DEF Good, StoredNames, UsedIn
  <2>2. CASE m \in C
    <3>1. PICK j \in 0 .. k : m = c[j]
      BY <1>d, <2>2
    <3>2. \A l \in 0 .. h : c[l] \in UsedIn(E) \ {0}
      BY <1>7, <1>e
    <3>3. CASE j <= h
      BY <1>3, <3>1, <3>2, <3>3 DEF Good, StoredNames
    <3>4. CASE j > h
      BY <1>3, <3>1, <3>2, <3>4 DEF Good, StoredNames
    <3> QED BY <3>3, <3>4
  <2> QED BY <2>1, <2>2
<1>14. Chains(E1)
  <2> SUFFICES ASSUME NEW m \in EntryIndex, IsFile(E1[m])
               PROVE  /\ E1[m].size <= Capacity <=> E1[m].next = 0
                      /\ E1[m].next # 0 => /\ IsFile(E1[E1[m].next]) /\ E1[E1[m].next].parent = m
                                           /\ E1[E1[m].next].size = E1[m].size - Capacity
    BY DEF Chains
  <2>1. CASE m \notin C
    BY <1>1, <1>3, <1>c, <2>1 DEF Good, Chains
  <2>2. CASE m \in C
    <3>1. PICK j \in 0 .. k : m = c[j]
      BY <1>d, <2>2
    <3>2. CASE j = k
      BY <1>3, <3>1, <3>2
    <3>3. CASE j # k
      <4>1. j + 1 \in 0 .. k /\ j + 1 # 0 /\ j + 1 - 1 = j
        BY <3>3
      <4>2. E1[m].next = c[j + 1] /\ E1[m].next # 0 /\ E1[E1[m].next].flags = T_FILE /\ E1[E1[m].next].parent = m
        BY <1>3, <1>e, <3>1, <3>3, <4>1
      <4>3. E1[m].size = size - j * Capacity /\ E1[E1[m].next].size = size - (j + 1) * Capacity /\ ~(E1[m].size <= Capacity)
        BY <1>3, <3>1, <3>3, <4>1, <4>2
      <4>4. (j + 1) * Capacity = j * Capacity + Capacity /\ j * Capacity \in Nat
        BY Numbers
      <4>5. E1[E1[m].next].size = E1[m].size - Capacity
        BY <4>3, <4>4, Numbers
      <4> QED BY <4>2, <4>3, <4>5 DEF IsFile
    <3> QED BY <3>2, <3>3
  <2> QED BY <2>1, <2>2
<1>15. Parents(E1, O)
  <2> SUFFICES ASSUME NEW m \in UsedIn(E1) \ {0}
               PROVE  /\ E1[E1[m].parent].flags # FREE
                      /\ IsFile(E1[E1[m].parent]) => E1[E1[m].parent].next = m
                      /\ IsDir(E1[E1[m].parent]) /\ m \notin O =>
                            \E i \in 0 .. E1[E1[m].parent].size - 1 : E1[E1[m].parent].ref[i] = m
    BY DEF Parents
  <2>1. CASE m \notin C
    <3>1. m \in UsedIn(E) /\ E1[m] = E[m] /\ E1[E[m].parent] = E[E[m].parent]
      BY <1>1, <1>3, <1>6, <1>b, <2>1 DEF UsedIn
    <3> QED BY <3>1 DEF Good, Parents
  <2>2. CASE m \in C
    <3>1. PICK j \in 0 .. k : m = c[j]
      BY <1>d, <2>2
    <3>2. CASE j = 0
      <4>1. m = n /\ E1[m].parent = E[n].parent /\ n \in UsedIn(E) /\ n \in EntryIndex
        BY <1>2, <1>3, <1>7, <3>1, <3>2
      <4>2. E1[E[n].parent] = E[E[n].parent] /\ IsDir(E1[E[n].parent])
        BY <1>1, <1>2, <1>9, <4>1
      <4> QED BY <4>1, <4>2 DEF Good, Parents, IsDir, IsFile, T_DIR, T_FILE
    <3>3. CASE j # 0
      <4>1. j - 1 \in 0 .. k /\ j - 1 # k /\ j - 1 + 1 = j
        BY <3>3
      <4>2. E1[m].parent = c[j - 1] /\ E1[c[j - 1]].flags = T_FILE /\ E1[c[j - 1]].next = m
        BY <1>3, <3>1, <3>3, <4>1
      <4> QED BY <4>2 DEF IsDir, T_FILE, T_DIR, FREE
    <3> QED BY <3>2, <3>3
  <2> QED BY <2>1, <2>2
<1>16. Listings(E1, O)
  <2> SUFFICES ASSUME NEW q \in EntryIndex, IsDir(E1[q]), NEW i \in 0 .. E1[q].size - 1
               PROVE  /\ E1[q].ref[i] \in UsedIn(E1) \ ({0} \cup O) /\ E1[E1[q].ref[i]].parent = q
                      /\ \A j \in 0 .. E1[q].size - 1 : E1[q].ref[j] = E1[q].ref[i] => j = i
    BY DEF Listings
  <2>1. q \notin C /\ E1[q] = E[q] /\ IsDir(E[q])
    BY <1>8, <1>9
  <2>2. /\ E[q].ref[i] \in UsedIn(E) \ ({0} \cup O) /\ E[E[q].ref[i]].parent = q
        /\ \A j \in 0 .. E[q].size - 1 : E[q].ref[j] = E[q].ref[i] => j = i
    BY <2>1 DEF Good, Listings
  <2>3. E1[E[q].ref[i]].parent = q
    <3> DEFINE m == E[q].ref[i]
    <3>1. CASE m \notin C
      BY <1>3, <2>2, <3>1 DEF UsedIn
    <3>2. CASE m \in C
      <4>1. PICK j \in 0 .. k : m = c[j]
        BY <1>d, <3>2
      <4>2. j <= h
        BY <1>7, <2>2, <4>1
      <4>3. CASE j = 0
        BY <1>2, <1>3, <2>2, <4>1, <4>3
      <4>4. CASE j # 0
        <5>1. j \in 1 .. h /\ j - 1 \in 0 .. k
          BY <4>2, <4>4
        <5> QED BY <1>a, <1>e, <2>1, <2>2, <4>1, <5>1
      <4> QED BY <4>3, <4>4
    <3> QED BY <3>1, <3>2
  <2> QED BY <1>6, <2>1, <2>2, <2>3
<1>17. DirNames(E1)
  <2> SUFFICES ASSUME NEW l \in UsedIn(E1) \ {0}, NEW m \in UsedIn(E1) \ {0}, l # m,
                      E1[l].parent = E1[m].parent, IsDir(E1[E1[m].parent])
               PROVE  E1[l].name # E1[m].name
    BY DEF DirNames
  <2>1. \A y \in UsedIn(E1) \ {0} : IsDir(E1[E1[y].parent]) => y \in UsedIn(E) \ {0} /\ E1[y].name = E[y].name /\ E1[y].parent = E[y].parent
    <3> SUFFICES ASSUME NEW y \in UsedIn(E1) \ {0}, IsDir(E1[E1[y].parent])
                 PROVE y \in UsedIn(E) /\ E1[y].name = E[y].name /\ E1[y].parent = E[y].parent
      OBVIOUS
    <3>1. CASE y \notin C
      BY <1>3, <1>6, <3>1 DEF UsedIn
    <3>2. CASE y \in C
      <4>1. PICK j \in 0 .. k : y = c[j]
        BY <1>d, <3>2
      <4>2. CASE j = 0
        BY <1>2, <1>3, <1>7, <4>1, <4>2
      <4>3. CASE j # 0
        <5>1. j - 1 \in 0 .. k
          BY <4>3
        <5> QED BY <1>3, <4>1, <4>3, <5>1 DEF IsDir, T_DIR, T_FILE
      <4> QED BY <4>2, <4>3
    <3> QED BY <3>1, <3>2
  <2>2. IsDir(E[E[m].parent]) /\ l \in UsedIn(E) \ {0} /\ m \in UsedIn(E) \ {0} /\ E[l].parent = E[m].parent
        /\ E1[l].name = E[l].name /\ E1[m].name = E[m].name
    BY <1>1, <1>8, <2>1 DEF UsedIn
  <2> QED BY <2>2 DEF Good, DirNames
<1>f. \A m \in EntryIndex : IsFile(E1[m]) =>
        \A i \in RefIndex : \/ E1[m].ref[i] = 0
                            \/ IsFile(E[m]) /\ E1[m].ref[i] = E[m].ref[i] /\ ~(m = c[k] /\ i = x)
                            \/ m = c[k] /\ i = x /\ E1[m].ref[i] = b
  <2> SUFFICES ASSUME NEW m \in EntryIndex, IsFile(E1[m]), NEW i \in RefIndex
               PROVE  \/ E1[m].ref[i] = 0
                      \/ IsFile(E[m]) /\ E1[m].ref[i] = E[m].ref[i] /\ ~(m = c[k] /\ i = x)
                      \/ m = c[k] /\ i = x /\ E1[m].ref[i] = b
    OBVIOUS
  <2>1. CASE m \notin C
    BY <1>3, <1>e, <2>1
  <2>2. CASE m \in C
    <3>1. PICK j \in 0 .. k : m = c[j]
      BY <1>d, <2>2
    <3>2. j # k => m # c[k]
      BY <1>2, <3>1
    <3>3. CASE E[m].flags = FREE
      <4>1. E[m].ref[i] = 0
        BY <3>3, ZeroIsEntry DEF Good, FreeIsZero
      <4> QED BY <1>3, <3>1, <4>1
    <3>4. CASE IsFile(E[m])
      BY <1>3, <3>1, <3>2, <3>4
    <3> QED BY <1>7, <3>1, <3>3, <3>4
  <2> QED BY <2>1, <2>2
<1>18. Refs(E1)
  <2> SUFFICES ASSUME NEW m \in EntryIndex
               PROVE  /\ \A i \in RefIndex \ LiveRefs(E1[m]) : E1[m].ref[i] = 0
                      /\ IsFile(E1[m]) => \A i \in RefIndex : E1[m].ref[i] \in {0} \cup DataBlocks
    BY DEF Refs
  <2>1. \A i \in RefIndex \ LiveRefs(E1[m]) : E1[m].ref[i] = 0
    <3>1. CASE m \notin C
      BY <1>3, <3>1 DEF Good, Refs
    <3>2. CASE m \in C
      BY <1>3, <1>d, <3>2
    <3> QED BY <3>1, <3>2
  <2>2. ASSUME IsFile(E1[m]), NEW i \in RefIndex PROVE E1[m].ref[i] \in {0} \cup DataBlocks
    <3>1. IsFile(E[m]) => E[m].ref[i] \in {0} \cup DataBlocks
      BY DEF Good, Refs
    <3> QED BY <1>f, <2>2, <3>1 DEF NewBlock
  <2> QED BY <2>1, <2>2
<1>19. OneOwner(E1)
  <2> SUFFICES ASSUME NEW l \in EntryIndex, NEW m \in EntryIndex, NEW i \in RefIndex, NEW j \in RefIndex,
                      IsFile(E1[l]), IsFile(E1[m]), E1[l].ref[i] = E1[m].ref[j], E1[l].ref[i] # 0
               PROVE  l = m /\ i = j
    BY DEF OneOwner
  <2>1. \A y \in EntryIndex, z \in RefIndex : IsFile(E[y]) /\ E[y].ref[z] = b => b = 0
    BY DEF NewBlock
  <2>2. \/ IsFile(E[l]) /\ E1[l].ref[i] = E[l].ref[i]
        \/ l = c[k] /\ i = x /\ E1[l].ref[i] = b
    BY <1>f
  <2>3. \/ IsFile(E[m]) /\ E1[m].ref[j] = E[m].ref[j]
        \/ m = c[k] /\ j = x /\ E1[m].ref[j] = b
    BY <1>f
  <2> QED BY <2>1, <2>2, <2>3 DEF Good, OneOwner
<1>20. Rooted(E1)
  <2> SUFFICES ASSUME NEW S \in SUBSET UsedIn(E1), S # {}, \A m \in S : E1[m].parent \in S
               PROVE  0 \in S
    BY DEF Rooted
  <2>1. \A m \in S \cap UsedIn(E) : E[m].parent \in S
    <3> SUFFICES ASSUME NEW m \in S \cap UsedIn(E) PROVE E1[m].parent = E[m].parent
      OBVIOUS
    <3>1. CASE m \notin C
      BY <1>3, <3>1 DEF UsedIn
    <3>2. CASE m \in C
      <4>1. PICK j \in 0 .. k : m = c[j]
        BY <1>d, <3>2
      <4>2. j <= h
        BY <1>7, <4>1
      <4>3. CASE j = 0
        BY <1>2, <1>3, <4>1, <4>3
      <4>4. CASE j # 0
        <5>1. j \in 1 .. h
          BY <4>2, <4>4
        <5> QED BY <1>3, <1>a, <4>1, <4>4, <5>1
      <4> QED BY <4>3, <4>4
    <3> QED BY <3>1, <3>2
  <2>2. \A m \in S \cap UsedIn(E) : E[m].parent \in UsedIn(E)
    BY <1>1, Numbers DEF Good, Parents, RootIsRoot, UsedIn, FREE, T_DIR
  <2>3. S \cap UsedIn(E) # {}
    <3>1. PICK m \in S : TRUE
      OBVIOUS
    <3>2. CASE m \in UsedIn(E)
      BY <3>2
    <3>3. CASE m \notin UsedIn(E)
      <4>1. PICK j \in 0 .. k : m = c[j]
        BY <1>6, <1>d, <3>3
      <4>2. j = k /\ k # 0 /\ j > h
        BY <1>7, <3>3, <4>1
      <4>3. E1[m].parent = c[j - 1] /\ j - 1 \in 0 .. h /\ j - 1 \in 0 .. k
        BY <1>3, <4>1, <4>2
      <4>4. c[j - 1] \in UsedIn(E)
        BY <1>2, <1>e, <4>3 DEF UsedIn, IsFile, T_FILE, FREE
      <4> QED BY <4>3, <4>4
    <3> QED BY <3>2, <3>3
  <2>4. 0 \in S \cap UsedIn(E)
    BY <2>1, <2>2, <2>3 DEF Good, Rooted
  <2> QED BY <2>4
<1> QED BY <1>10, <1>11, <1>12, <1>13, <1>14, <1>15, <1>16, <1>17, <1>18, <1>19, <1>20 DEF Good

-----------------------------------------------------------------------------
(* Writing an entry.  What a disk write does to the entries of a disk, and set_entry_size. *)

\* A call at a point where disk d has the entries E, and the others are as in D.
On(s, D, d, E) ==
  /\ s \in CallStates /\ s.fuel < 0
  /\ s.disk[d].entry = E /\ s.disk[d].smashed = {}
  /\ \A c \in Disks \ {d} : s.disk[c] = D[c]

\* The types of what a call works on.
LEMMA OnTypes ==
  ASSUME NEW d \in Disks, NEW D, NEW E, NEW s, On(s, D, d, E)
  PROVE  /\ E \in Table /\ s.disk[d] \in Image /\ s.res \in Int
         /\ s.disk \in [Disks -> Image]
         /\ \A n : At(s, d, n) = E[n]
         /\ \A n \in EntryIndex : E[n] \in Entry
<1>1. s.disk \in [Disks -> Image] /\ s.res \in Int
  BY DEF On, CallStates
<1>2. s.disk[d] \in Image /\ s.disk[d].entry = E
  BY <1>1 DEF On
<1>3. E \in Table
  BY <1>2 DEF Image, Table
<1> QED BY <1>1, <1>2, <1>3 DEF Table, At

\* write_entry changes one entry of one disk and succeeds.
LEMMA WriteEntry ==
  ASSUME NEW d \in Disks, NEW D, NEW E, NEW s, On(s, D, d, E), NEW n \in EntryIndex, NEW e \in Entry
  PROVE  On(write_entry(s, d, n, e), D, d, [E EXCEPT ![n] = e]) /\ write_entry(s, d, n, e).res = NO_ERROR
<1> DEFINE img == [s.disk[d] EXCEPT !.entry = [E EXCEPT ![n] = e]]
           t == [disk |-> [s.disk EXCEPT ![d] = img], fuel |-> s.fuel - 1, res |-> NO_ERROR]
<1>1. s \in CallStates /\ s.fuel \in Int /\ s.fuel < 0 /\ s.fuel # 0
  BY DEF On, CallStates
<1>2. E \in Table /\ s.disk[d] \in Image /\ s.disk \in [Disks -> Image] /\ s.disk[d].entry = E
  BY OnTypes DEF On
<1>3. write_entry(s, d, n, e) = t
  <2>1. write_entry(s, d, n, e) = [s EXCEPT !.fuel = @ - 1, !.disk[d].entry[n] = e, !.res = NO_ERROR]
    BY <1>1 DEF write_entry
  <2> QED BY <1>1, <1>2, <2>1 DEF CallStates
<1>4. [E EXCEPT ![n] = e] \in [EntryIndex -> Entry]
  BY <1>2 DEF Table
<1>5. img \in Image /\ img.entry = [E EXCEPT ![n] = e] /\ img.smashed = s.disk[d].smashed
  <2> DEFINE F == [E EXCEPT ![n] = e]
  <2>1. F \in [EntryIndex -> Entry]
    BY <1>4
  <2> HIDE DEF F
  <2>2. [s.disk[d] EXCEPT !.entry = F] \in Image /\ [s.disk[d] EXCEPT !.entry = F].entry = F
        /\ [s.disk[d] EXCEPT !.entry = F].smashed = s.disk[d].smashed
    BY <1>2, <2>1 DEF Image
  <2> QED BY <2>2 DEF F
<1> HIDE DEF img
<1>6. t \in CallStates /\ t.fuel < 0 /\ t.res = NO_ERROR
  BY <1>1, <1>2, <1>5 DEF CallStates, NO_ERROR
<1>7. t.disk[d] = img /\ \A c \in Disks \ {d} : t.disk[c] = s.disk[c]
  BY <1>2
<1>8. s.disk[d].smashed = {} /\ \A c \in Disks \ {d} : s.disk[c] = D[c]
  BY DEF On
<1> HIDE DEF t
<1> QED BY <1>3, <1>5, <1>6, <1>7, <1>8 DEF On

\* Setting the result changes no disk.
LEMMA Returned ==
  ASSUME NEW d \in Disks, NEW D, NEW E, NEW s, On(s, D, d, E), NEW r \in Int
  PROVE  On(Return(s, r), D, d, E) /\ Return(s, r).res = r
BY DEF On, Return, CallStates

\* Data written to a data block changes no entry.
LEMMA WriteData ==
  ASSUME NEW d \in Disks, NEW D, NEW E, NEW s, On(s, D, d, E), NEW b \in DataBlocks, NEW from,
         NEW data \in Seq(Bytes \cup {Zero, System}), from \in Nat
  PROVE  On(write_data(s, d, b, from, data), D, d, E) /\ write_data(s, d, b, from, data).res = NO_ERROR
<1> DEFINE bytes == [i \in DOMAIN s.disk[d].block[b] |->
             IF i \in from .. from + Len(data) - 1 THEN data[i - from + 1] ELSE s.disk[d].block[b][i]]
           img == [s.disk[d] EXCEPT !.block = [s.disk[d].block EXCEPT ![b] = bytes]]
           t == [disk |-> [s.disk EXCEPT ![d] = img], fuel |-> s.fuel - 1, res |-> NO_ERROR]
<1>1. s \in CallStates /\ s.fuel \in Int /\ s.fuel < 0 /\ s.fuel # 0
  BY DEF On, CallStates
<1>2. s.disk[d] \in Image /\ s.disk \in [Disks -> Image]
  BY OnTypes
<1>3. write_data(s, d, b, from, data) = t
  <2>1. ~(b < FirstBlock)
    BY Numbers
  <2>2. write_data(s, d, b, from, data) =
         [s EXCEPT !.fuel = @ - 1, !.res = NO_ERROR,
          !.disk[d].block[b] = [i \in DOMAIN @ |->
             IF i \in from .. from + Len(data) - 1 THEN data[i - from + 1] ELSE @[i]]]
    BY <1>1, <2>1 DEF write_data
  <2> QED BY <1>1, <1>2, <2>2 DEF CallStates
<1>4. bytes \in [0 .. BLOCK_SIZE - 1 -> Bytes \cup {Zero, System}]
  <2>1. s.disk[d].block[b] \in [0 .. BLOCK_SIZE - 1 -> Bytes \cup {Zero, System}]
    BY <1>2 DEF Image
  <2>2. \A i \in 0 .. BLOCK_SIZE - 1 : i \in from .. from + Len(data) - 1 => data[i - from + 1] \in Bytes \cup {Zero, System}
    BY Numbers
  <2> QED BY <2>1, <2>2
<1> HIDE DEF bytes
<1>5. img \in Image /\ img.entry = s.disk[d].entry /\ img.smashed = s.disk[d].smashed
  <2> DEFINE F == [s.disk[d].block EXCEPT ![b] = bytes]
  <2>1. F \in [DataBlocks -> [0 .. BLOCK_SIZE - 1 -> Bytes \cup {Zero, System}]]
    BY <1>2, <1>4 DEF Image
  <2> HIDE DEF F
  <2>2. [s.disk[d] EXCEPT !.block = F] \in Image /\ [s.disk[d] EXCEPT !.block = F].entry = s.disk[d].entry
        /\ [s.disk[d] EXCEPT !.block = F].smashed = s.disk[d].smashed
    BY <1>2, <2>1 DEF Image
  <2> QED BY <2>2 DEF F
<1> HIDE DEF img
<1>6. t \in CallStates /\ t.fuel < 0 /\ t.res = NO_ERROR
  BY <1>1, <1>2, <1>5 DEF CallStates, NO_ERROR
<1>7. t.disk[d] = img /\ \A c \in Disks \ {d} : t.disk[c] = s.disk[c]
  BY <1>2
<1> HIDE DEF t
<1> QED BY <1>3, <1>5, <1>6, <1>7 DEF On

\* The rounds of set_entry_size.
SizeRuns(s, d, n, size, v) ==
  /\ set_entry_size(s, d, n, size) = v[NEntries].call
  /\ v[0] = [call |-> s, n |-> n, size |-> size, go |-> TRUE]
  /\ \A i \in 0 .. NEntries - 1 : v[i + 1] = SizeOnce(v[i], d)

\* The rounds of this loop are a function that exists and is the one the operator evaluates.
LEMMA SizeRunsExist ==
  ASSUME NEW s, NEW d, NEW n, NEW size
  PROVE  \E v : SizeRuns(s, d, n, size, v)
<1> DEFINE a == [call |-> s, n |-> n, size |-> size, go |-> TRUE]
           Is(m, f) == f = [i \in 0 .. m |-> IF i = 0 THEN a ELSE SizeOnce(f[i - 1], d)]
           S == {m \in 0 .. NEntries : \E f : Is(m, f)}
           v == CHOOSE f : Is(NEntries, f)
<1>1. NEntries \in Nat
  BY NSFSDiskAssumption
<1>2. set_entry_size(s, d, n, size) = v[NEntries].call
  BY DEF set_entry_size, Rounds
<1> HIDE DEF a
<1>3. 0 \in S
  <2>1. Is(0, [i \in 0 .. 0 |-> a])
    OBVIOUS
  <2> HIDE DEF Is
  <2> QED BY <1>1, <2>1
<1>4. ASSUME NEW m \in 0 .. NEntries - 1, m \in S PROVE m + 1 \in S
  <2>1. PICK f : Is(m, f)
    BY <1>4
  <2> DEFINE h == [i \in 0 .. m + 1 |-> IF i = m + 1 THEN SizeOnce(f[m], d) ELSE f[i]]
  <2>2. \A i \in 0 .. m : h[i] = f[i] /\ f[i] = IF i = 0 THEN a ELSE SizeOnce(f[i - 1], d)
    BY <2>1
  <2>3. h[m + 1] = SizeOnce(f[m], d)
    OBVIOUS
  <2>4. \A i \in 0 .. m + 1 : h[i] = IF i = 0 THEN a ELSE SizeOnce(h[i - 1], d)
    <3> SUFFICES ASSUME NEW i \in 0 .. m + 1 PROVE h[i] = IF i = 0 THEN a ELSE SizeOnce(h[i - 1], d)
      OBVIOUS
    <3> HIDE DEF h
    <3>1. CASE i = 0
      BY <2>2, <3>1
    <3>2. CASE i \in 1 .. m
      <4>1. i - 1 \in 0 .. m /\ i \in 0 .. m /\ i # 0
        BY <3>2
      <4>2. h[i - 1] = f[i - 1] /\ h[i] = SizeOnce(f[i - 1], d)
        BY <2>2, <4>1
      <4> QED BY <4>1, <4>2
    <3>3. CASE i = m + 1
      <4>1. i - 1 = m /\ m \in 0 .. m /\ i # 0
        BY <3>3
      <4>2. h[i - 1] = f[m] /\ h[i] = SizeOnce(f[m], d)
        BY <2>2, <2>3, <3>3, <4>1
      <4> QED BY <4>1, <4>2
    <3> QED BY <3>1, <3>2, <3>3
  <2>5. Is(m + 1, h)
    BY <2>4
  <2> HIDE DEF Is
  <2> QED BY <1>1, <2>5
<1> HIDE DEF Is
<1>5. \A m \in 0 .. NEntries : m \in S
  <2> HIDE DEF S
  <2> QED BY <1>1, <1>3, <1>4, UpTo
<1>6. Is(NEntries, v)
  <2>1. \E f : Is(NEntries, f)
    BY <1>1, <1>5
  <2> QED BY <2>1
<1>7. v = [i \in 0 .. NEntries |-> IF i = 0 THEN a ELSE SizeOnce(v[i - 1], d)]
  BY <1>6 DEF Is
<1> HIDE DEF v
<1>8. v[0] = a
  BY <1>1, <1>7
<1>9. ASSUME NEW i \in 0 .. NEntries - 1 PROVE v[i + 1] = SizeOnce(v[i], d)
  <2> DEFINE m == i + 1
  <2>1. m \in 0 .. NEntries /\ m # 0 /\ m - 1 = i
    BY <1>1
  <2>2. m = i + 1
    OBVIOUS
  <2> HIDE DEF m
  <2>3. v[m] = SizeOnce(v[m - 1], d)
    BY <1>7, <2>1
  <2> QED BY <2>1, <2>2, <2>3
<1> QED BY <1>2, <1>8, <1>9 DEF a, SizeRuns

\* A chain that visits no entry twice is no longer than the table.
LEMMA ChainFits ==
  ASSUME NEW k \in Nat, NEW c \in [0 .. k -> EntryIndex], \A i, j \in 0 .. k : c[i] = c[j] => i = j
  PROVE  k < NEntries
<1> SUFFICES ASSUME ~(k < NEntries) PROVE FALSE
  OBVIOUS
<1>1. NEntries \in Nat /\ 0 \in Int /\ NEntries - 1 \in Int /\ k \in Int
  BY NSFSDiskAssumption
<1>2. IsFiniteSet(0 .. k) /\ Cardinality(0 .. k) = k + 1
  BY <1>1, FS_Interval
<1>3. IsFiniteSet(EntryIndex) /\ Cardinality(EntryIndex) = NEntries
  <2>1. IsFiniteSet(0 .. NEntries - 1) /\ Cardinality(0 .. NEntries - 1) = IF 0 > NEntries - 1 THEN 0 ELSE NEntries - 1 - 0 + 1
    BY <1>1, FS_Interval
  <2> QED BY <1>1, <2>1 DEF EntryIndex
<1>4. Cardinality(EntryIndex) < Cardinality(0 .. k)
  BY <1>1, <1>2, <1>3
<1>5. PICK i, j \in 0 .. k : i # j /\ c[i] = c[j]
  BY <1>2, <1>3, <1>4, FS_PigeonHole
<1> QED BY <1>5

\* The entries c[0] .. c[m - 1] with what they hold of a size.
Resized(E, F, c, m, size, cap) ==
  /\ F \in Table
  /\ \A x \in EntryIndex : (\A j \in 0 .. m - 1 : x # c[j]) => F[x] = E[x]
  /\ \A j \in 0 .. m - 1 : F[c[j]] = [E[c[j]] EXCEPT !.size = size - j * cap]

\* Linked entries c[0] .. c[k] without repetition, and a size that takes all of them.
Linked(E, c, k) ==
  /\ c \in [0 .. k -> EntryIndex] /\ \A i, j \in 0 .. k : c[i] = c[j] => i = j
  /\ \A j \in 0 .. k - 1 : E[c[j]].next = c[j + 1] /\ c[j + 1] # 0
  /\ E[c[k]].next = 0
\* The entries of the chain, of capacity cap each, take the size together, and none is left over.
Takes(E, c, k, cap, size) ==
  /\ \A j \in 0 .. k : EntryCapacity(E[c[j]]) = cap
  /\ \A j \in 0 .. k - 1 : size - j * cap > cap
  /\ size - k * cap \in 0 .. cap

\* set_entry_size gives each entry of a chain what the entries before it leave of the size.
LEMMA SetSizes ==
  ASSUME NEW d \in Disks, NEW D, NEW E, NEW s, On(s, D, d, E), NEW k \in Nat, NEW c, Linked(E, c, k),
         NEW cap \in Nat, NEW size \in Nat, Takes(E, c, k, cap, size)
  PROVE  \E F : /\ On(set_entry_size(s, d, c[0], size), D, d, F)
               /\ set_entry_size(s, d, c[0], size).res = NO_ERROR
               /\ Resized(E, F, c, k + 1, size, cap)
<1>0. /\ c \in [0 .. k -> EntryIndex] /\ \A i, j \in 0 .. k : c[i] = c[j] => i = j
      /\ \A j \in 0 .. k : EntryCapacity(E[c[j]]) = cap
      /\ \A j \in 0 .. k - 1 : E[c[j]].next = c[j + 1] /\ c[j + 1] # 0 /\ size - j * cap > cap
      /\ E[c[k]].next = 0 /\ size - k * cap \in 0 .. cap
  BY DEF Linked, Takes
<1>0a. \A i, m \in Nat : m = i + 1 => \A j \in 0 .. m - 1 : j = i \/ j \in 0 .. i - 1
  OBVIOUS
<1> USE <1>0
<1>1. PICK v : SizeRuns(s, d, c[0], size, v)
  BY SizeRunsExist
<1>1a. /\ set_entry_size(s, d, c[0], size) = v[NEntries].call
       /\ v[0] = [call |-> s, n |-> c[0], size |-> size, go |-> TRUE]
       /\ \A i \in 0 .. NEntries - 1 : v[i + 1] = SizeOnce(v[i], d)
  BY <1>1 DEF SizeRuns
<1>2a. E \in Table
  BY OnTypes
<1>2b. NEntries \in Nat
  BY NSFSDiskAssumption
<1>2c. k < NEntries
  BY ChainFits
<1>2. k + 1 \in 0 .. NEntries /\ NEntries \in Nat /\ E \in Table
  BY <1>2a, <1>2b, <1>2c
<1> DEFINE Going(i) == /\ v[i].go = TRUE /\ v[i].n = c[i] /\ v[i].size = size - i * cap
                       /\ \E F : On(v[i].call, D, d, F) /\ Resized(E, F, c, i, size, cap)
           Over(i) == /\ v[i].go = FALSE /\ v[i].call.res = NO_ERROR
                      /\ \E F : On(v[i].call, D, d, F) /\ Resized(E, F, c, k + 1, size, cap)
           S == {i \in 0 .. NEntries : (i <= k /\ Going(i)) \/ (i > k /\ Over(i))}
<1>3. 0 \in S
  <2>1. Resized(E, E, c, 0, size, cap)
    BY <1>2 DEF Resized
  <2>2. v[0].go = TRUE /\ v[0].n = c[0] /\ v[0].size = size - 0 * cap /\ v[0].call = s
    BY <1>1a
  <2>3. Going(0)
    BY <2>1, <2>2
  <2> HIDE DEF Going, Over
  <2> QED BY <1>2, <2>3
<1>4. ASSUME NEW i \in 0 .. NEntries - 1, i \in S PROVE i + 1 \in S
  <2> DEFINE m == i + 1
  <2>a. m \in 0 .. NEntries /\ m = i + 1 /\ i \in Nat
    BY <1>2
  <2>0. v[m] = SizeOnce(v[i], d)
    BY <1>1a
  <2> HIDE DEF m
  <2> SUFFICES (m <= k /\ Going(m)) \/ (m > k /\ Over(m))
    <3> HIDE DEF Going, Over
    <3> QED BY <2>a
  <2>1. CASE i > k
    <3>1. Over(i)
      BY <1>4, <2>1
    <3>2. v[m] = v[i]
      BY <2>0, <3>1 DEF SizeOnce
    <3>3. Over(m)
      BY <3>1, <3>2
    <3> HIDE DEF Over, Going
    <3> QED BY <2>1, <3>3, <2>a
  <2>2. CASE i <= k
    <3>1. Going(i)
      BY <1>4, <2>2
    <3>2. PICK F : On(v[i].call, D, d, F) /\ Resized(E, F, c, i, size, cap)
      BY <3>1
    <3>3a. i \in 0 .. k /\ c[i] \in EntryIndex
      BY <2>2, <2>a
    <3>3b. v[i].n = c[i] /\ v[i].go = TRUE /\ v[i].size = size - i * cap
      BY <3>1
    <3>3c. i * cap \in Nat /\ (i + 1) * cap = i * cap + cap
      BY <2>a
    <3>3d. m * cap = i * cap + cap
      BY <2>a, <3>3c
    <3>3. i \in 0 .. k /\ c[i] \in EntryIndex /\ v[i].n = c[i] /\ v[i].go = TRUE /\ v[i].size = size - i * cap
          /\ i * cap \in Nat /\ m * cap = i * cap + cap
      BY <3>3a, <3>3b, <3>3c, <3>3d
    <3>4. \A j \in 0 .. i - 1 : c[i] # c[j]
      BY <3>3
    <3>5. F[c[i]] = E[c[i]]
      <4>1. \A x \in EntryIndex : (\A j \in 0 .. i - 1 : x # c[j]) => F[x] = E[x]
        BY <3>2 DEF Resized
      <4> QED BY <3>3, <3>4, <4>1
    <3>6. At(v[i].call, d, c[i]) = E[c[i]] /\ F \in Table /\ E[c[i]] \in Entry
      BY <1>2, <3>2, <3>3, <3>5, OnTypes DEF Table
    <3> DEFINE e == [E[c[i]] EXCEPT !.size = size - i * cap]
               t == write_entry(v[i].call, d, c[i], e)
               rest == v[i].size - Least(v[i].size, EntryCapacity(E[c[i]]))
               G == [F EXCEPT ![c[i]] = e]
    <3>7. v[m] = [call |-> IF ~Failed(t.res) /\ (rest > 0) # (E[c[i]].next # 0) THEN Return(t, ERROR_IO) ELSE t,
                      n |-> E[c[i]].next, size |-> rest, go |-> ~Failed(t.res) /\ rest > 0 /\ E[c[i]].next # 0]
      BY <2>0, <3>3, <3>6 DEF SizeOnce
    <3>7a. /\ v[m].n = E[c[i]].next /\ v[m].size = rest
           /\ v[m].call = IF ~Failed(t.res) /\ (rest > 0) # (E[c[i]].next # 0) THEN Return(t, ERROR_IO) ELSE t
           /\ v[m].go = (~Failed(t.res) /\ rest > 0 /\ E[c[i]].next # 0)
      <4> HIDE DEF e, t, rest, G
      <4> QED BY <3>7
    <3>8. size - i * cap \in Nat
      <4>1. CASE i = k
        BY <4>1
      <4>2. CASE i # k
        <5>1. size - i * cap > cap
          BY <3>3, <4>2
        <5> QED BY <3>3, <5>1
      <4> QED BY <4>1, <4>2
    <3>9. e \in Entry
      BY <3>6, <3>8 DEF Entry
    <3>9a. e = [E[c[i]] EXCEPT !.size = size - i * cap]
      OBVIOUS
    <3> HIDE DEF e
    <3>10. On(t, D, d, G) /\ t.res = NO_ERROR
      BY <3>2, <3>3, <3>9, WriteEntry
    <3>11. Resized(E, G, c, m, size, cap)
      <4>1. G \in Table /\ G[c[i]] = e /\ \A x \in EntryIndex \ {c[i]} : G[x] = F[x]
        BY <3>3, <3>6, <3>9 DEF Table
      <4>2. \A j \in 0 .. m - 1 : j = i \/ j \in 0 .. i - 1
        BY <2>a, <1>0a
      <4>3. \A j \in 0 .. i : j \in 0 .. m - 1
        BY <3>3, <2>a
      <4> HIDE DEF G
      <4>4. \A j \in 0 .. i - 1 : G[c[j]] = [E[c[j]] EXCEPT !.size = size - j * cap]
        <5> SUFFICES ASSUME NEW j \in 0 .. i - 1 PROVE G[c[j]] = [E[c[j]] EXCEPT !.size = size - j * cap]
          OBVIOUS
        <5>1. c[j] \in EntryIndex \ {c[i]}
          BY <3>3, <3>4
        <5> QED BY <3>2, <4>1, <5>1 DEF Resized
      <4>5. G[c[i]] = [E[c[i]] EXCEPT !.size = size - i * cap]
        BY <4>1, <3>9a
      <4>6. ASSUME NEW x \in EntryIndex, \A j \in 0 .. m - 1 : x # c[j] PROVE G[x] = E[x]
        <5>1. x # c[i] /\ \A j \in 0 .. i - 1 : x # c[j]
          BY <3>3, <4>6, <4>3
        <5> QED BY <3>2, <4>1, <5>1 DEF Resized
      <4>7. \A j \in 0 .. m - 1 : G[c[j]] = [E[c[j]] EXCEPT !.size = size - j * cap]
        BY <4>2, <4>4, <4>5
      <4> QED BY <4>1, <4>6, <4>7 DEF Resized
    <3>12. ~Failed(t.res)
      BY <3>10 DEF Failed, NO_ERROR
    <3>12a. EntryCapacity(E[c[i]]) = cap
      BY <3>3
    <3>13. CASE i = k
      <4>1. rest = 0 /\ E[c[i]].next = 0
        BY <3>3, <3>8, <3>13, <3>12a DEF Least
      <4> HIDE DEF rest, t, G
      <4>2. v[m].go = FALSE /\ v[m].call = t
        <5>1. ~(rest > 0) /\ ~(E[c[i]].next # 0)
          BY <4>1
        <5>2. ~((rest > 0) # (E[c[i]].next # 0))
          BY <5>1
        <5>3. v[m].go = FALSE
          BY <3>7a, <5>1
        <5> QED BY <3>7a, <5>2, <5>3
      <4>3. Over(m)
        BY <3>10, <3>11, <3>13, <4>2, <2>a
      <4> HIDE DEF Over, Going
      <4> QED BY <3>13, <4>3, <2>a
    <3>14. CASE i # k
      <4>1. i \in 0 .. k - 1
        BY <3>3, <3>14
      <4>2a. size - i * cap > cap /\ E[c[i]].next = c[m] /\ c[m] # 0
        BY <4>1, <2>a
      <4>2. rest = size - m * cap /\ rest > 0 /\ E[c[i]].next = c[m] /\ c[m] # 0
        BY <3>3, <3>8, <4>2a, <3>12a DEF Least
      <4> HIDE DEF rest, t, G
      <4>3. v[m].go = TRUE /\ v[m].call = t /\ v[m].n = c[m] /\ v[m].size = size - m * cap
        BY <3>7a, <3>12, <4>2
      <4>4. Going(m)
        BY <3>10, <3>11, <4>3
      <4> HIDE DEF Over, Going
      <4> QED BY <4>1, <4>4, <2>a
    <3> QED BY <3>13, <3>14
  <2>3. i > k \/ i <= k
    BY <2>a
  <2> HIDE DEF Going, Over
  <2> QED BY <2>1, <2>2, <2>3
<1> HIDE DEF Going
<1>5. \A i \in 0 .. NEntries : i \in S
  <2> HIDE DEF S
  <2> QED BY <1>2, <1>3, <1>4, UpTo
<1>6. Over(NEntries)
  <2> HIDE DEF Over
  <2>1. NEntries \in S /\ NEntries > k
    BY <1>2, <1>5
  <2> QED BY <2>1
<1> QED BY <1>1a, <1>6

-----------------------------------------------------------------------------
(* Directories.  add_ref_in_entry for a directory with room, and the rounds of the other loops. *)

\* A division and its rest.
LEMMA DivMod ==
  ASSUME NEW a \in Nat, NEW m \in Nat, m > 0
  PROVE  a \div m \in Nat /\ a % m \in 0 .. m - 1 /\ a = m * (a \div m) + (a % m)
OBVIOUS

\* A division and its rest are the only numbers that fit.
LEMMA DivIs ==
  ASSUME NEW a \in Nat, NEW m \in Nat, m > 0, NEW q \in Nat, NEW r \in 0 .. m - 1, a = m * q + r
  PROVE  a \div m = q /\ a % m = r
<1>1. a \div m \in Nat /\ a % m \in 0 .. m - 1 /\ a = m * (a \div m) + (a % m)
  BY DivMod
<1> DEFINE p == a \div m
           t == a % m
<1>2. p \in Nat /\ t \in 0 .. m - 1 /\ m * q + r = m * p + t
  BY <1>1
<1> HIDE DEF p, t
<1>3. m * (q - p) = t - r
  BY <1>2
<1>4. q = p
  <2>1. CASE q > p
    <3>1. m * (q - p) >= m
      BY <1>2, <2>1
    <3> QED BY <1>2, <1>3, <3>1
  <2>2. CASE q < p
    <3>1. m * (p - q) >= m /\ m * (p - q) = r - t
      BY <1>2, <2>2
    <3> QED BY <1>2, <1>3, <3>1
  <2> QED BY <1>2, <2>1, <2>2
<1> QED BY <1>2, <1>4 DEF p, t

\* The first references of a chain are in its head entry.
LEMMA NrefHead ==
  ASSUME NEW img, NEW n, NEW nref \in RefIndex
  PROVE  get_nref_entry(img, n, nref) = n /\ nref % SFS_ENTRYREFS = nref
<1>1. SFS_ENTRYREFS \in Nat /\ SFS_ENTRYREFS > 0 /\ nref \in Nat /\ nref \in 0 .. SFS_ENTRYREFS - 1
      /\ nref = SFS_ENTRYREFS * 0 + nref
  BY Numbers DEF RefIndex
<1>2. nref \div SFS_ENTRYREFS = 0 /\ nref % SFS_ENTRYREFS = nref
  BY <1>1, DivIs
<1> DEFINE Is(k, f) == f = [i \in 0 .. k |-> IF i = 0 THEN n ELSE IF Failed(f[i - 1]) THEN f[i - 1]
                            ELSE FirstOr({img.entry[f[i - 1]].next} \ {0}, ERROR_NOT_FOUND)]
           k == nref \div SFS_ENTRYREFS
           at == CHOOSE f : Is(k, f)
<1>3. get_nref_entry(img, n, nref) = at[k]
  BY DEF get_nref_entry
<1>4. Is(0, [i \in 0 .. 0 |-> n])
  OBVIOUS
<1>5. \A f : Is(0, f) => f[0] = n
  OBVIOUS
<1>6. k = 0
  BY <1>2
<1> HIDE DEF k, Is
<1>7. Is(k, at)
  BY <1>4, <1>6
<1> QED BY <1>2, <1>3, <1>5, <1>6, <1>7

\* The steps down a chain.
ExtendRuns(s, d, n, more, v) ==
  /\ ExtendChain(s, d, n, more) = v[more]
  /\ v[0] = [call |-> s, at |-> n, mem |-> At(s, d, n)]
  /\ \A i \in 0 .. more - 1 : v[i + 1] = ExtendOnce(v[i], d)

\* The rounds of this loop are a function that exists and is the one the operator evaluates.
LEMMA ExtendRunsExist ==
  ASSUME NEW s, NEW d, NEW n, NEW more, more \in Nat
  PROVE  \E v : ExtendRuns(s, d, n, more, v)
<1> DEFINE a == [call |-> s, at |-> n, mem |-> At(s, d, n)]
           Is(m, f) == f = [i \in 0 .. m |-> IF i = 0 THEN a ELSE ExtendOnce(f[i - 1], d)]
           S == {m \in 0 .. more : \E f : Is(m, f)}
           v == CHOOSE f : Is(more, f)
<1>1. more \in Nat
  OBVIOUS
<1>2. ExtendChain(s, d, n, more) = v[more]
  BY DEF ExtendChain, Rounds
<1> HIDE DEF a
<1>3. 0 \in S
  <2>1. Is(0, [i \in 0 .. 0 |-> a])
    OBVIOUS
  <2> HIDE DEF Is
  <2> QED BY <1>1, <2>1
<1>4. ASSUME NEW m \in 0 .. more - 1, m \in S PROVE m + 1 \in S
  <2>1. PICK f : Is(m, f)
    BY <1>4
  <2> DEFINE h == [i \in 0 .. m + 1 |-> IF i = m + 1 THEN ExtendOnce(f[m], d) ELSE f[i]]
  <2>2. \A i \in 0 .. m : h[i] = f[i] /\ f[i] = IF i = 0 THEN a ELSE ExtendOnce(f[i - 1], d)
    BY <2>1
  <2>3. h[m + 1] = ExtendOnce(f[m], d)
    OBVIOUS
  <2>4. \A i \in 0 .. m + 1 : h[i] = IF i = 0 THEN a ELSE ExtendOnce(h[i - 1], d)
    <3> SUFFICES ASSUME NEW i \in 0 .. m + 1 PROVE h[i] = IF i = 0 THEN a ELSE ExtendOnce(h[i - 1], d)
      OBVIOUS
    <3> HIDE DEF h
    <3>1. CASE i = 0
      BY <2>2, <3>1
    <3>2. CASE i \in 1 .. m
      <4>1. i - 1 \in 0 .. m /\ i \in 0 .. m /\ i # 0
        BY <3>2
      <4>2. h[i - 1] = f[i - 1] /\ h[i] = ExtendOnce(f[i - 1], d)
        BY <2>2, <4>1
      <4> QED BY <4>1, <4>2
    <3>3. CASE i = m + 1
      <4>1. i - 1 = m /\ m \in 0 .. m /\ i # 0
        BY <3>3
      <4>2. h[i - 1] = f[m] /\ h[i] = ExtendOnce(f[m], d)
        BY <2>2, <2>3, <3>3, <4>1
      <4> QED BY <4>1, <4>2
    <3> QED BY <3>1, <3>2, <3>3
  <2>5. Is(m + 1, h)
    BY <2>4
  <2> HIDE DEF Is
  <2> QED BY <1>1, <2>5
<1> HIDE DEF Is
<1>5. \A m \in 0 .. more : m \in S
  <2> HIDE DEF S
  <2> QED BY <1>1, <1>3, <1>4, UpTo
<1>6. Is(more, v)
  <2>1. \E f : Is(more, f)
    BY <1>1, <1>5
  <2> QED BY <2>1
<1>7. v = [i \in 0 .. more |-> IF i = 0 THEN a ELSE ExtendOnce(v[i - 1], d)]
  BY <1>6 DEF Is
<1> HIDE DEF v
<1>8. v[0] = a
  BY <1>1, <1>7
<1>9. ASSUME NEW i \in 0 .. more - 1 PROVE v[i + 1] = ExtendOnce(v[i], d)
  <2> DEFINE m == i + 1
  <2>1. m \in 0 .. more /\ m # 0 /\ m - 1 = i
    BY <1>1
  <2>2. m = i + 1
    OBVIOUS
  <2> HIDE DEF m
  <2>3. v[m] = ExtendOnce(v[m - 1], d)
    BY <1>7, <2>1
  <2> QED BY <2>1, <2>2, <2>3
<1> QED BY <1>2, <1>8, <1>9 DEF a, ExtendRuns

\* Walking no further than the head of a chain.
LEMMA ExtendNone ==
  ASSUME NEW s, NEW d, NEW n
  PROVE  ExtendChain(s, d, n, 0) = [call |-> s, at |-> n, mem |-> At(s, d, n)]
<1>1. PICK v : ExtendRuns(s, d, n, 0, v)
  BY ExtendRunsExist
<1> QED BY <1>1 DEF ExtendRuns

\* The size of a directory is in its only entry.
LEMMA SetDirSize ==
  ASSUME NEW d \in Disks, NEW D, NEW E, NEW s, On(s, D, d, E), NEW n \in EntryIndex, IsDir(E[n]),
         E[n].next = 0, NEW size \in 0 .. SFS_ENTRYREFS
  PROVE  /\ On(set_entry_size(s, d, n, size), D, d, [E EXCEPT ![n] = [E[n] EXCEPT !.size = size]])
         /\ set_entry_size(s, d, n, size).res = NO_ERROR
<1> DEFINE c == [i \in 0 .. 0 |-> n]
<1>1. c \in [0 .. 0 -> EntryIndex] /\ c[0] = n /\ \A i \in 0 .. 0 : i = 0
  OBVIOUS
<1>2. EntryCapacity(E[n]) = SFS_ENTRYREFS
  BY DEF EntryCapacity, IsDir, T_DIR, T_FILE
<1>3. SFS_ENTRYREFS \in Nat /\ size \in Nat /\ 0 * SFS_ENTRYREFS = 0
  BY Numbers
<1> HIDE DEF c
<1>4. PICK F : /\ On(set_entry_size(s, d, c[0], size), D, d, F)
               /\ set_entry_size(s, d, c[0], size).res = NO_ERROR
               /\ Resized(E, F, c, 0 + 1, size, SFS_ENTRYREFS)
  <2>1. Linked(E, c, 0)
    BY <1>1 DEF Linked
  <2>2. Takes(E, c, 0, SFS_ENTRYREFS, size)
    BY <1>1, <1>2, <1>3 DEF Takes
  <2> QED BY <1>3, <2>1, <2>2, SetSizes
<1>5. F \in Table /\ E \in Table /\ \A x \in EntryIndex \ {n} : F[x] = E[x]
  BY <1>1, <1>4, OnTypes DEF Resized
<1>6. F[n] = [E[n] EXCEPT !.size = size]
  <2>1. F[c[0]] = [E[c[0]] EXCEPT !.size = size - 0 * SFS_ENTRYREFS]
    BY <1>4 DEF Resized
  <2> QED BY <1>1, <1>3, <2>1
<1>7. F = [E EXCEPT ![n] = [E[n] EXCEPT !.size = size]]
  BY <1>5, <1>6 DEF Table
<1> QED BY <1>1, <1>4, <1>7

\* add_ref_in_entry, for a directory with a reference to spare in its only entry.
LEMMA AddRef ==
  ASSUME NEW d \in Disks, NEW D, NEW E, NEW s, On(s, D, d, E), NEW p \in EntryIndex, IsDir(E[p]),
         E[p].next = 0, E[p].size < SFS_ENTRYREFS, NEW n \in EntryIndex
  PROVE  /\ On(add_ref_in_entry(s, d, p, n), D, d, [E EXCEPT ![p] = Plus(E[p], n)])
         /\ add_ref_in_entry(s, d, p, n).res = NO_ERROR
<1> DEFINE e == E[p]
           t == Return(s, p)
           e1 == [e EXCEPT !.ref = [@ EXCEPT ![e.size] = n]]
           u == write_entry(t, d, p, e1)
           E1 == [E EXCEPT ![p] = e1]
           w == set_entry_size(u, d, p, e.size + 1)
           E2 == [E1 EXCEPT ![p] = [e1 EXCEPT !.size = e.size + 1]]
<1>1. E \in Table /\ e \in Entry /\ At(s, d, p) = e /\ e.flags = T_DIR
  BY OnTypes DEF Table, IsDir
<1>2. e.size \in RefIndex /\ p \in Int /\ p >= 0 /\ e.size + 1 \in 0 .. SFS_ENTRYREFS
  BY <1>1, Numbers DEF Entry, RefIndex
<1>3. On(t, D, d, E) /\ t.res = p
  BY <1>2, Returned
<1>4. e1 \in Entry /\ e1.flags = T_DIR /\ e1.next = 0
  <2> DEFINE f == [e.ref EXCEPT ![e.size] = n]
  <2>1. f \in [RefIndex -> EntryIndex \cup DataBlocks]
    BY <1>1, <1>2 DEF Entry
  <2>2. e1 = [e EXCEPT !.ref = f]
    OBVIOUS
  <2> HIDE DEF f, e1
  <2> QED BY <1>1, <2>1, <2>2 DEF Entry
<1>5. On(u, D, d, E1) /\ u.res = NO_ERROR
  <2> HIDE DEF e1, t
  <2> QED BY <1>3, <1>4, WriteEntry
<1>6. E1[p] = e1
  BY <1>1 DEF Table
<1>7. On(w, D, d, E2) /\ w.res = NO_ERROR
  <2> HIDE DEF e1, u, E1
  <2>1. IsDir(E1[p]) /\ E1[p].next = 0
    BY <1>4, <1>6 DEF IsDir
  <2>2. On(w, D, d, [E1 EXCEPT ![p] = [E1[p] EXCEPT !.size = e.size + 1]]) /\ w.res = NO_ERROR
    BY <1>2, <1>5, <2>1, SetDirSize
  <2> QED BY <1>6, <2>2
<1>8. E2 = [E EXCEPT ![p] = Plus(E[p], n)]
  <2>1. [e1 EXCEPT !.size = e.size + 1] = Plus(e, n)
    BY DEF Plus
  <2> HIDE DEF e1
  <2> QED BY <1>1, <2>1 DEF Table
<1>9. add_ref_in_entry(s, d, p, n) = w
  <2>1. get_entry_refcount(e) = e.size
    BY <1>1 DEF get_entry_refcount, T_DIR, T_FILE
  <2>2. get_nref_entry(s.disk[d], p, e.size) = p /\ e.size % SFS_ENTRYREFS = e.size
    BY <1>2, NrefHead
  <2>3. ~Failed(t.res) /\ ~Failed(u.res) /\ p # ERROR_NOT_FOUND
    BY <1>2, <1>3, <1>5 DEF Failed, NO_ERROR, ERROR_NOT_FOUND
  <2>4. At(t, d, t.res) = e
    BY <1>3, OnTypes
  <2> DEFINE Put(x) == write_entry(x, d, x.res,
                        [At(x, d, x.res) EXCEPT !.ref[get_entry_refcount(At(s, d, p)) % SFS_ENTRYREFS] = n])
             Count(x) == IF At(s, d, p).flags = T_DIR THEN set_entry_size(x, d, p, At(s, d, p).size + 1) ELSE x
             there == get_nref_entry(s.disk[d], p, get_entry_refcount(At(s, d, p)))
             s1 == IF there = ERROR_NOT_FOUND THEN set_entry_refcount(s, d, p, get_entry_refcount(At(s, d, p)) + 1)
                   ELSE Return(s, there)
  <2>5. add_ref_in_entry(s, d, p, n) = Then(Then(s1, Put), Count)
    BY DEF add_ref_in_entry
  <2>5a. s1 = t
    BY <1>1, <2>1, <2>2, <2>3
  <2>6. Put(t) = u
    BY <1>1, <1>3, <2>1, <2>2, <2>4
  <2>7. Count(u) = w
    BY <1>1
  <2> HIDE DEF Put, Count, t, u, w, s1
  <2>8. Then(t, Put) = u
    BY <2>3, <2>6 DEF Then
  <2> QED BY <2>3, <2>5, <2>5a, <2>7, <2>8 DEF Then
<1> QED BY <1>7, <1>8, <1>9

\* The rounds of the loop of remove_ref_in_entry.
ShiftRuns(s, d, n, ref, v) ==
  /\ ShiftRefs(s, d, n, ref) = v[(NEntries * SFS_ENTRYREFS)]
  /\ v[0] = [call |-> s, r |-> 0, refcount |-> get_entry_refcount(At(s, d, n)), ncur |-> n,
            cur |-> At(s, d, n), nxt |-> At(s, d, n), found |-> FALSE]
  /\ \A i \in 0 .. (NEntries * SFS_ENTRYREFS) - 1 : v[i + 1] = ShiftOnce(v[i], d, ref)

\* The rounds of this loop are a function that exists and is the one the operator evaluates.
LEMMA ShiftRunsExist ==
  ASSUME NEW s, NEW d, NEW n, NEW ref
  PROVE  \E v : ShiftRuns(s, d, n, ref, v)
<1> DEFINE a == [call |-> s, r |-> 0, refcount |-> get_entry_refcount(At(s, d, n)), ncur |-> n,
            cur |-> At(s, d, n), nxt |-> At(s, d, n), found |-> FALSE]
           Is(m, f) == f = [i \in 0 .. m |-> IF i = 0 THEN a ELSE ShiftOnce(f[i - 1], d, ref)]
           S == {m \in 0 .. (NEntries * SFS_ENTRYREFS) : \E f : Is(m, f)}
           v == CHOOSE f : Is((NEntries * SFS_ENTRYREFS), f)
<1>1. (NEntries * SFS_ENTRYREFS) \in Nat
  BY NSFSDiskAssumption
<1>2. ShiftRefs(s, d, n, ref) = v[(NEntries * SFS_ENTRYREFS)]
  BY DEF ShiftRefs, Rounds
<1> HIDE DEF a
<1>3. 0 \in S
  <2>1. Is(0, [i \in 0 .. 0 |-> a])
    OBVIOUS
  <2> HIDE DEF Is
  <2> QED BY <1>1, <2>1
<1>4. ASSUME NEW m \in 0 .. (NEntries * SFS_ENTRYREFS) - 1, m \in S PROVE m + 1 \in S
  <2>1. PICK f : Is(m, f)
    BY <1>4
  <2> DEFINE h == [i \in 0 .. m + 1 |-> IF i = m + 1 THEN ShiftOnce(f[m], d, ref) ELSE f[i]]
  <2>2. \A i \in 0 .. m : h[i] = f[i] /\ f[i] = IF i = 0 THEN a ELSE ShiftOnce(f[i - 1], d, ref)
    BY <2>1
  <2>3. h[m + 1] = ShiftOnce(f[m], d, ref)
    OBVIOUS
  <2>4. \A i \in 0 .. m + 1 : h[i] = IF i = 0 THEN a ELSE ShiftOnce(h[i - 1], d, ref)
    <3> SUFFICES ASSUME NEW i \in 0 .. m + 1 PROVE h[i] = IF i = 0 THEN a ELSE ShiftOnce(h[i - 1], d, ref)
      OBVIOUS
    <3> HIDE DEF h
    <3>1. CASE i = 0
      BY <2>2, <3>1
    <3>2. CASE i \in 1 .. m
      <4>1. i - 1 \in 0 .. m /\ i \in 0 .. m /\ i # 0
        BY <3>2
      <4>2. h[i - 1] = f[i - 1] /\ h[i] = ShiftOnce(f[i - 1], d, ref)
        BY <2>2, <4>1
      <4> QED BY <4>1, <4>2
    <3>3. CASE i = m + 1
      <4>1. i - 1 = m /\ m \in 0 .. m /\ i # 0
        BY <3>3
      <4>2. h[i - 1] = f[m] /\ h[i] = ShiftOnce(f[m], d, ref)
        BY <2>2, <2>3, <3>3, <4>1
      <4> QED BY <4>1, <4>2
    <3> QED BY <3>1, <3>2, <3>3
  <2>5. Is(m + 1, h)
    BY <2>4
  <2> HIDE DEF Is
  <2> QED BY <1>1, <2>5
<1> HIDE DEF Is
<1>5. \A m \in 0 .. (NEntries * SFS_ENTRYREFS) : m \in S
  <2> HIDE DEF S
  <2> QED BY <1>1, <1>3, <1>4, UpTo
<1>6. Is((NEntries * SFS_ENTRYREFS), v)
  <2>1. \E f : Is((NEntries * SFS_ENTRYREFS), f)
    BY <1>1, <1>5
  <2> QED BY <2>1
<1>7. v = [i \in 0 .. (NEntries * SFS_ENTRYREFS) |-> IF i = 0 THEN a ELSE ShiftOnce(v[i - 1], d, ref)]
  BY <1>6 DEF Is
<1> HIDE DEF v
<1>8. v[0] = a
  BY <1>1, <1>7
<1>9. ASSUME NEW i \in 0 .. (NEntries * SFS_ENTRYREFS) - 1 PROVE v[i + 1] = ShiftOnce(v[i], d, ref)
  <2> DEFINE m == i + 1
  <2>1. m \in 0 .. (NEntries * SFS_ENTRYREFS) /\ m # 0 /\ m - 1 = i
    BY <1>1
  <2>2. m = i + 1
    OBVIOUS
  <2> HIDE DEF m
  <2>3. v[m] = ShiftOnce(v[m - 1], d, ref)
    BY <1>7, <2>1
  <2> QED BY <2>1, <2>2, <2>3
<1> QED BY <1>2, <1>8, <1>9 DEF a, ShiftRuns

\* The rounds of set_entry_time_to_current.
TouchRuns(s, d, n, v) ==
  /\ TouchChain(s, d, n) = v[NEntries].call
  /\ v[0] = [call |-> s, n |-> n, go |-> TRUE]
  /\ \A i \in 0 .. NEntries - 1 : v[i + 1] = TouchOnce(v[i], d)

\* The rounds of this loop are a function that exists and is the one the operator evaluates.
LEMMA TouchRunsExist ==
  ASSUME NEW s, NEW d, NEW n
  PROVE  \E v : TouchRuns(s, d, n, v)
<1> DEFINE a == [call |-> s, n |-> n, go |-> TRUE]
           Is(m, f) == f = [i \in 0 .. m |-> IF i = 0 THEN a ELSE TouchOnce(f[i - 1], d)]
           S == {m \in 0 .. NEntries : \E f : Is(m, f)}
           v == CHOOSE f : Is(NEntries, f)
<1>1. NEntries \in Nat
  BY NSFSDiskAssumption
<1>2. TouchChain(s, d, n) = v[NEntries].call
  BY DEF TouchChain, Rounds
<1> HIDE DEF a
<1>3. 0 \in S
  <2>1. Is(0, [i \in 0 .. 0 |-> a])
    OBVIOUS
  <2> HIDE DEF Is
  <2> QED BY <1>1, <2>1
<1>4. ASSUME NEW m \in 0 .. NEntries - 1, m \in S PROVE m + 1 \in S
  <2>1. PICK f : Is(m, f)
    BY <1>4
  <2> DEFINE h == [i \in 0 .. m + 1 |-> IF i = m + 1 THEN TouchOnce(f[m], d) ELSE f[i]]
  <2>2. \A i \in 0 .. m : h[i] = f[i] /\ f[i] = IF i = 0 THEN a ELSE TouchOnce(f[i - 1], d)
    BY <2>1
  <2>3. h[m + 1] = TouchOnce(f[m], d)
    OBVIOUS
  <2>4. \A i \in 0 .. m + 1 : h[i] = IF i = 0 THEN a ELSE TouchOnce(h[i - 1], d)
    <3> SUFFICES ASSUME NEW i \in 0 .. m + 1 PROVE h[i] = IF i = 0 THEN a ELSE TouchOnce(h[i - 1], d)
      OBVIOUS
    <3> HIDE DEF h
    <3>1. CASE i = 0
      BY <2>2, <3>1
    <3>2. CASE i \in 1 .. m
      <4>1. i - 1 \in 0 .. m /\ i \in 0 .. m /\ i # 0
        BY <3>2
      <4>2. h[i - 1] = f[i - 1] /\ h[i] = TouchOnce(f[i - 1], d)
        BY <2>2, <4>1
      <4> QED BY <4>1, <4>2
    <3>3. CASE i = m + 1
      <4>1. i - 1 = m /\ m \in 0 .. m /\ i # 0
        BY <3>3
      <4>2. h[i - 1] = f[m] /\ h[i] = TouchOnce(f[m], d)
        BY <2>2, <2>3, <3>3, <4>1
      <4> QED BY <4>1, <4>2
    <3> QED BY <3>1, <3>2, <3>3
  <2>5. Is(m + 1, h)
    BY <2>4
  <2> HIDE DEF Is
  <2> QED BY <1>1, <2>5
<1> HIDE DEF Is
<1>5. \A m \in 0 .. NEntries : m \in S
  <2> HIDE DEF S
  <2> QED BY <1>1, <1>3, <1>4, UpTo
<1>6. Is(NEntries, v)
  <2>1. \E f : Is(NEntries, f)
    BY <1>1, <1>5
  <2> QED BY <2>1
<1>7. v = [i \in 0 .. NEntries |-> IF i = 0 THEN a ELSE TouchOnce(v[i - 1], d)]
  BY <1>6 DEF Is
<1> HIDE DEF v
<1>8. v[0] = a
  BY <1>1, <1>7
<1>9. ASSUME NEW i \in 0 .. NEntries - 1 PROVE v[i + 1] = TouchOnce(v[i], d)
  <2> DEFINE m == i + 1
  <2>1. m \in 0 .. NEntries /\ m # 0 /\ m - 1 = i
    BY <1>1
  <2>2. m = i + 1
    OBVIOUS
  <2> HIDE DEF m
  <2>3. v[m] = TouchOnce(v[m - 1], d)
    BY <1>7, <2>1
  <2> QED BY <2>1, <2>2, <2>3
<1> QED BY <1>2, <1>8, <1>9 DEF a, TouchRuns

-----------------------------------------------------------------------------
(* Moving references up.  The rounds of remove_ref_in_entry. *)

\* The state of the loop before the reference is found, and after; the copy that references
\* come from; and an entry with one reference set.
Seeking(cs, r, refcount, ncur, cur, nxt) ==
  [call |-> cs, r |-> r, refcount |-> refcount, ncur |-> ncur, cur |-> cur, nxt |-> nxt, found |-> FALSE]
Moving(cs, r, refcount, ncur, cur, nxt) ==
  [call |-> cs, r |-> r, refcount |-> refcount, ncur |-> ncur, cur |-> cur, nxt |-> nxt, found |-> TRUE]
NextCopy(cs, d, r, nxt) ==
  IF r + 1 = SFS_ENTRYREFS THEN IF nxt.next = 0 THEN ZeroEntry ELSE At(cs, d, nxt.next) ELSE nxt
WithRef(e, r, x) == [e EXCEPT !.ref = [@ EXCEPT ![r] = x]]

\* A round of remove_ref_in_entry before the reference is found: nothing moves.
LEMMA ShiftKeep ==
  ASSUME NEW cs, NEW d, NEW r \in RefIndex, NEW refcount \in Nat, r < refcount, NEW ncur, NEW cur, NEW nxt,
         NEW ref, ~Failed(cs.res), cur.ref[r] # ref
  PROVE  ShiftOnce(Seeking(cs, r, refcount, ncur, cur, nxt), d, ref) =
           Seeking(cs, r + 1, refcount, ncur, WithRef(cur, r, cur.ref[r]), NextCopy(cs, d, r, nxt))
<1> DEFINE x == Seeking(cs, r, refcount, ncur, cur, nxt)
           nxt1 == NextCopy(cs, d, r, nxt)
           x1 == Seeking(cs, r, refcount, ncur, cur, nxt1)
           X == WithRef(cur, r, cur.ref[r])
<1>1. x.call = cs /\ x.r = r /\ x.refcount = refcount /\ x.ncur = ncur /\ x.cur = cur /\ x.nxt = nxt /\ x.found = FALSE
  BY DEF Seeking, Moving
<1>2. r # SFS_ENTRYREFS /\ r < refcount /\ ~(r >= refcount)
  BY Numbers DEF RefIndex
<1>3. x1 = IF x.r + 1 = SFS_ENTRYREFS
           THEN [x EXCEPT !.nxt = IF x.nxt.next = 0 THEN ZeroEntry ELSE At(cs, d, x.nxt.next)] ELSE x
  BY DEF Seeking, Moving, NextCopy
<1>4. x1.cur = cur /\ x1.r = r /\ x1.found = FALSE /\ x1.nxt = nxt1 /\ x1.refcount = refcount /\ x1.ncur = ncur
  BY DEF Seeking, Moving
<1>5. (x1.found \/ x1.cur.ref[x1.r] = ref) = FALSE
  BY <1>4
<1>6. [x1.cur EXCEPT !.ref[x1.r] = IF x1.found \/ x1.cur.ref[x1.r] = ref
                             THEN x1.nxt.ref[(x1.r + 1) % SFS_ENTRYREFS] ELSE @] = X
  <2> HIDE DEF x1
  <2> QED BY <1>4, <1>5 DEF WithRef
<1>7. ShiftOnce(x, d, ref) =
          [call |-> cs, r |-> x1.r + 1, refcount |-> x1.refcount, ncur |-> x1.ncur,
            cur |-> [x1.cur EXCEPT !.ref[x1.r] = IF x1.found \/ x1.cur.ref[x1.r] = ref
                             THEN x1.nxt.ref[(x1.r + 1) % SFS_ENTRYREFS] ELSE @],
            nxt |-> x1.nxt, found |-> x1.found \/ x1.cur.ref[x1.r] = ref]
  <2> HIDE DEF x, x1, nxt1
  <2> QED BY <1>1, <1>2, <1>3 DEF ShiftOnce
<1> HIDE DEF x, x1, nxt1, X
<1>8. ShiftOnce(x, d, ref) = [call |-> cs, r |-> r + 1, refcount |-> refcount, ncur |-> ncur, cur |-> X, nxt |-> nxt1,
                              found |-> FALSE]
  BY <1>4, <1>5, <1>6, <1>7
<1> QED BY <1>8 DEF Seeking, Moving, x, nxt1, X

\* The round that finds the reference: the next one moves to its place.
LEMMA ShiftHit ==
  ASSUME NEW cs, NEW d, NEW r \in RefIndex, NEW refcount \in Nat, r < refcount, NEW ncur, NEW cur, NEW nxt,
         NEW ref, ~Failed(cs.res), cur.ref[r] = ref
  PROVE  ShiftOnce(Seeking(cs, r, refcount, ncur, cur, nxt), d, ref) =
           Moving(cs, r + 1, refcount, ncur, WithRef(cur, r, NextCopy(cs, d, r, nxt).ref[(r + 1) % SFS_ENTRYREFS]), NextCopy(cs, d, r, nxt))
<1> DEFINE x == Seeking(cs, r, refcount, ncur, cur, nxt)
           nxt1 == NextCopy(cs, d, r, nxt)
           x1 == Seeking(cs, r, refcount, ncur, cur, nxt1)
           X == WithRef(cur, r, NextCopy(cs, d, r, nxt).ref[(r + 1) % SFS_ENTRYREFS])
<1>1. x.call = cs /\ x.r = r /\ x.refcount = refcount /\ x.ncur = ncur /\ x.cur = cur /\ x.nxt = nxt /\ x.found = FALSE
  BY DEF Seeking, Moving
<1>2. r # SFS_ENTRYREFS /\ r < refcount /\ ~(r >= refcount)
  BY Numbers DEF RefIndex
<1>3. x1 = IF x.r + 1 = SFS_ENTRYREFS
           THEN [x EXCEPT !.nxt = IF x.nxt.next = 0 THEN ZeroEntry ELSE At(cs, d, x.nxt.next)] ELSE x
  BY DEF Seeking, Moving, NextCopy
<1>4. x1.cur = cur /\ x1.r = r /\ x1.found = FALSE /\ x1.nxt = nxt1 /\ x1.refcount = refcount /\ x1.ncur = ncur
  BY DEF Seeking, Moving
<1>5. (x1.found \/ x1.cur.ref[x1.r] = ref) = TRUE
  BY <1>4
<1>6. [x1.cur EXCEPT !.ref[x1.r] = IF x1.found \/ x1.cur.ref[x1.r] = ref
                             THEN x1.nxt.ref[(x1.r + 1) % SFS_ENTRYREFS] ELSE @] = X
  <2> HIDE DEF x1
  <2> QED BY <1>4, <1>5 DEF WithRef
<1>7. ShiftOnce(x, d, ref) =
          [call |-> cs, r |-> x1.r + 1, refcount |-> x1.refcount, ncur |-> x1.ncur,
            cur |-> [x1.cur EXCEPT !.ref[x1.r] = IF x1.found \/ x1.cur.ref[x1.r] = ref
                             THEN x1.nxt.ref[(x1.r + 1) % SFS_ENTRYREFS] ELSE @],
            nxt |-> x1.nxt, found |-> x1.found \/ x1.cur.ref[x1.r] = ref]
  <2> HIDE DEF x, x1, nxt1
  <2> QED BY <1>1, <1>2, <1>3 DEF ShiftOnce
<1> HIDE DEF x, x1, nxt1, X
<1>8. ShiftOnce(x, d, ref) = [call |-> cs, r |-> r + 1, refcount |-> refcount, ncur |-> ncur, cur |-> X, nxt |-> nxt1,
                              found |-> TRUE]
  BY <1>4, <1>5, <1>6, <1>7
<1> QED BY <1>8 DEF Seeking, Moving, x, nxt1, X

\* A round after that: another reference moves up.
LEMMA ShiftMove ==
  ASSUME NEW cs, NEW d, NEW r \in RefIndex, NEW refcount \in Nat, r < refcount, NEW ncur, NEW cur, NEW nxt,
         NEW ref, ~Failed(cs.res)
  PROVE  ShiftOnce(Moving(cs, r, refcount, ncur, cur, nxt), d, ref) =
           Moving(cs, r + 1, refcount, ncur, WithRef(cur, r, NextCopy(cs, d, r, nxt).ref[(r + 1) % SFS_ENTRYREFS]), NextCopy(cs, d, r, nxt))
<1> DEFINE x == Moving(cs, r, refcount, ncur, cur, nxt)
           nxt1 == NextCopy(cs, d, r, nxt)
           x1 == Moving(cs, r, refcount, ncur, cur, nxt1)
           X == WithRef(cur, r, NextCopy(cs, d, r, nxt).ref[(r + 1) % SFS_ENTRYREFS])
<1>1. x.call = cs /\ x.r = r /\ x.refcount = refcount /\ x.ncur = ncur /\ x.cur = cur /\ x.nxt = nxt /\ x.found = TRUE
  BY DEF Seeking, Moving
<1>2. r # SFS_ENTRYREFS /\ r < refcount /\ ~(r >= refcount)
  BY Numbers DEF RefIndex
<1>3. x1 = IF x.r + 1 = SFS_ENTRYREFS
           THEN [x EXCEPT !.nxt = IF x.nxt.next = 0 THEN ZeroEntry ELSE At(cs, d, x.nxt.next)] ELSE x
  BY DEF Seeking, Moving, NextCopy
<1>4. x1.cur = cur /\ x1.r = r /\ x1.found = TRUE /\ x1.nxt = nxt1 /\ x1.refcount = refcount /\ x1.ncur = ncur
  BY DEF Seeking, Moving
<1>5. (x1.found \/ x1.cur.ref[x1.r] = ref) = TRUE
  BY <1>4
<1>6. [x1.cur EXCEPT !.ref[x1.r] = IF x1.found \/ x1.cur.ref[x1.r] = ref
                             THEN x1.nxt.ref[(x1.r + 1) % SFS_ENTRYREFS] ELSE @] = X
  <2> HIDE DEF x1
  <2> QED BY <1>4, <1>5 DEF WithRef
<1>7. ShiftOnce(x, d, ref) =
          [call |-> cs, r |-> x1.r + 1, refcount |-> x1.refcount, ncur |-> x1.ncur,
            cur |-> [x1.cur EXCEPT !.ref[x1.r] = IF x1.found \/ x1.cur.ref[x1.r] = ref
                             THEN x1.nxt.ref[(x1.r + 1) % SFS_ENTRYREFS] ELSE @],
            nxt |-> x1.nxt, found |-> x1.found \/ x1.cur.ref[x1.r] = ref]
  <2> HIDE DEF x, x1, nxt1
  <2> QED BY <1>1, <1>2, <1>3 DEF ShiftOnce
<1> HIDE DEF x, x1, nxt1, X
<1>8. ShiftOnce(x, d, ref) = [call |-> cs, r |-> r + 1, refcount |-> refcount, ncur |-> ncur, cur |-> X, nxt |-> nxt1,
                              found |-> TRUE]
  BY <1>4, <1>5, <1>6, <1>7
<1> QED BY <1>8 DEF Seeking, Moving, x, nxt1, X

\* A size fits into a number of blocks.
LEMMA Blocks ==
  ASSUME NEW size \in Nat, NEW q \in Nat
  PROVE  needed_blocks(size) \in Nat /\ (needed_blocks(size) <= q <=> size <= q * BLOCK_SIZE)
<1> DEFINE a == size \div BLOCK_SIZE
           b == size % BLOCK_SIZE
           B == BLOCK_SIZE
<1>1. B \in Nat /\ B > 0
  BY Numbers
<1>2. a \in Nat /\ b \in 0 .. B - 1 /\ size = B * a + b
  BY <1>1, DivMod
<1>3. needed_blocks(size) = a + (IF b = 0 THEN 0 ELSE 1)
  BY DEF needed_blocks
<1> HIDE DEF a, b, B
<1>4. CASE b = 0
  <2>1. a <= q <=> B * a <= q * B
    BY <1>1, <1>2
  <2>2. size = B * a /\ needed_blocks(size) = a /\ a \in Nat
    BY <1>1, <1>2, <1>3, <1>4
  <2>3. needed_blocks(size) <= q <=> size <= q * B
    BY <2>1, <2>2
  <2> QED BY <2>2, <2>3 DEF B
<1>5. CASE b # 0
  <2>1. CASE a < q
    <3>1. B * (a + 1) <= B * q
      BY <1>1, <1>2, <2>1
    <3>2. B * (a + 1) = B * a + B /\ B * q = q * B
      BY <1>1, <1>2
    <3> QED BY <1>1, <1>2, <1>3, <1>5, <2>1, <3>1, <3>2 DEF B
  <2>2. CASE a >= q
    <3>1. B * a >= q * B
      BY <1>1, <1>2, <2>2
    <3> QED BY <1>1, <1>2, <1>3, <1>5, <2>2, <3>1 DEF B
  <2> QED BY <1>2, <2>1, <2>2
<1> QED BY <1>4, <1>5

\* A step to the next entry: the entry left is written as it was.
LEMMA ShiftWrap ==
  ASSUME NEW d \in Disks, NEW D, NEW E, NEW cs, On(cs, D, d, E), ~Failed(cs.res), NEW n \in EntryIndex,
         NEW refcount \in Nat, SFS_ENTRYREFS < refcount, NEW nxt, NEW ref, E[E[n].next].ref[0] # ref
  PROVE  LET s == write_entry(cs, d, n, E[n])
         IN  /\ On(s, D, d, E) /\ s.res = NO_ERROR
             /\ ShiftOnce(Seeking(cs, SFS_ENTRYREFS, refcount, n, E[n], nxt), d, ref) =
                  Seeking(s, 1, get_entry_refcount(E[E[n].next]), E[n].next, E[E[n].next], nxt)
<1> DEFINE x == Seeking(cs, SFS_ENTRYREFS, refcount, n, E[n], nxt)
           s == write_entry(cs, d, n, E[n])
           m == E[n].next
           x1 == [x EXCEPT !.ncur = m, !.cur = E[m], !.r = 0, !.refcount = get_entry_refcount(E[m])]
<1>1. E \in Table /\ E[n] \in Entry /\ m \in EntryIndex /\ E[m] \in Entry
  BY OnTypes DEF Table, Entry
<1>2. [E EXCEPT ![n] = E[n]] = E
  BY <1>1 DEF Table
<1>3. On(s, D, d, E) /\ s.res = NO_ERROR
  BY <1>1, <1>2, WriteEntry
<1>4. At(s, d, m) = E[m]
  BY <1>3, OnTypes
<1>5. x.call = cs /\ x.r = SFS_ENTRYREFS /\ x.refcount = refcount /\ x.ncur = n /\ x.cur = E[n] /\ x.nxt = nxt
      /\ x.found = FALSE
  BY DEF Seeking, Moving
<1>6. x1.ncur = m /\ x1.cur = E[m] /\ x1.r = 0 /\ x1.refcount = get_entry_refcount(E[m]) /\ x1.nxt = nxt /\ x1.found = FALSE
  BY DEF Seeking, Moving
<1>7. ~(x.r >= x.refcount) /\ ~Failed(s.res)
  <2> HIDE DEF x, s
  <2>1. SFS_ENTRYREFS \in Nat /\ ~(SFS_ENTRYREFS >= refcount)
    BY Numbers
  <2> QED BY <1>3, <1>5, <2>1 DEF Failed, NO_ERROR
<1>8. WithRef(E[m], 0, E[m].ref[0]) = E[m]
  <2>1. [E[m].ref EXCEPT ![0] = E[m].ref[0]] = E[m].ref
    BY <1>1 DEF Entry
  <2> QED BY <1>1, <2>1 DEF WithRef, Entry
<1> HIDE DEF x, s, m, x1
<1>9. x1 = [x EXCEPT !.ncur = x.cur.next, !.cur = At(s, d, x.cur.next), !.r = 0,
                     !.refcount = get_entry_refcount(At(s, d, x.cur.next))]
  BY <1>4, <1>5 DEF x1, m
<1>10. s = IF x.r = SFS_ENTRYREFS THEN write_entry(x.call, d, x.ncur, x.cur) ELSE x.call
  BY <1>5 DEF s
<1>11. ShiftOnce(x, d, ref) =
          [call |-> s, r |-> x1.r + 1, refcount |-> x1.refcount, ncur |-> x1.ncur,
            cur |-> [x1.cur EXCEPT !.ref[x1.r] = IF x1.found \/ x1.cur.ref[x1.r] = ref
                             THEN x1.nxt.ref[(x1.r + 1) % SFS_ENTRYREFS] ELSE @],
            nxt |-> x1.nxt, found |-> x1.found \/ x1.cur.ref[x1.r] = ref]
  <2>1. x.r = SFS_ENTRYREFS /\ ~Failed(x.call.res)
    BY <1>5
  <2> QED BY <1>7, <1>9, <1>10, <2>1 DEF ShiftOnce
<1>12. E[m].ref[0] # ref
  BY DEF m
<1>13. ShiftOnce(x, d, ref) =
          [call |-> s, r |-> 1, refcount |-> get_entry_refcount(E[m]), ncur |-> m,
            cur |-> WithRef(E[m], 0, E[m].ref[0]), nxt |-> nxt, found |-> FALSE]
  <2>1. [x1.cur EXCEPT !.ref[x1.r] = IF x1.found \/ x1.cur.ref[x1.r] = ref
                             THEN x1.nxt.ref[(x1.r + 1) % SFS_ENTRYREFS] ELSE @] = WithRef(E[m], 0, E[m].ref[0])
    BY <1>6, <1>12 DEF WithRef
  <2>2. (x1.found \/ x1.cur.ref[x1.r] = ref) = FALSE /\ x1.r + 1 = 1
    BY <1>6, <1>12
  <2> QED BY <1>6, <1>11, <2>1, <2>2
<1> QED BY <1>3, <1>8, <1>13 DEF Seeking, Moving, x, m, s
\* The loop has not found the reference.
Missed(v) == v.found = FALSE

\* Taking a reference from a file that does not hold it: its entries stay as they are.
LEMMA ShiftNothing ==
  ASSUME NEW d \in Disks, NEW D, NEW E, NEW s, On(s, D, d, E), ~Failed(s.res), Chains(E),
         NEW p \in EntryIndex, IsFile(E[p]), NEW n,
         \A m \in EntryIndex : IsFile(E[m]) => \A i \in RefIndex : E[m].ref[i] # n
  PROVE  Missed(ShiftRefs(s, d, p, n)) /\ On(ShiftRefs(s, d, p, n).call, D, d, E)
         /\ ~Failed(ShiftRefs(s, d, p, n).call.res)
<1> DEFINE B == NEntries * SFS_ENTRYREFS
           OK(x) == \E cs, r, q, nxt :
                      /\ x = Seeking(cs, r, get_entry_refcount(E[q]), q, E[q], nxt)
                      /\ On(cs, D, d, E) /\ ~Failed(cs.res)
                      /\ r \in 0 .. SFS_ENTRYREFS /\ q \in EntryIndex /\ IsFile(E[q])
<1>1. PICK v : ShiftRuns(s, d, p, n, v)
  BY ShiftRunsExist
<1>2. /\ ShiftRefs(s, d, p, n) = v[B]
      /\ v[0] = Seeking(s, 0, get_entry_refcount(At(s, d, p)), p, At(s, d, p), At(s, d, p))
      /\ \A i \in 0 .. B - 1 : v[i + 1] = ShiftOnce(v[i], d, n)
  BY <1>1 DEF ShiftRuns, Seeking, Moving
<1>3. B \in Nat
  BY NSFSDiskAssumption
<1> HIDE DEF B
<1>4. E \in Table /\ At(s, d, p) = E[p]
  BY OnTypes
<1>5. OK(v[0])
  <2>1. 0 \in 0 .. SFS_ENTRYREFS
    BY Numbers
  <2> QED BY <1>2, <1>4, <2>1
<1>6. ASSUME NEW x, OK(x) PROVE OK(ShiftOnce(x, d, n))
  <2>1. PICK cs, r, q, nxt :
                      /\ x = Seeking(cs, r, get_entry_refcount(E[q]), q, E[q], nxt)
                      /\ On(cs, D, d, E) /\ ~Failed(cs.res)
                      /\ r \in 0 .. SFS_ENTRYREFS /\ q \in EntryIndex /\ IsFile(E[q])
    BY <1>6
  <2> DEFINE count == get_entry_refcount(E[q])
  <2>2. E[q] \in Entry /\ E[q].size \in Nat /\ E[q].next \in EntryIndex
    BY <1>4, <2>1 DEF Table, Entry
  <2>3. count = needed_blocks(E[q].size) /\ count \in Nat
    <3>1. count = needed_blocks(E[q].size)
      <4> HIDE DEF count
      <4> QED BY <2>1 DEF get_entry_refcount, IsFile, count, T_FILE, T_DIR
    <3> QED BY <2>2, <3>1, Blocks
  <2>4. CASE r >= count
    <3>1. ShiftOnce(x, d, n) = x
      <4>1. x.r = r /\ x.refcount = count
        BY <2>1 DEF Seeking, Moving
      <4> HIDE DEF count
      <4> QED BY <2>4, <4>1 DEF ShiftOnce
    <3> QED BY <1>6, <3>1
  <2>5. CASE r < count /\ r # SFS_ENTRYREFS
    <3>1. r \in RefIndex
      BY <2>1, <2>5, Numbers DEF RefIndex
    <3>2. E[q].ref[r] # n
      BY <2>1, <3>1
    <3>3. ShiftOnce(x, d, n) = Seeking(cs, r + 1, count, q, WithRef(E[q], r, E[q].ref[r]), NextCopy(cs, d, r, nxt))
      <4> HIDE DEF count
      <4>1. x = Seeking(cs, r, count, q, E[q], nxt)
        BY <2>1 DEF count
      <4> HIDE DEF count
      <4>2. count \in Nat /\ r < count /\ ~Failed(cs.res)
        BY <2>1, <2>3, <2>5
      <4> QED BY <3>1, <3>2, <4>1, <4>2, ShiftKeep
    <3>4. WithRef(E[q], r, E[q].ref[r]) = E[q]
      <4>1. [E[q].ref EXCEPT ![r] = E[q].ref[r]] = E[q].ref
        BY <2>2 DEF Entry
      <4> QED BY <2>2, <4>1 DEF WithRef, Entry
    <3>5. r + 1 \in 0 .. SFS_ENTRYREFS
      BY <2>1, <2>5, Numbers
    <3> QED BY <2>1, <3>3, <3>4, <3>5
  <2>6. CASE r < count /\ r = SFS_ENTRYREFS
    <3>1. E[q].size > Capacity
      <4>1. ~(needed_blocks(E[q].size) <= SFS_ENTRYREFS)
        BY <2>3, <2>6, Numbers
      <4>2. ~(E[q].size <= SFS_ENTRYREFS * BLOCK_SIZE)
        BY <2>2, <4>1, Blocks, Numbers
      <4> QED BY <2>2, <4>2, Numbers DEF Capacity
    <3>2. E[q].next # 0 /\ IsFile(E[E[q].next])
      <4>1. ~(E[q].size <= Capacity)
        BY <2>2, <3>1, Numbers
      <4> QED BY <2>1, <4>1 DEF Chains
    <3>3. E[E[q].next].ref[0] # n
      <4>1. 0 \in RefIndex
        BY Numbers DEF RefIndex
      <4> QED BY <2>2, <3>2, <4>1
    <3> DEFINE s1 == write_entry(cs, d, q, E[q])
    <3>4. /\ On(s1, D, d, E) /\ s1.res = NO_ERROR
               /\ ShiftOnce(Seeking(cs, SFS_ENTRYREFS, count, q, E[q], nxt), d, n) =
                   Seeking(s1, 1, get_entry_refcount(E[E[q].next]), E[q].next, E[E[q].next], nxt)
      <4> HIDE DEF count
      <4>1. SFS_ENTRYREFS < count /\ count \in Nat
        BY <2>3, <2>6
      <4>2. On(cs, D, d, E) /\ ~Failed(cs.res) /\ q \in EntryIndex /\ E[E[q].next].ref[0] # n
        BY <2>1, <3>3
      <4> QED BY <4>1, <4>2, ShiftWrap
    <3> HIDE DEF s1
    <3>5. 1 \in 0 .. SFS_ENTRYREFS /\ ~Failed(s1.res)
      BY <3>4, Numbers DEF Failed, NO_ERROR
    <3> QED BY <2>1, <2>2, <2>6, <3>2, <3>4, <3>5
  <2>7. r >= count \/ r < count
    BY <2>1, <2>3, Numbers
  <2> QED BY <2>4, <2>5, <2>6, <2>7
<1> HIDE DEF OK
<1>7. \A i \in 0 .. B : i \in {j \in 0 .. B : OK(v[j])}
  <2> DEFINE S == {j \in 0 .. B : OK(v[j])}
  <2>1. 0 \in S
    BY <1>3, <1>5
  <2>2. ASSUME NEW i \in 0 .. B - 1, i \in S PROVE i + 1 \in S
    <3>1. OK(v[i + 1])
      BY <1>2, <1>6, <2>2
    <3> QED BY <1>3, <3>1
  <2> HIDE DEF S
  <2>3. \A i \in 0 .. B : i \in S
    BY <1>3, <2>1, <2>2, UpTo
  <2> QED BY <2>3 DEF S
<1>8. OK(v[B])
  BY <1>3, <1>7
<1> QED BY <1>2, <1>8 DEF OK, Missed, Seeking, Moving

-----------------------------------------------------------------------------
(* Taking a reference out of a directory.  remove_ref_in_entry for a directory of one entry. *)

\* The directory entry e as it is when the references from k to i have moved up.
Moved(e, k, i) ==
  [e EXCEPT !.ref = [j \in RefIndex |-> IF k <= j /\ j < i THEN IF j + 1 < SFS_ENTRYREFS THEN e.ref[j + 1] ELSE 0 ELSE e.ref[j]]]

\* The fields of the copy in which references k to i - 1 have moved up.
LEMMA MovedFields ==
  ASSUME NEW e \in Entry, NEW k \in Nat, NEW i \in Nat
  PROVE  /\ Moved(e, k, i) \in Entry /\ Moved(e, k, i).flags = e.flags /\ Moved(e, k, i).name = e.name
         /\ Moved(e, k, i).parent = e.parent /\ Moved(e, k, i).next = e.next /\ Moved(e, k, i).size = e.size
         /\ \A j \in RefIndex : Moved(e, k, i).ref[j] =
              IF k <= j /\ j < i THEN IF j + 1 < SFS_ENTRYREFS THEN e.ref[j + 1] ELSE 0 ELSE e.ref[j]
<1> DEFINE f == [j \in RefIndex |-> IF k <= j /\ j < i THEN IF j + 1 < SFS_ENTRYREFS THEN e.ref[j + 1] ELSE 0 ELSE e.ref[j]]
<1>1. f \in [RefIndex -> EntryIndex \cup DataBlocks]
  <2>1. \A j \in RefIndex : j \in Nat /\ (j + 1 < SFS_ENTRYREFS => j + 1 \in RefIndex)
    BY Numbers DEF RefIndex
  <2> QED BY <2>1, Numbers DEF Entry
<1>2. \A j \in RefIndex : f[j] = IF k <= j /\ j < i THEN IF j + 1 < SFS_ENTRYREFS THEN e.ref[j + 1] ELSE 0 ELSE e.ref[j]
  OBVIOUS
<1>3. Moved(e, k, i) = [e EXCEPT !.ref = f]
  BY DEF Moved
<1> HIDE DEF f
<1> QED BY <1>1, <1>2, <1>3 DEF Entry

\* Before the first move the copy is the entry.
LEMMA MovedNone ==
  ASSUME NEW e \in Entry, NEW k \in Nat
  PROVE  Moved(e, k, k) = e
<1> DEFINE f == [j \in RefIndex |-> IF k <= j /\ j < k THEN IF j + 1 < SFS_ENTRYREFS THEN e.ref[j + 1] ELSE 0 ELSE e.ref[j]]
<1>1. f = e.ref
  <2>1. \A j \in RefIndex : j \in Nat
    BY Numbers DEF RefIndex
  <2> QED BY <2>1 DEF Entry
<1>2. Moved(e, k, k) = [e EXCEPT !.ref = f]
  BY DEF Moved
<1> HIDE DEF f
<1> QED BY <1>1, <1>2 DEF Entry

\* One more reference moves up.
LEMMA MovedOnce ==
  ASSUME NEW e \in Entry, NEW k \in Nat, NEW i \in RefIndex, k <= i, e.next = 0, NEW s, NEW d
  PROVE  WithRef(Moved(e, k, i), i, NextCopy(s, d, i, e).ref[(i + 1) % SFS_ENTRYREFS]) = Moved(e, k, i + 1)
<1> DEFINE x == NextCopy(s, d, i, e).ref[(i + 1) % SFS_ENTRYREFS]
           f == [j \in RefIndex |-> IF k <= j /\ j < i THEN IF j + 1 < SFS_ENTRYREFS THEN e.ref[j + 1] ELSE 0 ELSE e.ref[j]]
           g == [j \in RefIndex |-> IF k <= j /\ j < i + 1 THEN IF j + 1 < SFS_ENTRYREFS THEN e.ref[j + 1] ELSE 0 ELSE e.ref[j]]
<1>0. i \in Nat /\ i < SFS_ENTRYREFS /\ SFS_ENTRYREFS \in Nat /\ SFS_ENTRYREFS > 1
  BY Numbers DEF RefIndex
<1>1. x = IF i + 1 < SFS_ENTRYREFS THEN e.ref[i + 1] ELSE 0
  <2>1. CASE i + 1 < SFS_ENTRYREFS
    <3>1. i + 1 \in 0 .. SFS_ENTRYREFS - 1 /\ i + 1 = SFS_ENTRYREFS * 0 + (i + 1)
      BY <1>0, <2>1
    <3>2. (i + 1) % SFS_ENTRYREFS = i + 1
      BY <1>0, <3>1, DivIs
    <3>3. NextCopy(s, d, i, e) = e
      BY <1>0, <2>1 DEF NextCopy
    <3> QED BY <2>1, <3>2, <3>3
  <2>2. CASE i + 1 = SFS_ENTRYREFS
    <3>1. 0 \in 0 .. SFS_ENTRYREFS - 1 /\ i + 1 = SFS_ENTRYREFS * 1 + 0 /\ 0 \in RefIndex
      BY <1>0, <2>2 DEF RefIndex
    <3>2. (i + 1) % SFS_ENTRYREFS = 0
      BY <1>0, <3>1, DivIs
    <3>3. NextCopy(s, d, i, e) = ZeroEntry
      BY <2>2 DEF NextCopy
    <3>4. x = ZeroEntry.ref[0]
      BY <3>2, <3>3
    <3>5. ZeroEntry.ref[0] = 0
      BY <3>1, ZeroIsEntry
    <3>6. ~(i + 1 < SFS_ENTRYREFS)
      BY <1>0, <2>2
    <3> HIDE DEF x
    <3> QED BY <3>4, <3>5, <3>6
  <2> QED BY <1>0, <2>1, <2>2
<1> HIDE DEF x
<1>2. [f EXCEPT ![i] = x] = g
  <2>1. \A j \in RefIndex : j \in Nat
    BY Numbers DEF RefIndex
  <2>2. ASSUME NEW j \in RefIndex PROVE [f EXCEPT ![i] = x][j] = g[j]
    <3>1. CASE j = i
      <4>1. [f EXCEPT ![i] = x][j] = x
        BY <3>1
      <4>2. g[j] = IF i + 1 < SFS_ENTRYREFS THEN e.ref[i + 1] ELSE 0
        BY <1>0, <3>1
      <4> QED BY <1>1, <4>1, <4>2
    <3>2. CASE j # i
      <4>1. [f EXCEPT ![i] = x][j] = f[j]
        BY <3>2
      <4>2. j < i + 1 <=> j < i
        BY <1>0, <2>1, <3>2
      <4> QED BY <4>1, <4>2
    <3> QED BY <3>1, <3>2
  <2> HIDE DEF x
  <2> QED BY <2>2
<1>3. Moved(e, k, i) = [e EXCEPT !.ref = f] /\ Moved(e, k, i + 1) = [e EXCEPT !.ref = g]
  BY DEF Moved
<1> HIDE DEF f, g
<1>4. [e EXCEPT !.ref = f].ref = f
  BY DEF Entry
<1>5. WithRef([e EXCEPT !.ref = f], i, x) = [e EXCEPT !.ref = [f EXCEPT ![i] = x]]
  BY <1>4 DEF WithRef, Entry
<1> QED BY <1>2, <1>3, <1>5 DEF x

\* Taking a reference from a directory: those after it have moved up.
LEMMA ShiftDir ==
  ASSUME NEW d \in Disks, NEW D, NEW E, NEW s, On(s, D, d, E), ~Failed(s.res),
         NEW p \in EntryIndex, IsDir(E[p]), E[p].next = 0, E[p].size <= SFS_ENTRYREFS,
         NEW k \in 0 .. E[p].size - 1, NEW n, E[p].ref[k] = n,
         \A j \in 0 .. k - 1 : E[p].ref[j] # n
  PROVE  \E nxt : ShiftRefs(s, d, p, n) =
                    Moving(s, E[p].size, E[p].size, p, Moved(E[p], k, E[p].size), nxt)
<1>1. PICK v : ShiftRuns(s, d, p, n, v)
  BY ShiftRunsExist
<1> DEFINE B == NEntries * SFS_ENTRYREFS
           e == E[p]
           size == e.size
           OK(i) == \E nxt : /\ i < SFS_ENTRYREFS => nxt = e
                             /\ i <= k => v[i] = Seeking(s, i, size, p, e, nxt)
                             /\ i > k => v[i] = Moving(s, i, size, p, Moved(e, k, i), nxt)
           Done(i) == \E nxt : v[i] = Moving(s, size, size, p, Moved(e, k, size), nxt)
           S == {i \in 0 .. B : (i <= size => OK(i)) /\ (i >= size => Done(i))}
<1>2. /\ ShiftRefs(s, d, p, n) = v[B]
      /\ v[0] = Seeking(s, 0, get_entry_refcount(At(s, d, p)), p, At(s, d, p), At(s, d, p))
      /\ \A i \in 0 .. B - 1 : v[i + 1] = ShiftOnce(v[i], d, n)
  BY <1>1 DEF ShiftRuns, Seeking
<1>3. E \in Table /\ At(s, d, p) = e /\ e \in Entry /\ size \in Nat /\ size <= SFS_ENTRYREFS /\ k \in Nat /\ k < size
  BY OnTypes, Numbers DEF Table, Entry
<1>4. B \in Nat /\ B >= size
  <2>1. NEntries \in Nat /\ NEntries >= 1 /\ SFS_ENTRYREFS \in Nat
    BY NSFSDiskAssumption
  <2>2. B \in Nat /\ B >= SFS_ENTRYREFS
    BY <2>1
  <2> QED BY <1>3, <2>1, <2>2
<1>5. get_entry_refcount(e) = size
  BY DEF get_entry_refcount, IsDir, T_DIR, T_FILE
<1> HIDE DEF B, size
<1>6. 0 \in S
  <2>1. v[0] = Seeking(s, 0, size, p, e, e)
    BY <1>2, <1>3, <1>5
  <2>2. OK(0)
    BY <1>3, <2>1
  <2> HIDE DEF OK, Done
  <2> QED BY <1>3, <1>4, <2>2
<1>7. ASSUME NEW i \in 0 .. B - 1, i \in S PROVE i + 1 \in S
  <2> DEFINE m == i + 1
  <2>1. m \in 0 .. B /\ m = i + 1 /\ i \in Nat
    BY <1>4
  <2>2. v[m] = ShiftOnce(v[i], d, n)
    BY <1>2
  <2> HIDE DEF m
  <2>3. CASE i >= size
    <3>1. PICK nxt : v[i] = Moving(s, size, size, p, Moved(e, k, size), nxt)
      BY <1>7, <2>3
    <3>2. v[i].r = size /\ v[i].refcount = size
      BY <3>1 DEF Moving
    <3>3. v[m] = v[i]
      <4>1. size >= size
        BY <1>3
      <4> QED BY <2>2, <3>2, <4>1 DEF ShiftOnce
    <3>4. Done(m)
      BY <3>1, <3>3
    <3> HIDE DEF OK, Done
    <3> QED BY <1>3, <2>1, <2>3, <3>4
  <2>4. CASE i < size
    <3>1. PICK nxt : /\ i < SFS_ENTRYREFS => nxt = e
                     /\ i <= k => v[i] = Seeking(s, i, size, p, e, nxt)
                     /\ i > k => v[i] = Moving(s, i, size, p, Moved(e, k, i), nxt)
      BY <1>3, <1>7, <2>4
    <3>2. i \in RefIndex /\ nxt = e /\ i < SFS_ENTRYREFS
      BY <1>3, <2>1, <2>4, <3>1, Numbers DEF RefIndex
    <3>3. m < SFS_ENTRYREFS => NextCopy(s, d, i, e) = e
      BY <1>3, <2>1, Numbers DEF NextCopy
    <3>4. CASE i < k
      <4>1. e.ref[i] # n
        BY <2>1, <3>4
      <4>2. v[i] = Seeking(s, i, size, p, e, e)
        BY <1>3, <2>1, <3>1, <3>2, <3>4
      <4>3. v[m] = Seeking(s, m, size, p, WithRef(e, i, e.ref[i]), NextCopy(s, d, i, e))
        BY <1>3, <2>1, <2>2, <2>4, <3>2, <4>1, <4>2, ShiftKeep
      <4>4. WithRef(e, i, e.ref[i]) = e
        <5>1. [e.ref EXCEPT ![i] = e.ref[i]] = e.ref
          BY <1>3, <3>2 DEF Entry
        <5> QED BY <1>3, <5>1 DEF WithRef, Entry
      <4>5. OK(m)
        BY <1>3, <2>1, <3>3, <3>4, <4>3, <4>4
      <4>6. m < size
        BY <1>3, <2>1, <3>4
      <4> HIDE DEF OK, Done
      <4> QED BY <1>3, <2>1, <4>5, <4>6
    <3>5. CASE i >= k
      <4>1. v[m] = Moving(s, m, size, p, Moved(e, k, m), NextCopy(s, d, i, e))
        <5>1. WithRef(Moved(e, k, i), i, NextCopy(s, d, i, e).ref[(i + 1) % SFS_ENTRYREFS]) = Moved(e, k, m)
          BY <1>3, <2>1, <3>2, <3>5, MovedOnce
        <5>2. CASE i = k
          <6>1. v[i] = Seeking(s, i, size, p, e, e) /\ e.ref[i] = n /\ Moved(e, k, i) = e
            BY <1>3, <2>1, <3>1, <3>2, <5>2, MovedNone
          <6> QED BY <1>3, <2>1, <2>2, <2>4, <3>2, <5>1, <6>1, ShiftHit
        <5>3. CASE i > k
          <6>1. v[i] = Moving(s, i, size, p, Moved(e, k, i), e)
            BY <1>3, <2>1, <3>1, <3>2, <5>3
          <6> QED BY <1>3, <2>1, <2>2, <2>4, <3>2, <5>1, <6>1, ShiftMove
        <5> QED BY <1>3, <2>1, <3>5, <5>2, <5>3
      <4>2. OK(m)
        BY <1>3, <2>1, <3>3, <3>5, <4>1
      <4>3. m >= size => Done(m)
        <5>1. m >= size => m = size
          BY <1>3, <2>1, <2>4
        <5> QED BY <4>1, <5>1
      <4> HIDE DEF OK, Done
      <4>4. m <= size \/ m >= size
        BY <1>3, <2>1
      <4> QED BY <1>3, <2>1, <2>4, <4>2, <4>3, <4>4
    <3> QED BY <1>3, <2>1, <3>4, <3>5
  <2> QED BY <1>3, <2>1, <2>3, <2>4
<1> HIDE DEF OK
<1>8. \A i \in 0 .. B : i \in S
  <2> HIDE DEF S
  <2> QED BY <1>4, <1>6, <1>7, UpTo
<1>9. Done(B)
  <2> HIDE DEF Done
  <2> QED BY <1>3, <1>4, <1>8
<1> QED BY <1>2, <1>9 DEF size

\* The fields of an entry whose references from q on are cleared.
LEMMA Cleared ==
  ASSUME NEW e \in Entry, NEW q \in Nat
  PROVE  /\ ClearRefs(e, q) \in Entry /\ ClearRefs(e, q).flags = e.flags /\ ClearRefs(e, q).name = e.name
         /\ ClearRefs(e, q).parent = e.parent /\ ClearRefs(e, q).next = e.next /\ ClearRefs(e, q).size = e.size
         /\ \A j \in RefIndex : ClearRefs(e, q).ref[j] = IF j >= q THEN 0 ELSE e.ref[j]
<1> DEFINE f == [j \in RefIndex |-> IF j >= q THEN 0 ELSE e.ref[j]]
<1>1. f \in [RefIndex -> EntryIndex \cup DataBlocks]
  BY Numbers DEF Entry
<1>2. \A j \in RefIndex : f[j] = IF j >= q THEN 0 ELSE e.ref[j]
  OBVIOUS
<1>3. ClearRefs(e, q) = [e EXCEPT !.ref = f]
  BY DEF ClearRefs, Entry
<1> HIDE DEF f
<1> QED BY <1>1, <1>2, <1>3 DEF Entry

\* The entries that a count of references below SFS_ENTRYREFS needs: the head.
LEMMA HeadHolds ==
  ASSUME NEW count \in RefIndex
  PROVE  LET nentries == count \div SFS_ENTRYREFS + (IF count % SFS_ENTRYREFS = 0 THEN 0 ELSE 1)
         IN  /\ (IF nentries = 0 THEN 0 ELSE nentries - 1) = 0
             /\ Least(SFS_ENTRYREFS - 1, count) % SFS_ENTRYREFS = count
<1>1. SFS_ENTRYREFS \in Nat /\ SFS_ENTRYREFS > 0 /\ count \in Nat /\ count \in 0 .. SFS_ENTRYREFS - 1
      /\ count = SFS_ENTRYREFS * 0 + count
  BY Numbers DEF RefIndex
<1>2. count \div SFS_ENTRYREFS = 0 /\ count % SFS_ENTRYREFS = count
  BY <1>1, DivIs
<1>3. Least(SFS_ENTRYREFS - 1, count) = count
  BY <1>1 DEF Least
<1> QED BY <1>1, <1>2, <1>3

\* The same number of entries, one: what is after the references is cleared.
LEMMA RefcountInHead ==
  ASSUME NEW d \in Disks, NEW D, NEW E, NEW s, On(s, D, d, E), ~Failed(s.res), NEW n \in EntryIndex,
         NEW count \in RefIndex
  PROVE  set_entry_refcount(s, d, n, count) = EndChain(s, d, n, ClearRefs(E[n], count))
<1> DEFINE nentries == count \div SFS_ENTRYREFS + (IF count % SFS_ENTRYREFS = 0 THEN 0 ELSE 1)
           more == IF nentries = 0 THEN 0 ELSE nentries - 1
           first_unused == Least(SFS_ENTRYREFS - 1, count) % SFS_ENTRYREFS
           walk == ExtendChain(s, d, n, more)
<1>1. more = 0 /\ first_unused = count
  BY HeadHolds
<1>2. set_entry_refcount(s, d, n, count) =
        IF Failed(walk.call.res) THEN walk.call ELSE EndChain(walk.call, d, walk.at, ClearRefs(walk.mem, first_unused))
  BY DEF set_entry_refcount
<1> HIDE DEF more, first_unused
<1>3. walk = [call |-> s, at |-> n, mem |-> At(s, d, n)]
  BY <1>1, ExtendNone
<1>4. At(s, d, n) = E[n]
  BY OnTypes
<1> HIDE DEF walk
<1> QED BY <1>1, <1>2, <1>3, <1>4

\* Two entries that have the same fields are the same.
LEMMA SameEntry ==
  ASSUME NEW x \in Entry, NEW y \in Entry, x.flags = y.flags, x.name = y.name, x.parent = y.parent,
         x.next = y.next, x.size = y.size, \A i \in RefIndex : x.ref[i] = y.ref[i]
  PROVE  x = y
<1>1. x.ref = y.ref
  BY DEF Entry
<1> QED BY <1>1 DEF Entry

\* Ending a chain at its last entry writes that entry.
LEMMA EndChainLast ==
  ASSUME NEW s, NEW d, NEW n, NEW last, last.next = 0
  PROVE  EndChain(s, d, n, last) = write_entry(s, d, n, last)
<1> DEFINE Cut(t) == IF last.next = 0 THEN t
                ELSE Then(write_entry(t, d, n, [last EXCEPT !.next = 0]), LAMBDA u : FreeChain(u, d, last.next))
<1>1. EndChain(s, d, n, last) = Then(write_entry(s, d, n, last), Cut)
  BY DEF EndChain
<1>2. \A t : Cut(t) = t
  OBVIOUS
<1> HIDE DEF Cut
<1> QED BY <1>1, <1>2 DEF Then

\* Taking from a directory the reference that is number k in it.
LEMMA RemoveRef ==
  ASSUME NEW d \in Disks, NEW D, NEW E, NEW s, On(s, D, d, E), ~Failed(s.res),
         NEW p \in EntryIndex, IsDir(E[p]), E[p].next = 0, E[p].size <= SFS_ENTRYREFS,
         NEW k \in 0 .. E[p].size - 1, NEW n, E[p].ref[k] = n,
         \A j \in 0 .. k - 1 : E[p].ref[j] # n, \A j \in RefIndex \ LiveRefs(E[p]) : E[p].ref[j] = 0
  PROVE  /\ On(remove_ref_in_entry(s, d, p, n), D, d, [E EXCEPT ![p] = Minus(E[p], k)])
         /\ remove_ref_in_entry(s, d, p, n).res = NO_ERROR
<1> DEFINE e == E[p]
           size == e.size
           m == Moved(e, k, size)
           t == write_entry(s, d, p, m)
           E1 == [E EXCEPT ![p] = m]
           count == size - 1
           c == ClearRefs(m, count)
           u == write_entry(t, d, p, c)
           E2 == [E EXCEPT ![p] = c]
           w == set_entry_size(u, d, p, count)
<1>1. E \in Table /\ At(s, d, p) = e /\ e \in Entry /\ size \in Nat /\ size <= SFS_ENTRYREFS /\ k \in Nat /\ k < size
      /\ e.flags = T_DIR /\ \A j \in RefIndex : j \in Nat
  <2>1. E \in Table /\ At(s, d, p) = e /\ e \in Entry /\ e.flags = T_DIR
    BY OnTypes DEF Table, IsDir
  <2>2. size \in Nat /\ SFS_ENTRYREFS \in Nat
    BY <2>1, Numbers DEF Entry
  <2>3. \A j \in RefIndex : j \in Nat
    BY <2>2 DEF RefIndex
  <2> QED BY <2>1, <2>2, <2>3
<1>2. count \in RefIndex /\ count \in Nat /\ count \in 0 .. SFS_ENTRYREFS /\ count = size - 1
  BY <1>1, Numbers DEF RefIndex
<1>3. /\ m \in Entry /\ m.flags = T_DIR /\ m.name = e.name /\ m.parent = e.parent /\ m.next = 0 /\ m.size = size
      /\ \A j \in RefIndex : m.ref[j] =
           IF k <= j /\ j < size THEN IF j + 1 < SFS_ENTRYREFS THEN e.ref[j + 1] ELSE 0 ELSE e.ref[j]
  BY <1>1, MovedFields
<1> HIDE DEF m, count, size
<1>4. On(t, D, d, E1) /\ t.res = NO_ERROR
  BY <1>3, WriteEntry
<1>5. E1[p] = m /\ E1 \in Table
  BY <1>1, <1>3 DEF Table
<1>6. /\ c \in Entry /\ c.flags = T_DIR /\ c.name = e.name /\ c.parent = e.parent /\ c.next = 0
      /\ \A j \in RefIndex : c.ref[j] = IF j >= count THEN 0 ELSE m.ref[j]
  BY <1>2, <1>3, Cleared
<1> HIDE DEF c
<1>7. On(u, D, d, E2) /\ u.res = NO_ERROR
  <2>1. On(u, D, d, [E1 EXCEPT ![p] = c]) /\ u.res = NO_ERROR
    <3> HIDE DEF t, E1
    <3> QED BY <1>4, <1>6, WriteEntry
  <2>2. [E1 EXCEPT ![p] = c] = E2
    BY <1>1 DEF Table
  <2> QED BY <2>1, <2>2
<1>8. E2[p] = c /\ E2 \in Table
  BY <1>1, <1>6 DEF Table
<1>9. On(w, D, d, [E2 EXCEPT ![p] = [c EXCEPT !.size = count]]) /\ w.res = NO_ERROR
  <2>1. IsDir(E2[p]) /\ E2[p].next = 0
    BY <1>6, <1>8 DEF IsDir
  <2> HIDE DEF E2, u
  <2>2. On(w, D, d, [E2 EXCEPT ![p] = [E2[p] EXCEPT !.size = count]]) /\ w.res = NO_ERROR
    BY <1>2, <1>7, <2>1, SetDirSize
  <2> QED BY <1>8, <2>2
<1>10. [c EXCEPT !.size = count] = Minus(e, k)
  <2> DEFINE y == [c EXCEPT !.size = count]
             z == Minus(e, k)
  <2>1. y \in Entry /\ y.flags = T_DIR /\ y.name = e.name /\ y.parent = e.parent /\ y.next = 0 /\ y.size = count
        /\ y.ref = c.ref
    BY <1>2, <1>6 DEF Entry
  <2>2. /\ z \in Entry /\ z.flags = T_DIR /\ z.name = e.name /\ z.parent = e.parent /\ z.next = 0 /\ z.size = count
        /\ \A j \in RefIndex : z.ref[j] = IF j < k THEN e.ref[j] ELSE IF j + 1 < e.size THEN e.ref[j + 1] ELSE 0
    BY <1>1, <1>2, MinusFields DEF size
  <2>3. ASSUME NEW j \in RefIndex PROVE y.ref[j] = z.ref[j]
    <3>1. j < SFS_ENTRYREFS /\ SFS_ENTRYREFS \in Nat /\ j \in Nat
      BY Numbers DEF RefIndex
    <3>1a. size \in Nat /\ size <= SFS_ENTRYREFS /\ k \in Nat
      BY <1>1
    <3>1b. z.ref[j] = IF j < k THEN e.ref[j] ELSE IF j + 1 < size THEN e.ref[j + 1] ELSE 0
      BY <2>2 DEF size
    <3>1c. y.ref[j] = IF j >= count THEN 0 ELSE
             IF k <= j /\ j < size THEN IF j + 1 < SFS_ENTRYREFS THEN e.ref[j + 1] ELSE 0 ELSE e.ref[j]
      BY <1>3, <1>6, <2>1
    <3> HIDE DEF y, z
    <3>2. CASE j < k
      BY <1>1, <1>2, <3>1, <3>1a, <3>1b, <3>1c, <3>2
    <3>3. CASE j >= k /\ j + 1 < size
      BY <1>2, <3>1, <3>1a, <3>1b, <3>1c, <3>3
    <3>4. CASE j >= k /\ ~(j + 1 < size)
      BY <1>2, <3>1, <3>1a, <3>1b, <3>1c, <3>4
    <3> QED BY <3>1, <3>1a, <3>2, <3>3, <3>4
  <2> HIDE DEF y, z
  <2>4. y = z
    BY <2>1, <2>2, <2>3, SameEntry
  <2> QED BY <2>4 DEF y, z
<1>11. remove_ref_in_entry(s, d, p, n) = w
  <2> DEFINE v == ShiftRefs(s, d, p, n)
             Size(x) == IF At(s, d, p).flags = T_DIR THEN set_entry_size(x, d, p, v.refcount - 1) ELSE x
             Resize(x) == Then(set_entry_refcount(x, d, p, v.refcount - 1), Size)
             x1 == write_entry(v.call, d, v.ncur, v.cur)
             x2 == set_entry_refcount(t, d, p, v.refcount - 1)
  <2>1. remove_ref_in_entry(s, d, p, n) =
          IF Failed(v.call.res) THEN v.call ELSE IF ~v.found THEN Return(v.call, NO_ERROR) ELSE Then(x1, Resize)
    BY DEF remove_ref_in_entry
  <2>2. PICK nxt : v = Moving(s, size, size, p, m, nxt)
    BY <1>1, ShiftDir DEF size, m
  <2>3. v.call = s /\ v.found = TRUE /\ v.ncur = p /\ v.cur = m /\ v.refcount = size
    BY <2>2 DEF Moving
  <2> HIDE DEF v
  <2>4. x1 = t /\ v.refcount - 1 = count
    BY <2>3, <1>2
  <2>5. remove_ref_in_entry(s, d, p, n) = Then(x1, Resize)
    <3> HIDE DEF x1, Resize
    <3> QED BY <2>1, <2>3
  <2>6. ~Failed(t.res) /\ ~Failed(u.res)
    BY <1>4, <1>7 DEF Failed, NO_ERROR
  <2>7. Then(x1, Resize) = Resize(t)
    <3> HIDE DEF x1, Resize, t
    <3> QED BY <2>4, <2>6 DEF Then
  <2>8. x2 = u
    <3>1. x2 = set_entry_refcount(t, d, p, count)
      BY <2>4
    <3>2. set_entry_refcount(t, d, p, count) = EndChain(t, d, p, ClearRefs(E1[p], count))
      <4> HIDE DEF t, E1
      <4> QED BY <1>2, <1>4, <2>6, RefcountInHead
    <3>3. ClearRefs(E1[p], count) = c
      BY <1>5 DEF c
    <3>4. EndChain(t, d, p, c) = u
      BY <1>6, EndChainLast
    <3> HIDE DEF t, u, x2
    <3> QED BY <3>1, <3>2, <3>3, <3>4
  <2>9. Resize(t) = Size(u)
    <3>1. Resize(t) = Then(x2, Size)
      OBVIOUS
    <3> HIDE DEF x2, Size, t, u, Resize
    <3> QED BY <2>6, <2>8, <3>1 DEF Then
  <2>10. Size(u) = w
    BY <1>1, <2>4
  <2> HIDE DEF Size, Resize, x1, w
  <2> QED BY <2>5, <2>7, <2>9, <2>10
<1>12. [E2 EXCEPT ![p] = [c EXCEPT !.size = count]] = [E EXCEPT ![p] = Minus(E[p], k)]
  BY <1>1, <1>10 DEF Table
<1> HIDE DEF w, E2
<1> QED BY <1>9, <1>11, <1>12

\* Taking a reference from a file that does not hold it.
LEMMA RemoveNothing ==
  ASSUME NEW d \in Disks, NEW D, NEW E, NEW s, On(s, D, d, E), ~Failed(s.res), Chains(E),
         NEW p \in EntryIndex, IsFile(E[p]), NEW n,
         \A m \in EntryIndex : IsFile(E[m]) => \A i \in RefIndex : E[m].ref[i] # n
  PROVE  On(remove_ref_in_entry(s, d, p, n), D, d, E) /\ remove_ref_in_entry(s, d, p, n).res = NO_ERROR
<1> DEFINE v == ShiftRefs(s, d, p, n)
           Size(x) == IF At(s, d, p).flags = T_DIR THEN set_entry_size(x, d, p, v.refcount - 1) ELSE x
           Resize(x) == Then(set_entry_refcount(x, d, p, v.refcount - 1), Size)
           x1 == write_entry(v.call, d, v.ncur, v.cur)
<1>1. remove_ref_in_entry(s, d, p, n) =
        IF Failed(v.call.res) THEN v.call ELSE IF ~v.found THEN Return(v.call, NO_ERROR) ELSE Then(x1, Resize)
  BY DEF remove_ref_in_entry
<1> HIDE DEF x1, Resize
<1>2. Missed(v) /\ On(v.call, D, d, E) /\ ~Failed(v.call.res)
  BY ShiftNothing
<1> HIDE DEF v
<1>3. remove_ref_in_entry(s, d, p, n) = Return(v.call, NO_ERROR)
  BY <1>1, <1>2 DEF Missed
<1> QED BY <1>2, <1>3, Returned DEF NO_ERROR

-----------------------------------------------------------------------------
(* Chains.  The entries of a file. *)

\* The chain c[0] .. c[k] of the file with head entry n.
FileChain(E, n, c, k) ==
  /\ Linked(E, c, k) /\ c[0] = n
  /\ \A j \in 0 .. k : IsFile(E[c[j]]) /\ E[c[j]].size = E[n].size - j * Capacity
  /\ \A j \in 0 .. k - 1 : E[c[j]].size > Capacity /\ E[c[j + 1]].parent = c[j]
  /\ E[c[k]].size <= Capacity

\* From every file entry a chain goes to a last entry, and the sizes along it shrink by what
\* an entry holds.
LEMMA ChainOf ==
  ASSUME NEW E \in Table, Chains(E), RootIsRoot(E), NEW n \in EntryIndex, IsFile(E[n])
  PROVE  \E k \in Nat : \E c : FileChain(E, n, c, k)
<1> DEFINE size == E[n].size
           cap == Capacity
           S == {q \in 0 .. size : size <= (q + 1) * cap}
           g == [i \in Nat |-> [m \in EntryIndex |-> E[m].next]]
<1>1. size \in Nat /\ cap \in Nat /\ cap > 0 /\ \A m \in EntryIndex : E[m].next \in EntryIndex /\ E[m].size \in Nat
  BY Numbers DEF Table, Entry
<1> HIDE DEF size, cap
<1>2. S \in SUBSET (0 .. size) /\ S # {}
  <2>1. size <= (size + 1) * cap
    <3>1. (size + 1) * cap >= (size + 1) * 1
      BY <1>1
    <3> QED BY <1>1, <3>1
  <2>2. size \in S
    BY <1>1, <2>1
  <2> QED BY <2>2
<1>3. PICK k \in S : \A j \in S : k <= j
  <2> HIDE DEF S
  <2> QED BY <1>1, <1>2, LeastExists
<1>4. k \in Nat /\ k \in 0 .. size /\ size <= (k + 1) * cap
  BY <1>1, <1>3
<1>5. \A j \in 0 .. k - 1 : size > (j + 1) * cap
  <2> SUFFICES ASSUME NEW j \in 0 .. k - 1, ~(size > (j + 1) * cap) PROVE FALSE
    OBVIOUS
  <2>1. (j + 1) * cap \in Nat
    BY <1>1, <1>4
  <2>2. size <= (j + 1) * cap /\ j \in 0 .. size
    BY <1>1, <1>4, <2>1
  <2>3. j \in S
    BY <2>2
  <2>4. k <= j
    BY <1>3, <2>3
  <2> QED BY <1>4, <2>4
<1> HIDE DEF S
<1> DEFINE rule == [i \in 0 .. k - 1 |-> [m \in EntryIndex |-> E[m].next]]
<1>6. PICK c \in [0 .. k -> EntryIndex] : c = [i \in 0 .. k |-> IF i = 0 THEN n ELSE rule[i - 1][c[i - 1]]]
  <2>1. IsRule(k, EntryIndex, n, rule)
    BY <1>1 DEF IsRule
  <2> HIDE DEF rule
  <2> QED BY <1>4, <2>1, RecursiveFunction
<1>7. c[0] = n
  BY <1>4, <1>6
<1>8. ASSUME NEW j \in 0 .. k - 1 PROVE c[j + 1] = E[c[j]].next
  <2> DEFINE m == j + 1
  <2>1. m \in 0 .. k /\ m # 0 /\ m - 1 = j /\ m = j + 1
    BY <1>4
  <2> HIDE DEF m
  <2>2. c[m] = rule[m - 1][c[m - 1]]
    <3> HIDE DEF rule
    <3> QED BY <1>6, <2>1
  <2> QED BY <1>4, <2>1, <2>2
<1> HIDE DEF rule
<1> DEFINE T == {j \in 0 .. k : IsFile(E[c[j]]) /\ E[c[j]].size = size - j * cap /\ (j > 0 => E[c[j]].parent = c[j - 1] /\ c[j] # 0)}
<1>9. \A j \in 0 .. k : j \in T
  <2>1. 0 \in T
    BY <1>1, <1>4, <1>7 DEF size
  <2>2. ASSUME NEW j \in 0 .. k - 1, j \in T PROVE j + 1 \in T
    <3> DEFINE m == j + 1
               x == c[j]
    <3>1. m \in 0 .. k /\ m - 1 = j /\ m = j + 1 /\ m > 0
      BY <1>4
    <3> HIDE DEF m
    <3>2. c[m] = E[x].next
      BY <1>8, <3>1
    <3>3. IsFile(E[x]) /\ E[x].size = size - j * cap /\ x \in EntryIndex
      BY <1>4, <1>6, <2>2
    <3>4. size > (j + 1) * cap
      BY <1>5
    <3>5. (j + 1) * cap = j * cap + cap /\ j * cap \in Nat /\ m * cap = j * cap + cap
      BY <1>1, <1>4, <3>1
    <3> HIDE DEF x
    <3>6. ~(E[x].size <= Capacity)
      <4>1. ~(E[x].size <= cap)
        BY <1>1, <3>3, <3>4, <3>5
      <4> QED BY <4>1 DEF cap
    <3>7. E[x].next # 0 /\ IsFile(E[c[m]]) /\ E[c[m]].parent = x /\ E[c[m]].size = E[x].size - Capacity
      BY <3>2, <3>3, <3>6 DEF Chains
    <3>8. E[c[m]].size = size - m * cap
      <4>1. E[c[m]].size = E[x].size - cap
        BY <3>7 DEF cap
      <4> QED BY <1>1, <3>3, <3>5, <4>1
    <3>9. m \in T
      BY <3>1, <3>2, <3>7, <3>8 DEF x
    <3> QED BY <3>1, <3>9
  <2> HIDE DEF T
  <2> QED BY <1>4, <2>1, <2>2, UpTo
<1>10. ASSUME NEW j \in 0 .. k
       PROVE  IsFile(E[c[j]]) /\ E[c[j]].size = size - j * cap /\ (j > 0 => E[c[j]].parent = c[j - 1] /\ c[j] # 0)
  BY <1>9
<1> HIDE DEF T
<1>11. ASSUME NEW i \in 0 .. k, NEW j \in 0 .. k, c[i] = c[j] PROVE i = j
  <2>1. size - i * cap = size - j * cap
    BY <1>10, <1>11
  <2>2. i * cap = j * cap
    BY <1>1, <1>4, <2>1
  <2> QED BY <1>1, <1>4, <2>2
<1>12. ASSUME NEW j \in 0 .. k - 1
       PROVE  E[c[j]].next = c[j + 1] /\ c[j + 1] # 0 /\ E[c[j]].size > Capacity /\ E[c[j + 1]].parent = c[j]
  <2> DEFINE m == j + 1
  <2>1. m \in 0 .. k /\ m - 1 = j /\ m = j + 1 /\ m > 0 /\ j \in 0 .. k
    BY <1>4
  <2> HIDE DEF m
  <2>2. E[c[m]].parent = c[j] /\ c[m] # 0 /\ E[c[j]].size = size - j * cap
    BY <1>10, <2>1
  <2>3. size > (j + 1) * cap /\ (j + 1) * cap = j * cap + cap /\ j * cap \in Nat
    BY <1>1, <1>4, <1>5
  <2>4. E[c[j]].size > cap
    BY <1>1, <2>2, <2>3
  <2> QED BY <1>8, <2>1, <2>2, <2>4 DEF cap
<1>13. E[c[k]].size <= cap /\ E[c[k]].next = 0
  <2>1. k \in 0 .. k /\ c[k] \in EntryIndex
    BY <1>4, <1>6
  <2>2. E[c[k]].size = size - k * cap /\ IsFile(E[c[k]])
    BY <1>10, <2>1
  <2>3. (k + 1) * cap = k * cap + cap /\ k * cap \in Nat
    BY <1>1, <1>4
  <2>4. E[c[k]].size <= cap
    BY <1>1, <1>4, <2>2, <2>3
  <2> QED BY <2>1, <2>2, <2>4 DEF cap, Chains
<1> HIDE DEF rule
<1>14. Linked(E, c, k)
  BY <1>6, <1>11, <1>12, <1>13 DEF Linked
<1>15. FileChain(E, n, c, k)
  BY <1>7, <1>10, <1>12, <1>13, <1>14 DEF FileChain, cap, size
<1> QED BY <1>4, <1>15

-----------------------------------------------------------------------------
(* The promises.  What source/fs.h says of a disk follows from Good. *)

\* In a good table no block has two places.
LEMMA GoodOwned ==
  ASSUME NEW img \in Image, Good(img.entry, {})
  PROVE  LET Places == {p \in Files(img) \X RefIndex : p[2] \in LiveRefs(img.entry[p[1]])}
             BlockAt(p) == img.entry[p[1]].ref[p[2]]
         IN  \A p, q \in Places : p # q => BlockAt(p) # BlockAt(q) \/ BlockAt(p) = 0
<1> SUFFICES ASSUME NEW m \in EntryIndex, NEW i \in RefIndex, NEW n \in EntryIndex, NEW j \in RefIndex,
                    IsFile(img.entry[m]), IsFile(img.entry[n]),
                    img.entry[m].ref[i] = img.entry[n].ref[j], img.entry[m].ref[i] # 0
             PROVE  m = n /\ i = j
  BY DEF Files, IsFile
<1> QED BY DEF Good, OneOwner

\* In a good table every chain carries the size of its file.
LEMMA GoodChains ==
  ASSUME NEW img \in Image, Good(img.entry, {}), NEW n \in Used(img)
  PROVE  LET e == img.entry[n]
         IN  /\ (e.next = 0) = (RestOfSize(e) = 0)
             /\ e.next # 0 =>
                  /\ img.entry[e.next].flags = e.flags
                  /\ img.entry[e.next].parent = n
                  /\ img.entry[e.next].size = RestOfSize(e)
             /\ \A m \in Used(img) \ {n} : e.next # 0 => img.entry[m].next # e.next
<1> DEFINE E == img.entry
           e == E[n]
<1>1. E \in Table /\ \A m \in EntryIndex : E[m] \in Entry /\ E[m].size \in Nat /\ E[m].next \in EntryIndex
  BY DEF Image, Table, Entry
<1>2. Chains(E) /\ DirsFit(E)
  BY DEF Good
<1>3. n \in EntryIndex /\ e.flags \in {T_DIR, T_FILE}
  BY <1>1 DEF Used, Entry
<1> HIDE DEF E
<1>4. CASE e.flags = T_FILE
  <2>1. IsFile(e) /\ EntryCapacity(e) = Capacity
    BY <1>4 DEF IsFile, EntryCapacity, Capacity, T_FILE, T_DIR
  <2>2. /\ e.size <= Capacity <=> e.next = 0
        /\ e.next # 0 => IsFile(E[e.next]) /\ E[e.next].parent = n /\ E[e.next].size = e.size - Capacity
    BY <1>2, <1>3, <2>1 DEF Chains
  <2>3. e.size <= Capacity <=> RestOfSize(e) = 0
    BY <1>1, <1>3, <2>1, Numbers DEF RestOfSize, Least
  <2>4. ~(e.size <= Capacity) => RestOfSize(e) = e.size - Capacity
    BY <1>1, <1>3, <2>1, Numbers DEF RestOfSize, Least
  <2>5. ASSUME e.next # 0, NEW m \in Used(img) \ {n} PROVE E[m].next # e.next
    <3>1. m \in EntryIndex /\ (IsFile(E[m]) \/ IsDir(E[m]))
      BY <1>1 DEF Used, E, IsFile, IsDir, Entry
    <3>2. CASE IsFile(E[m])
      <4> SUFFICES ASSUME E[m].next = e.next PROVE FALSE
        OBVIOUS
      <4>1. E[E[m].next].parent = m
        BY <1>2, <2>5, <3>1, <3>2 DEF Chains
      <4> QED BY <2>2, <2>5, <4>1
    <3>3. CASE IsDir(E[m])
      <4>1. E[m].next = 0
        BY <1>2, <3>1, <3>3 DEF DirsFit
      <4> QED BY <2>5, <4>1
    <3> QED BY <3>1, <3>2, <3>3
  <2>6. (e.next = 0) = (RestOfSize(e) = 0)
    BY <2>2, <2>3
  <2>7. e.next # 0 => E[e.next].flags = e.flags /\ E[e.next].parent = n /\ E[e.next].size = RestOfSize(e)
    BY <1>4, <2>2, <2>4 DEF IsFile
  <2> QED BY <2>5, <2>6, <2>7 DEF E
<1>5. CASE e.flags = T_DIR
  <2>1. e.next = 0 /\ e.size <= SFS_ENTRYREFS
    BY <1>2, <1>3, <1>5 DEF DirsFit, IsDir
  <2>2. EntryCapacity(e) = SFS_ENTRYREFS
    BY <1>5 DEF EntryCapacity, T_FILE, T_DIR
  <2>3. RestOfSize(e) = 0
    BY <1>1, <1>3, <2>1, <2>2, Numbers DEF RestOfSize, Least
  <2> QED BY <2>1, <2>3 DEF E
<1> QED BY <1>3, <1>4, <1>5

\* In a good table the heads are the root and the entries that are in directories.
LEMMA GoodHeads ==
  ASSUME NEW img \in Image, Good(img.entry, {})
  PROVE  /\ \A n \in Dirs(img) : n \in EntryIndex /\ n \in Used(img)
         /\ \A x \in Heads(img) : x \in UsedIn(img.entry) /\ (x # 0 => ~IsFile(img.entry[img.entry[x].parent]))
         /\ \A x \in UsedIn(img.entry) \ {0} : IsDir(img.entry[img.entry[x].parent]) => x \in Heads(img)
<1> DEFINE E == img.entry
<1>1. E \in Table /\ \A m \in EntryIndex : E[m] \in Entry /\ E[m].next \in EntryIndex /\ E[m].parent \in EntryIndex
      /\ E[m].flags \in {T_DIR, T_FILE, FREE}
  BY DEF Image, Table, Entry
<1>2. Chains(E) /\ DirsFit(E) /\ Parents(E, {})
  BY DEF Good
<1>3. \A n \in Dirs(img) : n \in EntryIndex /\ n \in Used(img)
  BY DEF Dirs, Used, T_DIR, FREE
<1>4. UsedIn(E) = Used(img) /\ Chained(img) = {E[n].next : n \in UsedIn(E)} \ {0}
  BY DEF UsedIn, Used, Chained
<1> HIDE DEF E
<1>5. ASSUME NEW x \in Heads(img), x # 0 PROVE ~IsFile(E[E[x].parent])
  <2>1. x \in UsedIn(E) \ {0} /\ \A n \in UsedIn(E) : E[n].next # x
    BY <1>4, <1>5 DEF Heads
  <2>2. x \in EntryIndex
    BY <2>1 DEF UsedIn
  <2>3. E[x].parent \in EntryIndex /\ E[E[x].parent].flags # FREE /\ (IsFile(E[E[x].parent]) => E[E[x].parent].next = x)
    BY <1>1, <1>2, <2>1, <2>2 DEF Parents
  <2>4. E[x].parent \in UsedIn(E)
    BY <2>3 DEF UsedIn
  <2> QED BY <2>1, <2>3, <2>4
<1>6. ASSUME NEW x \in UsedIn(E) \ {0}, IsDir(E[E[x].parent]) PROVE x \in Heads(img)
  <2> SUFFICES ASSUME NEW n \in UsedIn(E), E[n].next = x PROVE FALSE
    BY <1>4 DEF Heads
  <2>1. n \in EntryIndex /\ x \in EntryIndex
    BY DEF UsedIn
  <2>2. IsFile(E[n])
    <3>1. IsFile(E[n]) \/ IsDir(E[n])
      BY <1>1, <2>1 DEF UsedIn, IsFile, IsDir
    <3> QED BY <1>2, <2>1, <3>1 DEF DirsFit
  <2>3. E[x].parent = n
    BY <1>2, <2>1, <2>2 DEF Chains
  <2> QED BY <1>6, <2>2, <2>3 DEF IsFile, IsDir, T_FILE, T_DIR
<1> QED BY <1>3, <1>4, <1>5, <1>6 DEF E, Heads

\* In a good table a directory lists its children, each of them once.
LEMMA GoodListings ==
  ASSUME NEW img \in Image, Good(img.entry, {}), NEW n \in Heads(img)
  PROVE  LET Children(x) == {m \in Heads(img) \ {0} : img.entry[m].parent = x}
         IN  /\ Children(n) # {} => n \in Dirs(img)
             /\ n \in Dirs(img) =>
                  /\ LiveRefSet(img.entry[n]) = Children(n)
                  /\ img.entry[n].size = Cardinality(Children(n))
<1> DEFINE E == img.entry
           C == {m \in Heads(img) \ {0} : E[m].parent = n}
           e == E[n]
<1>1. E \in Table /\ \A m \in EntryIndex : E[m] \in Entry /\ E[m].size \in Nat /\ E[m].parent \in EntryIndex
      /\ E[m].flags \in {T_DIR, T_FILE, FREE}
  BY DEF Image, Table, Entry
<1>2. Listings(E, {}) /\ DirsFit(E) /\ Parents(E, {})
  BY DEF Good
<1>3. /\ \A x \in Heads(img) : x \in UsedIn(E) /\ (x # 0 => ~IsFile(E[E[x].parent]))
      /\ \A x \in UsedIn(E) \ {0} : IsDir(E[E[x].parent]) => x \in Heads(img)
  BY GoodHeads
<1>4. n \in UsedIn(E) /\ n \in EntryIndex /\ (n \in Dirs(img) <=> IsDir(e))
  BY <1>3 DEF UsedIn, Dirs, IsDir
<1> HIDE DEF E
<1>5. C # {} => IsDir(e)
  <2> SUFFICES ASSUME NEW m \in C PROVE IsDir(e)
    OBVIOUS
  <2>1. m \in UsedIn(E) \ {0} /\ E[m].parent = n /\ ~IsFile(e)
    BY <1>3
  <2> QED BY <1>1, <1>4, <2>1 DEF UsedIn, IsFile, IsDir
<1>6. ASSUME IsDir(e) PROVE LiveRefSet(e) = C /\ e.size = Cardinality(C)
  <2>1. LiveRefs(e) = 0 .. e.size - 1 /\ e.size \in Nat /\ e.size <= SFS_ENTRYREFS /\ e \in Entry
    BY <1>1, <1>2, <1>4, <1>6, DirRefs DEF DirsFit
  <2> DEFINE D == 0 .. e.size - 1
             f == [i \in D |-> e.ref[i]]
  <2>2. ASSUME NEW i \in D
        PROVE  e.ref[i] \in C /\ \A j \in D : e.ref[j] = e.ref[i] => j = i
    <3>1. /\ e.ref[i] \in UsedIn(E) \ {0} /\ E[e.ref[i]].parent = n
          /\ \A j \in 0 .. e.size - 1 : e.ref[j] = e.ref[i] => j = i
      BY <1>2, <1>4, <1>6 DEF Listings
    <3>2. e.ref[i] \in Heads(img)
      BY <1>3, <1>6, <3>1
    <3> QED BY <3>1, <3>2
  <2>3. ASSUME NEW m \in C PROVE \E i \in D : e.ref[i] = m
    <3>1. m \in UsedIn(E) \ {0} /\ E[m].parent = n
      BY <1>3
    <3> QED BY <1>2, <1>6, <3>1 DEF Parents
  <2> HIDE DEF C
  <2>4. f \in [D -> C] /\ (\A i, j \in D : f[i] = f[j] => i = j) /\ \A m \in C : \E i \in D : f[i] = m
    BY <2>2, <2>3
  <2>5. f \in Injection(D, C) /\ f \in Surjection(D, C)
    BY <2>4 DEF Injection, Surjection, IsInjective
  <2>6. IsFiniteSet(D) /\ Cardinality(D) = e.size
    <3>1. 0 \in Int /\ e.size - 1 \in Int
      BY <2>1
    <3>2. IsFiniteSet(0 .. e.size - 1) /\ Cardinality(0 .. e.size - 1) = IF 0 > e.size - 1 THEN 0 ELSE e.size - 1 - 0 + 1
      BY <3>1, FS_Interval
    <3> QED BY <2>1, <3>2
  <2>7. Cardinality(C) = Cardinality(D)
    <3> HIDE DEF D, f
    <3> QED BY <2>5, <2>6, FS_Surjection
  <2>8. LiveRefSet(e) = C
    <3>1. LiveRefSet(e) = {e.ref[i] : i \in D}
      BY <2>1 DEF LiveRefSet
    <3> QED BY <2>2, <2>3, <3>1
  <2> QED BY <2>6, <2>7, <2>8
<1> QED BY <1>4, <1>5, <1>6 DEF E

\* In a good table two heads differ in their parent or their name.
LEMMA GoodNames ==
  ASSUME NEW img \in Image, Good(img.entry, {}), NEW n \in Heads(img), NEW m \in Heads(img), n # m
  PROVE  img.entry[n].parent # img.entry[m].parent \/ img.entry[n].name # img.entry[m].name
<1> DEFINE E == img.entry
<1>1. \A x \in EntryIndex : E[x].parent \in EntryIndex /\ E[x].flags \in {T_DIR, T_FILE, FREE}
  BY DEF Image, Entry
<1>2. RootIsRoot(E) /\ StoredNames(E) /\ DirNames(E) /\ Parents(E, {})
  BY DEF Good
<1>3. \A x \in Heads(img) : x \in UsedIn(E) /\ (x # 0 => ~IsFile(E[E[x].parent]))
  BY GoodHeads
<1> HIDE DEF E
<1>4. \A x \in Heads(img) \ {0} : x \in UsedIn(E) \ {0} /\ E[x].name \in Names /\ IsDir(E[E[x].parent])
  <2> SUFFICES ASSUME NEW x \in Heads(img) \ {0}
               PROVE  x \in UsedIn(E) \ {0} /\ E[x].name \in Names /\ IsDir(E[E[x].parent])
    OBVIOUS
  <2>1. x \in UsedIn(E) \ {0} /\ x \in EntryIndex /\ ~IsFile(E[E[x].parent])
    BY <1>3 DEF UsedIn
  <2>2. E[x].parent \in EntryIndex /\ E[E[x].parent].flags # FREE
    BY <1>1, <1>2, <2>1 DEF Parents
  <2> QED BY <1>1, <1>2, <2>1, <2>2 DEF StoredNames, IsFile, IsDir
<1>5. ROOT_DIR_NAME \notin Names /\ E[0].name = ROOT_DIR_NAME
  BY <1>2, NSFSDiskAssumption DEF RootIsRoot
<1>6. CASE n # 0 /\ m # 0
  <2> SUFFICES ASSUME E[n].parent = E[m].parent PROVE E[n].name # E[m].name
    BY DEF E
  <2>1. n \in UsedIn(E) \ {0} /\ m \in UsedIn(E) \ {0} /\ IsDir(E[E[n].parent])
    BY <1>4, <1>6
  <2> QED BY <1>2, <2>1 DEF DirNames
<1>7. CASE n = 0 \/ m = 0
  <2>1. E[n].name # E[m].name
    BY <1>4, <1>5, <1>7
  <2> QED BY <2>1 DEF E
<1> QED BY <1>6, <1>7

\* The way up from an entry.
UpFrom(img, n, steps, up) ==
  /\ Ancestors(img, n, steps) = {up[i] : i \in 0 .. steps}
  /\ up[0] = n /\ \A i \in 0 .. steps - 1 : up[i + 1] = img.entry[up[i]].parent
  /\ up \in [0 .. steps -> UsedIn(img.entry)]

\* The way up from an entry is a function, and stays among used entries.
LEMMA UpFromExists ==
  ASSUME NEW img, img.entry \in Table, NEW O, Parents(img.entry, O), RootIsRoot(img.entry),
         NEW n \in UsedIn(img.entry), NEW steps \in Nat
  PROVE  \E up : UpFrom(img, n, steps, up)
<1> DEFINE E == img.entry
           U == UsedIn(E)
           g == [i \in 0 .. steps - 1 |-> [m \in U |-> E[m].parent]]
           Is(f) == f = [i \in 0 .. steps |-> IF i = 0 THEN n ELSE E[f[i - 1]].parent]
           up == CHOOSE f : Is(f)
<1>1. Ancestors(img, n, steps) = {up[i] : i \in 0 .. steps}
  BY DEF Ancestors
<1>2. \A m \in U : E[m].parent \in U
  <2> SUFFICES ASSUME NEW m \in U PROVE E[m].parent \in U
    OBVIOUS
  <2>1. m \in EntryIndex /\ E[m].parent \in EntryIndex
    BY DEF Table, UsedIn, Entry
  <2>2. CASE m = 0
    BY <2>2 DEF RootIsRoot
  <2>3. CASE m # 0
    BY <2>1, <2>3 DEF Parents, UsedIn
  <2> QED BY <2>2, <2>3
<1> HIDE DEF E, U
<1>3. PICK f \in [0 .. steps -> U] : f = [i \in 0 .. steps |-> IF i = 0 THEN n ELSE g[i - 1][f[i - 1]]]
  <2>1. IsRule(steps, U, n, g)
    BY <1>2 DEF IsRule, U, E
  <2> HIDE DEF g
  <2> QED BY <2>1, RecursiveFunction
<1>4. Is(f)
  <2>1. ASSUME NEW i \in 0 .. steps PROVE f[i] = IF i = 0 THEN n ELSE E[f[i - 1]].parent
    <3>1. CASE i = 0
      BY <1>3, <3>1
    <3>2. CASE i # 0
      <4>1. i - 1 \in 0 .. steps - 1 /\ i - 1 \in 0 .. steps
        BY <3>2
      <4>2. f[i] = g[i - 1][f[i - 1]] /\ f[i - 1] \in U
        BY <1>3, <3>2, <4>1
      <4> QED BY <3>2, <4>1, <4>2
    <3> QED BY <3>1, <3>2
  <2> QED BY <1>3, <2>1
<1>5. Is(up)
  <2> HIDE DEF Is
  <2> QED BY <1>4
<1> HIDE DEF up, g
<1>6. up[0] = n /\ up = [i \in 0 .. steps |-> IF i = 0 THEN n ELSE E[up[i - 1]].parent]
  BY <1>5
<1>7. ASSUME NEW i \in 0 .. steps - 1 PROVE up[i + 1] = E[up[i]].parent
  <2> DEFINE m == i + 1
  <2>1. m \in 0 .. steps /\ m # 0 /\ m - 1 = i /\ m = i + 1
    OBVIOUS
  <2> HIDE DEF m
  <2>2. up[m] = E[up[m - 1]].parent
    BY <1>6, <2>1
  <2> QED BY <2>1, <2>2
<1> DEFINE S == {i \in 0 .. steps : up[i] \in U}
<1>8. \A i \in 0 .. steps : i \in S
  <2>1. 0 \in S
    BY <1>6 DEF U, E
  <2>2. \A i \in 0 .. steps - 1 : i \in S => i + 1 \in S
    BY <1>2, <1>7
  <2> HIDE DEF S
  <2> QED BY <2>1, <2>2, UpTo
<1>9. up \in [0 .. steps -> U]
  BY <1>6, <1>8
<1> QED BY <1>1, <1>6, <1>7, <1>9 DEF UpFrom, E, U

\* In a good table the way up from every used entry ends at the root: it visits no entry
\* twice before, and there are NEntries of them.
LEMMA GoodRooted ==
  ASSUME NEW img \in Image, Good(img.entry, {}), NEW n \in Used(img)
  PROVE  0 \in Ancestors(img, n, NEntries) /\ Ancestors(img, n, NEntries) \subseteq Used(img)
<1> DEFINE E == img.entry
           N == NEntries
<1>1. E \in Table /\ N \in Nat /\ n \in UsedIn(E) /\ Used(img) = UsedIn(E) /\ UsedIn(E) \subseteq EntryIndex
  BY NSFSDiskAssumption DEF Image, Table, Used, UsedIn
<1>2. PICK up : UpFrom(img, n, N, up)
  <2>1. Parents(E, {}) /\ RootIsRoot(E)
    BY DEF Good
  <2> QED BY <1>1, <2>1, UpFromExists
<1> HIDE DEF E, N
<1>3. /\ Ancestors(img, n, N) = {up[i] : i \in 0 .. N} /\ up \in [0 .. N -> UsedIn(E)]
      /\ \A i \in 0 .. N - 1 : up[i + 1] = E[up[i]].parent
  BY <1>2 DEF UpFrom, E
<1>4. PICK i, j \in 0 .. N : i < j /\ up[i] = up[j]
  <2>1. IsFiniteSet(0 .. N) /\ Cardinality(0 .. N) = N + 1
    <3>1. 0 \in Int /\ N \in Int
      BY <1>1
    <3>2. IsFiniteSet(0 .. N) /\ Cardinality(0 .. N) = IF 0 > N THEN 0 ELSE N - 0 + 1
      BY <3>1, FS_Interval
    <3> QED BY <1>1, <3>2
  <2>2. IsFiniteSet(EntryIndex) /\ Cardinality(EntryIndex) = N
    <3>1. 0 \in Int /\ N - 1 \in Int
      BY <1>1
    <3>2. IsFiniteSet(0 .. N - 1) /\ Cardinality(0 .. N - 1) = IF 0 > N - 1 THEN 0 ELSE N - 1 - 0 + 1
      BY <3>1, FS_Interval
    <3> QED BY <1>1, <3>2 DEF EntryIndex, N
  <2>3. Cardinality(EntryIndex) < Cardinality(0 .. N)
    BY <1>1, <2>1, <2>2
  <2>4. up \in [0 .. N -> EntryIndex]
    BY <1>1, <1>3
  <2>5. PICK x, y \in 0 .. N : x # y /\ up[x] = up[y]
    BY <2>1, <2>2, <2>3, <2>4, FS_PigeonHole
  <2>6. x < y \/ y < x
    BY <1>1, <2>5
  <2> QED BY <2>5, <2>6
<1> DEFINE S == {up[x] : x \in 0 .. j - 1}
<1>5. S \in SUBSET UsedIn(E) /\ S # {}
  <2>1. \A x \in 0 .. j - 1 : x \in 0 .. N
    BY <1>1
  <2>2. 0 \in 0 .. j - 1
    BY <1>1, <1>4
  <2> QED BY <1>3, <2>1, <2>2
<1>6. ASSUME NEW m \in S PROVE E[m].parent \in S
  <2>1. PICK x \in 0 .. j - 1 : m = up[x]
    OBVIOUS
  <2>2. x \in 0 .. N - 1 /\ up[x + 1] = E[m].parent
    BY <1>1, <1>3, <2>1
  <2>3. CASE x = j - 1
    <3>1. x + 1 = j /\ i \in 0 .. j - 1
      BY <1>1, <1>4, <2>3
    <3> QED BY <1>4, <2>2, <3>1
  <2>4. CASE x # j - 1
    <3>1. x + 1 \in 0 .. j - 1
      BY <1>1, <2>4
    <3> QED BY <2>2, <3>1
  <2> QED BY <2>3, <2>4
<1>7. 0 \in S
  <2>1. Rooted(E)
    BY DEF Good, E
  <2>2. \A m \in S : E[m].parent \in S
    BY <1>6
  <2> DEFINE Closed(T) == T # {} /\ \A m \in T : E[m].parent \in T
  <2>3. \A T \in SUBSET UsedIn(E) : Closed(T) => 0 \in T
    BY <2>1 DEF Rooted
  <2>4. Closed(S)
    BY <1>5, <2>2
  <2> HIDE DEF S, Closed
  <2> QED BY <1>5, <2>3, <2>4
<1>8. S \subseteq {up[x] : x \in 0 .. N}
  BY <1>1
<1> QED BY <1>1, <1>3, <1>7, <1>8 DEF N

\* A disk whose table is good keeps every promise of the format.
LEMMA GoodPromises ==
  ASSUME disk \in [Disks -> Image], IInv
  PROVE  Sound /\ NoDataOverTable
<1>1. ASSUME NEW d \in Disks PROVE disk[d] \in Image /\ Good(disk[d].entry, {}) /\ disk[d].smashed = {}
  BY DEF IInv
<1>2. BlocksOwnedOnce
  BY <1>1, GoodOwned DEF BlocksOwnedOnce
<1>3. DeadRefsAreZero
  BY <1>1 DEF DeadRefsAreZero, Good, Refs
<1>4. ChainsCarryTheSize
  BY <1>1, GoodChains DEF ChainsCarryTheSize
<1>5. ListingsMatchLookups
  BY <1>1, GoodListings DEF ListingsMatchLookups
<1>6. EveryEntryUnderRoot
  BY <1>1, GoodRooted DEF EveryEntryUnderRoot
<1>7. NamesAreUnique
  BY <1>1, GoodNames DEF NamesAreUnique
<1>8. NoDataOverTable
  BY <1>1 DEF NoDataOverTable, Readable
<1> QED BY <1>2, <1>3, <1>4, <1>5, <1>6, <1>7, <1>8 DEF Sound

-----------------------------------------------------------------------------
(* Deleting.  delete_n, by the depth of what is deleted. *)

\* The depths of delete_n.
DeleteRuns(s, d, n, v) ==
  /\ delete_n(s, d, n) = v[NEntries][s][n]
  /\ v[0] = [t \in CallStates |-> [x \in EntryIndex |-> Return(t, ERROR_IO)]]
  /\ \A i \in 0 .. NEntries - 1 : v[i + 1] = [t \in CallStates |-> [x \in EntryIndex |-> DeleteWith(v[i], t, d, x)]]

\* The rounds of this loop are a function that exists and is the one the operator evaluates.
LEMMA DeleteRunsExist ==
  ASSUME NEW s, NEW d, NEW n
  PROVE  \E v : DeleteRuns(s, d, n, v)
<1> DEFINE a == [t \in CallStates |-> [x \in EntryIndex |-> Return(t, ERROR_IO)]]
           Round(z, i) == [t \in CallStates |-> [x \in EntryIndex |-> DeleteWith(z, t, d, x)]]
           Is(m, f) == f = [i \in 0 .. m |-> IF i = 0 THEN a ELSE Round(f[i - 1], i)]
           S == {m \in 0 .. NEntries : \E f : Is(m, f)}
           v == CHOOSE f : Is(NEntries, f)
<1>1. NEntries \in Nat
  BY NSFSDiskAssumption
<1>2. delete_n(s, d, n) = v[NEntries][s][n]
  BY DEF delete_n, Rounds
<1> HIDE DEF a, Round
<1>3. 0 \in S
  <2>1. Is(0, [i \in 0 .. 0 |-> a])
    OBVIOUS
  <2> HIDE DEF Is
  <2> QED BY <1>1, <2>1
<1>4. ASSUME NEW m \in 0 .. NEntries - 1, m \in S PROVE m + 1 \in S
  <2>1. PICK f : Is(m, f)
    BY <1>4
  <2> DEFINE h == [i \in 0 .. m + 1 |-> IF i = m + 1 THEN Round(f[m], m + 1) ELSE f[i]]
  <2>2. \A i \in 0 .. m : h[i] = f[i] /\ f[i] = IF i = 0 THEN a ELSE Round(f[i - 1], i)
    BY <2>1
  <2>3. h[m + 1] = Round(f[m], m + 1)
    OBVIOUS
  <2>4. \A i \in 0 .. m + 1 : h[i] = IF i = 0 THEN a ELSE Round(h[i - 1], i)
    <3> SUFFICES ASSUME NEW i \in 0 .. m + 1 PROVE h[i] = IF i = 0 THEN a ELSE Round(h[i - 1], i)
      OBVIOUS
    <3> HIDE DEF h
    <3>1. CASE i = 0
      BY <2>2, <3>1
    <3>2. CASE i \in 1 .. m
      <4>1. i - 1 \in 0 .. m /\ i \in 0 .. m /\ i # 0
        BY <3>2
      <4>2. h[i - 1] = f[i - 1] /\ h[i] = Round(f[i - 1], i)
        BY <2>2, <4>1
      <4> QED BY <4>1, <4>2
    <3>3. CASE i = m + 1
      <4>1. i - 1 = m /\ m \in 0 .. m /\ i # 0
        BY <3>3
      <4>2. h[i - 1] = f[m] /\ h[i] = Round(f[m], i)
        BY <2>2, <2>3, <3>3, <4>1
      <4> QED BY <4>1, <4>2
    <3> QED BY <3>1, <3>2, <3>3
  <2>5. Is(m + 1, h)
    BY <2>4
  <2> HIDE DEF Is
  <2> QED BY <1>1, <2>5
<1> HIDE DEF Is
<1>5. \A m \in 0 .. NEntries : m \in S
  <2> HIDE DEF S
  <2> QED BY <1>1, <1>3, <1>4, UpTo
<1>6. Is(NEntries, v)
  <2>1. \E f : Is(NEntries, f)
    BY <1>1, <1>5
  <2> QED BY <2>1
<1>7. v = [i \in 0 .. NEntries |-> IF i = 0 THEN a ELSE Round(v[i - 1], i)]
  BY <1>6 DEF Is
<1> HIDE DEF v
<1>8. v[0] = a
  BY <1>1, <1>7
<1>9. ASSUME NEW i \in 0 .. NEntries - 1 PROVE v[i + 1] = Round(v[i], i + 1)
  <2> DEFINE m == i + 1
  <2>1. m \in 0 .. NEntries /\ m # 0 /\ m - 1 = i
    BY <1>1
  <2>2. m = i + 1
    OBVIOUS
  <2> HIDE DEF m
  <2>3. v[m] = Round(v[m - 1], m)
    BY <1>7, <2>1
  <2> QED BY <2>1, <2>2, <2>3
<1> QED BY <1>2, <1>8, <1>9 DEF a, Round, DeleteRuns

\* The loop over the entries of a directory.
ChildRuns(s, delete, e, count, v) ==
  /\ ForEach(s, count, LAMBDA u, j : delete[u][e.ref[j - 1]]) = v[count]
  /\ v[0] = s
  /\ \A i \in 0 .. count - 1 : v[i + 1] = (IF Failed(v[i].res) THEN v[i] ELSE delete[v[i]][e.ref[(i + 1) - 1]])

\* The rounds of this loop are a function that exists and is the one the operator evaluates.
LEMMA ChildRunsExist ==
  ASSUME NEW s, NEW delete, NEW e, NEW count, count \in Nat
  PROVE  \E v : ChildRuns(s, delete, e, count, v)
<1> DEFINE a == s
           Round(z, i) == (IF Failed(z.res) THEN z ELSE delete[z][e.ref[i - 1]])
           Is(m, f) == f = [i \in 0 .. m |-> IF i = 0 THEN a ELSE Round(f[i - 1], i)]
           S == {m \in 0 .. count : \E f : Is(m, f)}
           v == CHOOSE f : Is(count, f)
<1>1. count \in Nat
  OBVIOUS
<1>2. ForEach(s, count, LAMBDA u, j : delete[u][e.ref[j - 1]]) = v[count]
  BY DEF ForEach, Then
<1> HIDE DEF a, Round
<1>3. 0 \in S
  <2>1. Is(0, [i \in 0 .. 0 |-> a])
    OBVIOUS
  <2> HIDE DEF Is
  <2> QED BY <1>1, <2>1
<1>4. ASSUME NEW m \in 0 .. count - 1, m \in S PROVE m + 1 \in S
  <2>1. PICK f : Is(m, f)
    BY <1>4
  <2> DEFINE h == [i \in 0 .. m + 1 |-> IF i = m + 1 THEN Round(f[m], m + 1) ELSE f[i]]
  <2>2. \A i \in 0 .. m : h[i] = f[i] /\ f[i] = IF i = 0 THEN a ELSE Round(f[i - 1], i)
    BY <2>1
  <2>3. h[m + 1] = Round(f[m], m + 1)
    OBVIOUS
  <2>4. \A i \in 0 .. m + 1 : h[i] = IF i = 0 THEN a ELSE Round(h[i - 1], i)
    <3> SUFFICES ASSUME NEW i \in 0 .. m + 1 PROVE h[i] = IF i = 0 THEN a ELSE Round(h[i - 1], i)
      OBVIOUS
    <3> HIDE DEF h
    <3>1. CASE i = 0
      BY <2>2, <3>1
    <3>2. CASE i \in 1 .. m
      <4>1. i - 1 \in 0 .. m /\ i \in 0 .. m /\ i # 0
        BY <3>2
      <4>2. h[i - 1] = f[i - 1] /\ h[i] = Round(f[i - 1], i)
        BY <2>2, <4>1
      <4> QED BY <4>1, <4>2
    <3>3. CASE i = m + 1
      <4>1. i - 1 = m /\ m \in 0 .. m /\ i # 0
        BY <3>3
      <4>2. h[i - 1] = f[m] /\ h[i] = Round(f[m], i)
        BY <2>2, <2>3, <3>3, <4>1
      <4> QED BY <4>1, <4>2
    <3> QED BY <3>1, <3>2, <3>3
  <2>5. Is(m + 1, h)
    BY <2>4
  <2> HIDE DEF Is
  <2> QED BY <1>1, <2>5
<1> HIDE DEF Is
<1>5. \A m \in 0 .. count : m \in S
  <2> HIDE DEF S
  <2> QED BY <1>1, <1>3, <1>4, UpTo
<1>6. Is(count, v)
  <2>1. \E f : Is(count, f)
    BY <1>1, <1>5
  <2> QED BY <2>1
<1>7. v = [i \in 0 .. count |-> IF i = 0 THEN a ELSE Round(v[i - 1], i)]
  BY <1>6 DEF Is
<1> HIDE DEF v
<1>8. v[0] = a
  BY <1>1, <1>7
<1>9. ASSUME NEW i \in 0 .. count - 1 PROVE v[i + 1] = Round(v[i], i + 1)
  <2> DEFINE m == i + 1
  <2>1. m \in 0 .. count /\ m # 0 /\ m - 1 = i
    BY <1>1
  <2>2. m = i + 1
    OBVIOUS
  <2> HIDE DEF m
  <2>3. v[m] = Round(v[m - 1], m)
    BY <1>7, <2>1
  <2> QED BY <2>1, <2>2, <2>3
<1> QED BY <1>2, <1>8, <1>9 DEF a, Round, ChildRuns

\* What the deletion of a file's entry comes to, when nothing fails.
LEMMA DeleteFile ==
  ASSUME NEW delete, NEW s, NEW d, NEW n, NEW e, e = At(s, d, n), e.flags = T_FILE,
         NEW r, r = remove_ref_in_entry(s, d, e.parent, n), ~Failed(r.res),
         NEW u, u = IF e.next = 0 THEN r ELSE delete[r][e.next], ~Failed(u.res)
  PROVE  DeleteWith(delete, s, d, n) = write_entry(u, d, n, ZeroEntry)
<1> DEFINE Children == IF At(s, d, n).flags = T_DIR THEN Least(At(s, d, n).size, SFS_ENTRYREFS) ELSE 0
           DeleteAll(t) == ForEach(t, Children, LAMBDA x, i : delete[x][At(s, d, n).ref[i - 1]])
           DeleteRest(t) == IF At(s, d, n).next = 0 THEN t ELSE delete[t][At(s, d, n).next]
           Clear(t) == write_entry(t, d, n, ZeroEntry)
<1>1. DeleteWith(delete, s, d, n) =
        Then(Then(Then(remove_ref_in_entry(s, d, At(s, d, n).parent, n), DeleteAll), DeleteRest), Clear)
  BY DEF DeleteWith
<1>2. Children = 0
  BY DEF T_FILE, T_DIR
<1>3. DeleteAll(r) = r
  <2>1. PICK v : ChildRuns(r, delete, At(s, d, n), 0, v)
    BY ChildRunsExist
  <2>2. ForEach(r, 0, LAMBDA x, i : delete[x][At(s, d, n).ref[i - 1]]) = v[0] /\ v[0] = r
    BY <2>1 DEF ChildRuns
  <2> HIDE DEF Children
  <2>3. DeleteAll(r) = ForEach(r, 0, LAMBDA x, i : delete[x][At(s, d, n).ref[i - 1]])
    BY <1>2
  <2> QED BY <2>2, <2>3
<1>4. DeleteRest(r) = u /\ Clear(u) = write_entry(u, d, n, ZeroEntry)
  OBVIOUS
<1> HIDE DEF DeleteAll, DeleteRest, Clear
<1>5. Then(r, DeleteAll) = r
  BY <1>3 DEF Then
<1>6. Then(r, DeleteRest) = u
  BY <1>4 DEF Then
<1>7. Then(u, Clear) = write_entry(u, d, n, ZeroEntry)
  BY <1>4 DEF Then
<1> QED BY <1>1, <1>5, <1>6, <1>7

\* And that of a directory's.
LEMMA DeleteDirectory ==
  ASSUME NEW delete, NEW s, NEW d, NEW n, NEW e, e = At(s, d, n), e.flags = T_DIR, e.next = 0,
         e.size \in Nat, e.size <= SFS_ENTRYREFS,
         NEW r, r = remove_ref_in_entry(s, d, e.parent, n), ~Failed(r.res)
  PROVE  \E v : /\ v[0] = r
                /\ \A i \in 0 .. e.size - 1 : ~Failed(v[i].res) => v[i + 1] = delete[v[i]][e.ref[i]]
                /\ ~Failed(v[e.size].res) => DeleteWith(delete, s, d, n) = write_entry(v[e.size], d, n, ZeroEntry)
<1> DEFINE Children == IF At(s, d, n).flags = T_DIR THEN Least(At(s, d, n).size, SFS_ENTRYREFS) ELSE 0
           DeleteAll(t) == ForEach(t, Children, LAMBDA x, i : delete[x][At(s, d, n).ref[i - 1]])
           DeleteRest(t) == IF At(s, d, n).next = 0 THEN t ELSE delete[t][At(s, d, n).next]
           Clear(t) == write_entry(t, d, n, ZeroEntry)
<1>1. DeleteWith(delete, s, d, n) =
        Then(Then(Then(remove_ref_in_entry(s, d, At(s, d, n).parent, n), DeleteAll), DeleteRest), Clear)
  BY DEF DeleteWith
<1>2. Children = e.size
  BY Numbers DEF Least
<1>3. PICK v : ChildRuns(r, delete, At(s, d, n), e.size, v)
  BY ChildRunsExist
<1>4. DeleteAll(r) = v[e.size]
  <2>1. ForEach(r, e.size, LAMBDA x, i : delete[x][At(s, d, n).ref[i - 1]]) = v[e.size]
    BY <1>3 DEF ChildRuns
  <2> HIDE DEF Children
  <2>2. DeleteAll(r) = ForEach(r, e.size, LAMBDA x, i : delete[x][At(s, d, n).ref[i - 1]])
    BY <1>2
  <2> QED BY <2>1, <2>2
<1>5. ASSUME NEW i \in 0 .. e.size - 1, ~Failed(v[i].res) PROVE v[i + 1] = delete[v[i]][e.ref[i]]
  <2>1. v[i + 1] = IF Failed(v[i].res) THEN v[i] ELSE delete[v[i]][e.ref[(i + 1) - 1]]
    BY <1>3 DEF ChildRuns
  <2>2. (i + 1) - 1 = i
    OBVIOUS
  <2> QED BY <1>5, <2>1, <2>2
<1>6. \A t : DeleteRest(t) = t
  OBVIOUS
<1>7. \A t : Clear(t) = write_entry(t, d, n, ZeroEntry)
  OBVIOUS
<1> HIDE DEF DeleteAll, DeleteRest, Clear
<1>8. Then(r, DeleteAll) = v[e.size]
  BY <1>4 DEF Then
<1>9. Then(v[e.size], DeleteRest) = v[e.size]
  BY <1>6 DEF Then
<1>10. ~Failed(v[e.size].res) => Then(v[e.size], Clear) = write_entry(v[e.size], d, n, ZeroEntry)
  BY <1>7 DEF Then
<1>11. v[0] = r
  BY <1>3 DEF ChildRuns
<1>12. ~Failed(v[e.size].res) => DeleteWith(delete, s, d, n) = write_entry(v[e.size], d, n, ZeroEntry)
  BY <1>1, <1>8, <1>9, <1>10
<1> QED BY <1>5, <1>11, <1>12

\* v[q] is delete_n no deeper than q.
Deletes(v, d) ==
  \A q \in 0 .. NEntries - 1 : \A t \in CallStates, x \in EntryIndex :
    v[q + 1][t][x] = DeleteWith(v[q], t, d, x)

\* The entries c[j] .. c[k] of a chain.
From(c, j, k) == {c[i] : i \in j .. k}

\* Zeroing the empty end of a chain changes nothing.
LEMMA ZeroedNone ==
  ASSUME NEW E \in Table, NEW c, NEW k \in Nat, NEW j \in Nat, j > k
  PROVE  Zeroed(E, From(c, j, k)) = E
<1>1. From(c, j, k) = {}
  BY DEF From
<1> QED BY <1>1 DEF Zeroed, Table

\* Zeroing one more entry.
LEMMA ZeroedOne ==
  ASSUME NEW E \in Table, NEW Z, NEW n \in EntryIndex
  PROVE  [Zeroed(E, Z) EXCEPT ![n] = ZeroEntry] = Zeroed(E, Z \cup {n})
BY DEF Zeroed

\* The end of a chain, one entry earlier.
LEMMA FromNext ==
  ASSUME NEW c, NEW k \in Nat, NEW j \in 0 .. k
  PROVE  From(c, j, k) = From(c, j + 1, k) \cup {c[j]}
<1>1. \A i : i \in j .. k <=> i \in j + 1 .. k \/ i = j
  OBVIOUS
<1> QED BY <1>1 DEF From

\* The deletion of c[j] and of what follows it.
TailGoes(v, D, d, E, c, j, k) ==
  \A s, q : On(s, D, d, E) /\ ~Failed(s.res) /\ q \in 0 .. NEntries /\ q > k - j
            => /\ On(v[q][s][c[j]], D, d, Zeroed(E, From(c, j, k)))
               /\ v[q][s][c[j]].res = NO_ERROR

\* A call of delete_n for a chained entry, if the calls for the entries after it are right.
LEMMA DeleteTailOnce ==
  ASSUME NEW d \in Disks, NEW D, NEW E \in Table, Chains(E), Refs(E), NEW n, NEW k \in Nat, NEW c, FileChain(E, n, c, k),
         NEW v, Deletes(v, d), NEW j \in 1 .. k, j < k => TailGoes(v, D, d, E, c, j + 1, k)
  PROVE  TailGoes(v, D, d, E, c, j, k)
<1> SUFFICES ASSUME NEW s, NEW q \in 0 .. NEntries, On(s, D, d, E), ~Failed(s.res), q > k - j
             PROVE  /\ On(v[q][s][c[j]], D, d, Zeroed(E, From(c, j, k)))
                    /\ v[q][s][c[j]].res = NO_ERROR
  BY DEF TailGoes
<1>1. NEntries \in Nat /\ j \in Nat /\ j \in 0 .. k /\ j - 1 \in 0 .. k /\ j - 1 \in 0 .. k - 1
  BY NSFSDiskAssumption
<1>2. /\ c \in [0 .. k -> EntryIndex] /\ E[c[k]].next = 0
      /\ \A i \in 0 .. k : IsFile(E[c[i]])
      /\ \A i \in 0 .. k - 1 : E[c[i]].next = c[i + 1] /\ c[i + 1] # 0 /\ E[c[i + 1]].parent = c[i]
  BY DEF FileChain, Linked
<1> DEFINE e == E[c[j]]
           p == c[j - 1]
           r == remove_ref_in_entry(s, d, e.parent, c[j])
           u == IF e.next = 0 THEN r ELSE v[q - 1][r][e.next]
           w == write_entry(u, d, c[j], ZeroEntry)
<1>3. c[j] \in EntryIndex /\ p \in EntryIndex /\ IsFile(E[p]) /\ IsFile(e) /\ e.flags = T_FILE /\ At(s, d, c[j]) = e
  BY <1>1, <1>2, OnTypes DEF IsFile
<1>4. e.parent = p /\ c[j] # 0
  <2> DEFINE i == j - 1
  <2>1. i \in 0 .. k - 1 /\ i + 1 = j
    BY <1>1
  <2>2. E[c[i + 1]].parent = c[i] /\ c[i + 1] # 0
    BY <1>2, <2>1
  <2> QED BY <2>1, <2>2
<1>5. On(r, D, d, E) /\ r.res = NO_ERROR
  <2>1. ASSUME NEW m \in EntryIndex, IsFile(E[m]), NEW i \in RefIndex PROVE E[m].ref[i] # c[j]
    <3>1. E[m].ref[i] \in {0} \cup DataBlocks
      BY <2>1 DEF Refs
    <3> QED BY <1>3, <1>4, <3>1, Numbers
  <2>2. \A m \in EntryIndex : IsFile(E[m]) => \A i \in RefIndex : E[m].ref[i] # c[j]
    BY <2>1
  <2>3. On(remove_ref_in_entry(s, d, p, c[j]), D, d, E) /\ remove_ref_in_entry(s, d, p, c[j]).res = NO_ERROR
    BY <1>3, <2>2, RemoveNothing
  <2> QED BY <1>4, <2>3
<1>5a. ~Failed(r.res)
  BY <1>5 DEF Failed, NO_ERROR
<1> HIDE DEF r
<1>6. On(u, D, d, Zeroed(E, From(c, j + 1, k))) /\ u.res = NO_ERROR
  <2>1. CASE j = k
    <3>1. u = r
      BY <1>2, <2>1
    <3>2. Zeroed(E, From(c, j + 1, k)) = E
      BY <1>1, <2>1, ZeroedNone
    <3> QED BY <1>5, <3>1, <3>2
  <2>2. CASE j < k
    <3>1. e.next = c[j + 1] /\ c[j + 1] # 0
      BY <1>1, <1>2, <2>2
    <3>2. u = v[q - 1][r][c[j + 1]]
      BY <3>1
    <3>3. q - 1 \in 0 .. NEntries /\ q - 1 > k - (j + 1)
      BY <1>1, <2>2
    <3>4. TailGoes(v, D, d, E, c, j + 1, k)
      BY <2>2
    <3> HIDE DEF u
    <3> QED BY <1>5, <1>5a, <3>2, <3>3, <3>4 DEF TailGoes
  <2> QED BY <1>1, <2>1, <2>2
<1> HIDE DEF u
<1>7. ~Failed(u.res)
  BY <1>6 DEF Failed, NO_ERROR
<1>8. On(w, D, d, Zeroed(E, From(c, j, k))) /\ w.res = NO_ERROR
  <2>1. On(w, D, d, [Zeroed(E, From(c, j + 1, k)) EXCEPT ![c[j]] = ZeroEntry]) /\ w.res = NO_ERROR
    BY <1>3, <1>6, WriteEntry, ZeroIsEntry
  <2>2. From(c, j, k) = From(c, j + 1, k) \cup {c[j]}
    BY <1>1, FromNext
  <2>3. [Zeroed(E, From(c, j + 1, k)) EXCEPT ![c[j]] = ZeroEntry] = Zeroed(E, From(c, j, k))
    <3> DEFINE Z == From(c, j + 1, k)
               y == c[j]
    <3>1. y \in EntryIndex /\ From(c, j, k) = Z \cup {y}
      BY <1>3, <2>2
    <3> HIDE DEF Z, y
    <3>2. [Zeroed(E, Z) EXCEPT ![y] = ZeroEntry] = Zeroed(E, Z \cup {y})
      BY <3>1, ZeroedOne
    <3> QED BY <3>1, <3>2 DEF Z, y
  <2> HIDE DEF w
  <2> QED BY <2>1, <2>3
<1>9. v[q][s][c[j]] = w
  <2> DEFINE b == q - 1
  <2>1. b \in 0 .. NEntries - 1 /\ b + 1 = q
    BY <1>1
  <2>2. s \in CallStates
    BY DEF On
  <2>3. v[q][s][c[j]] = DeleteWith(v[b], s, d, c[j])
    BY <1>3, <2>1, <2>2 DEF Deletes
  <2>4. r = remove_ref_in_entry(s, d, e.parent, c[j])
    BY DEF r
  <2>5. u = IF e.next = 0 THEN r ELSE v[b][r][e.next]
    BY DEF u
  <2> HIDE DEF e, w, b
  <2>6. DeleteWith(v[b], s, d, c[j]) = write_entry(u, d, c[j], ZeroEntry)
    BY <1>3, <1>5a, <1>7, <2>4, <2>5, DeleteFile
  <2> QED BY <2>3, <2>6 DEF w
<1> QED BY <1>8, <1>9

\* The calls of delete_n for the chained entries of a file zero them all.
LEMMA DeleteTail ==
  ASSUME NEW d \in Disks, NEW D, NEW E \in Table, Chains(E), Refs(E), NEW n, NEW k \in Nat, NEW c, FileChain(E, n, c, k),
         NEW v, Deletes(v, d), k > 0
  PROVE  TailGoes(v, D, d, E, c, 1, k)
<1> DEFINE S == {x \in 0 .. k - 1 : TailGoes(v, D, d, E, c, k - x, k)}
<1>1. 0 \in S
  <2>1. k \in 1 .. k /\ ~(k < k) /\ k - 0 = k /\ 0 \in 0 .. k - 1
    OBVIOUS
  <2>2. TailGoes(v, D, d, E, c, k, k)
    BY <2>1, DeleteTailOnce
  <2> QED BY <2>1, <2>2
<1>2. ASSUME NEW x \in 0 .. (k - 1) - 1, x \in S PROVE x + 1 \in S
  <2> DEFINE j == k - (x + 1)
  <2>1. j \in 1 .. k /\ j + 1 = k - x /\ x + 1 \in 0 .. k - 1
    OBVIOUS
  <2>2. TailGoes(v, D, d, E, c, k - x, k)
    BY <1>2
  <2> HIDE DEF j
  <2>3. TailGoes(v, D, d, E, c, j, k)
    BY <2>1, <2>2, DeleteTailOnce
  <2> QED BY <2>1, <2>3 DEF j
<1>3. \A x \in 0 .. k - 1 : x \in S
  <2>1. k - 1 \in Nat
    OBVIOUS
  <2> HIDE DEF S
  <2> QED BY <1>1, <1>2, <2>1, UpTo
<1>4. k - 1 \in S /\ k - (k - 1) = 1
  BY <1>3
<1> QED BY <1>4

\* Entries with which those above them are.
Upward(E, K) == K \subseteq UsedIn(E) /\ 0 \in K /\ \A m \in K : E[m].parent \in K

\* Before entry n is deleted: the entries O are unlisted already, and K is kept.
Before(s, D, d, E, O, K, n, q) ==
  /\ On(s, D, d, E) /\ ~Failed(s.res) /\ Good(E, O) /\ Upward(E, K) /\ O \subseteq K \ {0}
  /\ n \in UsedIn(E) \ K /\ E[n].parent \in K /\ IsDir(E[E[n].parent])
  /\ Cardinality(UsedIn(E) \ O) <= q

\* And after.
Gone(E, F, K, n) ==
  /\ \E k \in 0 .. E[E[n].parent].size - 1 :
       E[E[n].parent].ref[k] = n /\ F[E[n].parent] = Minus(E[E[n].parent], k)
  /\ \A m \in K \ {E[n].parent} : F[m] = E[m]
  /\ \A m \in EntryIndex \ {E[n].parent} : F[m] = E[m] \/ F[m] = ZeroEntry
After(t, D, d, E, O, K, n) ==
  t.res = NO_ERROR /\ \E F : On(t, D, d, F) /\ Good(F, O) /\ Gone(E, F, K, n)

\* F is the table E after the parent of n has lost its reference number k, which was n.
Unlisted(s, D, d, E, O, n, k, F) ==
  /\ k \in 0 .. E[E[n].parent].size - 1 /\ E[E[n].parent].ref[k] = n
  /\ F \in Table /\ F = [E EXCEPT ![E[n].parent] = Minus(E[E[n].parent], k)]
  /\ On(remove_ref_in_entry(s, d, E[n].parent, n), D, d, F)
  /\ remove_ref_in_entry(s, d, E[n].parent, n).res = NO_ERROR
  /\ Good(F, O \cup {n})

\* The first step of delete_n and of a move: the parent loses its reference.
LEMMA Unlist ==
  ASSUME NEW d \in Disks, NEW D, NEW E, NEW s, On(s, D, d, E), ~Failed(s.res), NEW O \in SUBSET EntryIndex, Good(E, O),
         NEW n \in UsedIn(E) \ {0}, n \notin O, IsDir(E[E[n].parent])
  PROVE  \E k : \E F : Unlisted(s, D, d, E, O, n, k, F)
<1> DEFINE p == E[n].parent
<1>1. E \in Table /\ n \in EntryIndex /\ p \in EntryIndex /\ E[p].size \in Nat
  BY OnTypes DEF Table, UsedIn, Entry
<1>2. PICK k \in 0 .. E[p].size - 1 : E[p].ref[k] = n
  BY DEF Good, Parents
<1>3. E[p].next = 0 /\ E[p].size <= SFS_ENTRYREFS
  BY <1>1 DEF Good, DirsFit
<1>4. \A j \in 0 .. k - 1 : E[p].ref[j] # n
  <2>1. \A j \in 0 .. E[p].size - 1 : E[p].ref[j] = E[p].ref[k] => j = k
    BY <1>1, <1>2 DEF Good, Listings
  <2>2. \A j \in 0 .. k - 1 : j \in 0 .. E[p].size - 1 /\ j # k
    BY <1>1
  <2> QED BY <1>2, <2>1, <2>2
<1>5. \A j \in RefIndex \ LiveRefs(E[p]) : E[p].ref[j] = 0
  BY <1>1 DEF Good, Refs
<1> DEFINE F == [E EXCEPT ![p] = Minus(E[p], k)]
<1>6. On(remove_ref_in_entry(s, d, p, n), D, d, F) /\ remove_ref_in_entry(s, d, p, n).res = NO_ERROR
  BY <1>1, <1>2, <1>3, <1>4, <1>5, RemoveRef
<1>7. F \in Table /\ Good(F, O \cup {n})
  BY <1>1, <1>2, Unlink
<1>8. Unlisted(s, D, d, E, O, n, k, F)
  BY <1>2, <1>6, <1>7 DEF Unlisted
<1> QED BY <1>8

\* The used entries can be counted.
LEMMA UsedFinite ==
  ASSUME NEW E, NEW O
  PROVE  IsFiniteSet(UsedIn(E) \ O) /\ Cardinality(UsedIn(E) \ O) \in Nat
<1>1. NEntries \in Nat /\ 0 \in Int /\ NEntries - 1 \in Int
  BY NSFSDiskAssumption
<1>2. IsFiniteSet(EntryIndex)
  BY <1>1, FS_Interval DEF EntryIndex
<1>3. UsedIn(E) \ O \in SUBSET EntryIndex
  BY DEF UsedIn
<1>4. IsFiniteSet(UsedIn(E) \ O)
  BY <1>2, <1>3, FS_Subset
<1> QED BY <1>4, FS_CardinalityType

\* Tables that differ in what one directory lists.
SameBut(E, F, p) ==
  /\ UsedIn(F) = UsedIn(E) /\ p \in EntryIndex
  /\ \A m \in EntryIndex : m # p => F[m] = E[m]
  /\ \A m \in EntryIndex : F[m].flags = E[m].flags /\ F[m].parent = E[m].parent

\* That step changes the parent alone.
LEMMA UnlistedFields ==
  ASSUME NEW s, NEW D, NEW d, NEW E \in Table, NEW O, NEW n \in UsedIn(E), NEW k, NEW F, Unlisted(s, D, d, E, O, n, k, F),
         Good(E, O), IsDir(E[E[n].parent])
  PROVE  SameBut(E, F, E[n].parent)
<1> DEFINE p == E[n].parent
<1>1. n \in EntryIndex /\ p \in EntryIndex /\ E[p] \in Entry
  BY DEF UsedIn, Table, Entry
<1>2. k \in 0 .. E[p].size - 1 /\ F = [E EXCEPT ![p] = Minus(E[p], k)]
  BY DEF Unlisted
<1>3. E[p].size <= SFS_ENTRYREFS
  BY <1>1 DEF Good, DirsFit
<1>4. Minus(E[p], k).flags = T_DIR /\ Minus(E[p], k).parent = E[p].parent
  BY <1>1, <1>2, <1>3, MinusFields
<1>5. \A m \in EntryIndex : F[m] = IF m = p THEN Minus(E[p], k) ELSE E[m]
  BY <1>2 DEF Table
<1>6. \A m \in EntryIndex : F[m].flags = E[m].flags /\ F[m].parent = E[m].parent
  BY <1>4, <1>5 DEF IsDir
<1> QED BY <1>1, <1>5, <1>6 DEF UsedIn, SameBut

\* delete_n for a file.
LEMMA DeleteFileHead ==
  ASSUME NEW d \in Disks, NEW D, NEW E, NEW O, NEW K, NEW n, NEW s, NEW q \in 1 .. NEntries, NEW v, Deletes(v, d),
         Before(s, D, d, E, O, K, n, q), IsFile(E[n])
  PROVE  After(v[q][s][n], D, d, E, O, K, n)
<1>1. /\ On(s, D, d, E) /\ ~Failed(s.res) /\ Good(E, O) /\ Upward(E, K) /\ O \subseteq K \ {0}
      /\ n \in UsedIn(E) \ K /\ E[n].parent \in K /\ IsDir(E[E[n].parent])
      /\ Cardinality(UsedIn(E) \ O) <= q
  BY DEF Before
<1> DEFINE p == E[n].parent
           e == E[n]
<1>2. E \in Table /\ n \in EntryIndex /\ n # 0 /\ n \notin O /\ O \in SUBSET EntryIndex /\ n \in UsedIn(E) \ {0} /\ p # n
  BY <1>1, OnTypes DEF Upward, UsedIn
<1>3. PICK i, F : Unlisted(s, D, d, E, O, n, i, F)
  BY <1>1, <1>2, Unlist
<1>4. /\ UsedIn(F) = UsedIn(E) /\ p \in EntryIndex
      /\ \A m \in EntryIndex : m # p => F[m] = E[m]
      /\ \A m \in EntryIndex : F[m].flags = E[m].flags /\ F[m].parent = E[m].parent
  <2>1. SameBut(E, F, E[n].parent)
    BY <1>1, <1>2, <1>3, UnlistedFields
  <2> QED BY <2>1 DEF SameBut
<1> DEFINE r == remove_ref_in_entry(s, d, p, n)
<1>5. F \in Table /\ Good(F, O \cup {n}) /\ On(r, D, d, F) /\ r.res = NO_ERROR
  BY <1>3 DEF Unlisted
<1>6. ~Failed(r.res)
  BY <1>5 DEF Failed, NO_ERROR
<1>7. F[n] = e /\ IsFile(F[n]) /\ IsDir(F[p]) /\ F[n].parent = p
  BY <1>1, <1>2, <1>4 DEF IsDir
<1>8. Chains(F) /\ Refs(F) /\ RootIsRoot(F) /\ Parents(F, O \cup {n})
  BY <1>5 DEF Good
<1>9. PICK k \in Nat : \E c : FileChain(F, n, c, k)
  BY <1>2, <1>5, <1>7, <1>8, ChainOf
<1>10. PICK c : FileChain(F, n, c, k)
  BY <1>9
<1>11. /\ c \in [0 .. k -> EntryIndex] /\ c[0] = n /\ F[c[k]].next = 0
       /\ \A x, y \in 0 .. k : c[x] = c[y] => x = y
       /\ \A x \in 0 .. k : IsFile(F[c[x]])
       /\ \A x \in 0 .. k - 1 : F[c[x]].next = c[x + 1] /\ c[x + 1] # 0 /\ F[c[x + 1]].parent = c[x]
  BY <1>10 DEF FileChain, Linked
<1>12. ASSUME NEW x \in 0 .. k PROVE c[x] \in UsedIn(E) \ K
  <2> DEFINE S == {y \in 0 .. k : c[y] \notin K}
  <2>1. 0 \in S
    BY <1>1, <1>11
  <2>2. ASSUME NEW y \in 0 .. k - 1, y \in S PROVE y + 1 \in S
    <3>1. c[y + 1] \in EntryIndex /\ E[c[y + 1]].parent = c[y] /\ c[y] \notin K
      BY <1>4, <1>11, <2>2
    <3> QED BY <1>1, <3>1 DEF Upward
  <2>3. x \in S
    <3> HIDE DEF S
    <3> QED BY <2>1, <2>2, UpTo
  <2>4. c[x] \in UsedIn(F)
    BY <1>11 DEF UsedIn, IsFile, T_FILE, FREE
  <2> QED BY <1>4, <2>3, <2>4
<1>13. q > k
  <2>1. c \in Injection(0 .. k, UsedIn(E) \ O)
    <3>1. c \in [0 .. k -> UsedIn(E) \ O]
      BY <1>1, <1>11, <1>12
    <3> QED BY <1>11, <3>1 DEF Injection, IsInjective
  <2>2. IsFiniteSet(UsedIn(E) \ O) /\ Cardinality(UsedIn(E) \ O) \in Nat
    BY UsedFinite
  <2>3. Cardinality(0 .. k) <= Cardinality(UsedIn(E) \ O)
    BY <2>1, <2>2, FS_Injection
  <2>4. Cardinality(0 .. k) = k + 1
    <3>1. 0 \in Int /\ k \in Int
      OBVIOUS
    <3>2. Cardinality(0 .. k) = IF 0 > k THEN 0 ELSE k - 0 + 1
      BY <3>1, FS_Interval
    <3> QED BY <3>2
  <2> QED BY <1>1, <2>2, <2>3, <2>4
<1> DEFINE u == IF e.next = 0 THEN r ELSE v[q - 1][r][e.next]
           w == write_entry(u, d, n, ZeroEntry)
           Z == From(c, 0, k)
           G == Zeroed(F, Z)
<1>14. On(u, D, d, Zeroed(F, From(c, 1, k))) /\ u.res = NO_ERROR
  <2>1. CASE k = 0
    <3>1. u = r
      BY <1>7, <1>11, <2>1
    <3>2. Zeroed(F, From(c, 1, k)) = F
      BY <1>5, <2>1, ZeroedNone
    <3> QED BY <1>5, <3>1, <3>2
  <2>2. CASE k > 0
    <3>1. 0 \in 0 .. k - 1 /\ 0 + 1 = 1
      BY <2>2
    <3>2. e.next = c[1] /\ c[1] # 0
      BY <1>7, <1>11, <3>1
    <3>3. u = v[q - 1][r][c[1]]
      BY <3>2
    <3>4. TailGoes(v, D, d, F, c, 1, k)
      BY <1>5, <1>8, <1>10, <2>2, DeleteTail
    <3>5. q - 1 \in 0 .. NEntries /\ q - 1 > k - 1
      BY <1>13, NSFSDiskAssumption
    <3> HIDE DEF u, r
    <3> QED BY <1>5, <1>6, <3>3, <3>4, <3>5 DEF TailGoes
  <2> QED BY <2>1, <2>2
<1>15. ~Failed(u.res)
  BY <1>14 DEF Failed, NO_ERROR
<1>16. On(w, D, d, G) /\ w.res = NO_ERROR
  <2> HIDE DEF u
  <2>1. On(w, D, d, [Zeroed(F, From(c, 1, k)) EXCEPT ![n] = ZeroEntry]) /\ w.res = NO_ERROR
    BY <1>2, <1>14, WriteEntry, ZeroIsEntry
  <2> DEFINE Y == From(c, 1, k)
  <2>2. Z = Y \cup {n}
    <3>1. 0 \in 0 .. k /\ 0 + 1 = 1
      OBVIOUS
    <3>2. From(c, 0, k) = From(c, 0 + 1, k) \cup {c[0]}
      BY <3>1, FromNext
    <3> QED BY <1>11, <3>1, <3>2
  <2> HIDE DEF Y, Z
  <2>3. [Zeroed(F, Y) EXCEPT ![n] = ZeroEntry] = G
    BY <1>2, <1>5, <2>2, ZeroedOne
  <2> HIDE DEF w, G
  <2> QED BY <2>1, <2>3 DEF Y
<1>17. v[q][s][n] = w
  <2> DEFINE b == q - 1
  <2>1. b \in 0 .. NEntries - 1 /\ b + 1 = q
    BY NSFSDiskAssumption
  <2>2. s \in CallStates
    BY <1>1 DEF On
  <2>3. v[q][s][n] = DeleteWith(v[b], s, d, n)
    BY <1>2, <2>1, <2>2 DEF Deletes
  <2>4. e.parent = p /\ e = At(s, d, n) /\ e.flags = T_FILE
    BY <1>1, OnTypes DEF IsFile
  <2>5. u = IF e.next = 0 THEN r ELSE v[b][r][e.next]
    OBVIOUS
  <2> HIDE DEF e, w, b, u
  <2>6. DeleteWith(v[b], s, d, n) = write_entry(u, d, n, ZeroEntry)
    BY <1>6, <1>15, <2>4, <2>5, DeleteFile
  <2> QED BY <2>3, <2>6 DEF w
<1>18. Z \in SUBSET UsedIn(E) /\ Z \cap K = {} /\ n \in Z /\ \A z \in Z : \E x \in 0 .. k : z = c[x]
  BY <1>11, <1>12 DEF From
<1> HIDE DEF u, w, Z
<1>19. Removable(F, O \cup {n}, Z)
  <2>1. 0 \notin Z
    BY <1>1, <1>18 DEF Upward
  <2>2. ASSUME NEW m \in UsedIn(F) \ {0}, F[m].parent \in Z PROVE m \in Z
    <3>1. PICK x \in 0 .. k : F[m].parent = c[x]
      BY <1>18, <2>2
    <3>2. F[c[x]].next = m
      BY <1>8, <1>11, <3>1 DEF Parents
    <3>3. m # 0
      OBVIOUS
    <3>4. x \in 0 .. k - 1 /\ x + 1 \in 0 .. k
      BY <1>11, <3>2, <3>3
    <3>5. m = c[x + 1]
      BY <1>11, <3>2, <3>4
    <3> QED BY <3>4, <3>5 DEF Z, From
  <2>3. ASSUME NEW m \in Z, F[m].parent \notin Z PROVE m = n
    <3>1. PICK x \in 0 .. k : m = c[x]
      BY <1>18
    <3>2. CASE x = 0
      BY <1>11, <3>1, <3>2
    <3>3. CASE x # 0
      <4> DEFINE y == x - 1
      <4>1. y \in 0 .. k - 1 /\ y \in 0 .. k /\ y + 1 = x
        BY <3>3
      <4>2. F[m].parent = c[y]
        BY <1>11, <3>1, <4>1
      <4> HIDE DEF y
      <4> QED BY <2>3, <4>1, <4>2 DEF Z, From
    <3> QED BY <3>2, <3>3
  <2>4. ASSUME NEW m \in Z, IsFile(F[F[m].parent]) PROVE F[m].parent \in Z
    <3>1. F[m].parent \notin Z => IsDir(F[F[m].parent])
      BY <1>7, <2>3
    <3> QED BY <2>4, <3>1 DEF IsFile, IsDir, T_FILE, T_DIR
  <2> QED BY <2>1, <2>2, <2>3, <2>4 DEF Removable
<1>20. Good(G, O)
  <2>1. Z \in SUBSET UsedIn(F) /\ O \cup {n} \in SUBSET EntryIndex
    BY <1>2, <1>4, <1>18
  <2>2. Good(Zeroed(F, Z), (O \cup {n}) \ Z)
    BY <1>5, <1>19, <2>1, Freed
  <2>3. (O \cup {n}) \ Z = O
    BY <1>1, <1>18
  <2> QED BY <2>2, <2>3
<1>21. Gone(E, G, K, n)
  <2>1. \A m \in EntryIndex : G[m] = IF m \in Z THEN ZeroEntry ELSE F[m]
    BY DEF Zeroed
  <2>2. p \notin Z /\ K \subseteq EntryIndex
    BY <1>1, <1>18 DEF Upward, UsedIn
  <2> HIDE DEF G
  <2>3. \A m \in K \ {p} : G[m] = E[m]
    BY <1>4, <1>18, <2>1, <2>2
  <2>4. \A m \in EntryIndex \ {p} : G[m] = E[m] \/ G[m] = ZeroEntry
    BY <1>4, <2>1
  <2>5. i \in 0 .. E[p].size - 1 /\ E[p].ref[i] = n /\ G[p] = Minus(E[p], i)
    <3>1. i \in 0 .. E[p].size - 1 /\ E[p].ref[i] = n /\ F = [E EXCEPT ![p] = Minus(E[p], i)]
      BY <1>3 DEF Unlisted
    <3>2. F[p] = Minus(E[p], i)
      BY <1>2, <1>4, <3>1 DEF Table
    <3> QED BY <1>4, <2>1, <2>2, <3>1, <3>2
  <2> QED BY <2>3, <2>4, <2>5 DEF Gone
<1> HIDE DEF G
<1> QED BY <1>16, <1>17, <1>20, <1>21 DEF After

\* The claim for one depth.
Level(v, D, d, q) ==
  \A s, E, O, K, n : Before(s, D, d, E, O, K, n, q) => After(v[q][s][n], D, d, E, O, K, n)

\* What is left of the table F, with directory n and its entries e.ref[i], ..., when
\* the first i of them are deleted.
Partly(F, G, O, K, n, e, i) ==
  /\ Good(G, O \cup {n}) /\ IsDir(G[n]) /\ G[n].size = e.size - i
  /\ G[n].parent = e.parent
  /\ \A x \in 0 .. e.size - i - 1 : G[n].ref[x] = e.ref[i + x]
  /\ \A m \in K : G[m] = F[m]
  /\ \A m \in EntryIndex \ {n} : G[m] = F[m] \/ G[m] = ZeroEntry

\* Deleting one more of them.
LEMMA DeleteChild ==
  ASSUME NEW d \in Disks, NEW D, NEW E \in Table, NEW F \in Table, NEW O, NEW K, NEW n \in UsedIn(E) \ K, NEW q \in Nat, NEW v, Level(v, D, d, q),
         Upward(E, K), O \subseteq K \ {0}, E[n].parent \in K, SameBut(E, F, E[n].parent),
         Cardinality(UsedIn(E) \ O) <= q + 1, NEW e, e = F[n], e.size \in Nat,
         NEW i \in 0 .. e.size - 1, NEW t, NEW G, On(t, D, d, G), ~Failed(t.res), Partly(F, G, O, K, n, e, i)
  PROVE  \E H : /\ On(v[q][t][e.ref[i]], D, d, H) /\ v[q][t][e.ref[i]].res = NO_ERROR
               /\ Partly(F, H, O, K, n, e, i + 1)
<1> DEFINE x == e.ref[i]
           p == E[n].parent
<1>1. /\ Good(G, O \cup {n}) /\ IsDir(G[n]) /\ G[n].size = e.size - i /\ G[n].parent = e.parent
      /\ \A y \in 0 .. e.size - i - 1 : G[n].ref[y] = e.ref[i + y]
      /\ \A m \in K : G[m] = F[m]
      /\ \A m \in EntryIndex \ {n} : G[m] = F[m] \/ G[m] = ZeroEntry
  BY DEF Partly
<1>2. /\ K \subseteq UsedIn(E) /\ 0 \in K /\ \A m \in K : E[m].parent \in K
  BY DEF Upward
<1>3. /\ UsedIn(F) = UsedIn(E) /\ p \in EntryIndex
      /\ \A m \in EntryIndex : F[m].flags = E[m].flags /\ F[m].parent = E[m].parent
  BY DEF SameBut
<1>4. n \in EntryIndex /\ n # 0 /\ n \notin K /\ K \subseteq EntryIndex /\ G \in Table
  BY <1>2, OnTypes DEF UsedIn
<1>5. G[n].ref[0] = x /\ 0 \in 0 .. G[n].size - 1
  <2>1. 0 \in 0 .. e.size - i - 1 /\ i + 0 = i
    OBVIOUS
  <2> QED BY <1>1, <2>1
<1>6. x \in UsedIn(G) \ ({0} \cup (O \cup {n})) /\ G[x].parent = n
      /\ \A j \in 0 .. G[n].size - 1 : G[n].ref[j] = x => j = 0
  <2>1. Listings(G, O \cup {n})
    BY <1>1 DEF Good
  <2> QED BY <1>1, <1>4, <1>5, <2>1 DEF Listings
<1>7. UsedIn(G) \subseteq UsedIn(E)
  <2>1. ASSUME NEW m \in UsedIn(G) PROVE m \in UsedIn(F)
    <3>1. m \in EntryIndex /\ G[m].flags # FREE
      BY DEF UsedIn
    <3>2. m # n => G[m] = F[m]
      BY <1>1, <3>1, ZeroIsEntry
    <3> QED BY <1>3, <3>1, <3>2 DEF UsedIn
  <2> QED BY <1>3, <2>1
<1>8. Upward(G, K \cup {n})
  <2>1. \A m \in K : m \in UsedIn(G) /\ G[m].parent \in K
    <3> SUFFICES ASSUME NEW m \in K PROVE m \in UsedIn(G) /\ G[m].parent \in K
      OBVIOUS
    <3>1. G[m] = F[m] /\ m \in UsedIn(F) /\ m \in EntryIndex
      BY <1>1, <1>2, <1>3, <1>4
    <3> QED BY <1>2, <1>3, <3>1 DEF UsedIn
  <2>2. n \in UsedIn(G)
    BY <1>1, <1>4 DEF UsedIn, IsDir, T_DIR, FREE
  <2>3. G[n].parent = p
    BY <1>1, <1>3, <1>4
  <2> QED BY <1>2, <2>1, <2>2, <2>3 DEF Upward
<1>9. x \notin K \cup {n}
  <2> SUFFICES ASSUME x \in K PROVE FALSE
    BY <1>6
  <2>1. G[x].parent \in K
    BY <1>1, <1>2, <1>3, <1>4
  <2> QED BY <1>4, <1>6, <2>1
<1>10. Cardinality(UsedIn(G) \ (O \cup {n})) <= q
  <2> DEFINE A == UsedIn(E) \ O
             B == UsedIn(G) \ (O \cup {n})
  <2>1. IsFiniteSet(A) /\ Cardinality(A) \in Nat
    BY UsedFinite
  <2>2. n \in A
    BY <1>4
  <2>3. B \in SUBSET (A \ {n})
    BY <1>7
  <2> HIDE DEF A, B
  <2>4. IsFiniteSet(A \ {n}) /\ Cardinality(A \ {n}) = Cardinality(A) - 1
    BY <2>1, <2>2, FS_RemoveElement
  <2>5. Cardinality(B) <= Cardinality(A) - 1
    BY <2>3, <2>4, FS_Subset
  <2>6. Cardinality(B) \in Nat
    BY UsedFinite DEF B
  <2> QED BY <2>1, <2>5, <2>6 DEF A, B
<1>11. Before(t, D, d, G, O \cup {n}, K \cup {n}, x, q)
  <2>1. x \in UsedIn(G) \ (K \cup {n})
    BY <1>6, <1>9
  <2>2. G[x].parent \in K \cup {n} /\ IsDir(G[G[x].parent])
    BY <1>1, <1>6
  <2>3. O \cup {n} \subseteq (K \cup {n}) \ {0}
    BY <1>4
  <2> HIDE DEF x
  <2> QED BY <1>1, <1>8, <1>10, <2>1, <2>2, <2>3 DEF Before
<1> HIDE DEF x
<1> DEFINE w == v[q][t][x]
<1>12. After(w, D, d, G, O \cup {n}, K \cup {n}, x)
  BY <1>11 DEF Level
<1>13. PICK H : On(w, D, d, H) /\ Good(H, O \cup {n}) /\ Gone(G, H, K \cup {n}, x)
  BY <1>12 DEF After
<1>14. w.res = NO_ERROR
  BY <1>12 DEF After
<1> HIDE DEF w
<1>15. /\ \E k \in 0 .. G[n].size - 1 : G[n].ref[k] = x /\ H[n] = Minus(G[n], k)
       /\ \A m \in K : H[m] = G[m]
       /\ \A m \in EntryIndex \ {n} : H[m] = G[m] \/ H[m] = ZeroEntry
  BY <1>4, <1>6, <1>13 DEF Gone
<1>16. H[n] = Minus(G[n], 0)
  BY <1>6, <1>15
<1>17. G[n] \in Entry /\ G[n].size <= SFS_ENTRYREFS
  BY <1>1, <1>4 DEF Table, Good, DirsFit
<1>18. /\ IsDir(H[n]) /\ H[n].parent = G[n].parent /\ H[n].size = G[n].size - 1
       /\ \A j \in RefIndex : H[n].ref[j] = IF j < 0 THEN G[n].ref[j] ELSE IF j + 1 < G[n].size THEN G[n].ref[j + 1] ELSE 0
  BY <1>1, <1>5, <1>16, <1>17, MinusFields DEF IsDir
<1>19. Partly(F, H, O, K, n, e, i + 1)
  <2>1. H[n].size = e.size - (i + 1)
    BY <1>1, <1>18
  <2>2. ASSUME NEW y \in 0 .. e.size - (i + 1) - 1 PROVE H[n].ref[y] = e.ref[i + 1 + y]
    <3>1. y \in RefIndex /\ ~(y < 0) /\ y + 1 < G[n].size
      BY <1>1, <1>17, Numbers DEF RefIndex
    <3>2. H[n].ref[y] = G[n].ref[y + 1]
      BY <1>18, <3>1
    <3> DEFINE z == y + 1
    <3>3. z \in 0 .. e.size - i - 1 /\ i + z = i + 1 + y
      OBVIOUS
    <3>4. G[n].ref[z] = e.ref[i + z]
      <4> HIDE DEF z
      <4> QED BY <1>1, <3>3
    <3> QED BY <3>2, <3>3, <3>4
  <2>3. \A m \in K : H[m] = F[m]
    BY <1>1, <1>15
  <2>4. \A m \in EntryIndex \ {n} : H[m] = F[m] \/ H[m] = ZeroEntry
    BY <1>1, <1>15
  <2> QED BY <1>1, <1>13, <1>18, <2>1, <2>2, <2>3, <2>4 DEF Partly
<1> QED BY <1>13, <1>14, <1>19 DEF w, x

\* delete_n for a directory, if the calls for what it lists are right.
LEMMA DeleteDirHead ==
  ASSUME NEW d \in Disks, NEW D, NEW E, NEW O, NEW K, NEW n, NEW s, NEW q \in 0 .. NEntries - 1, NEW v, Deletes(v, d), Level(v, D, d, q),
         Before(s, D, d, E, O, K, n, q + 1), IsDir(E[n])
  PROVE  After(v[q + 1][s][n], D, d, E, O, K, n)
<1>1. /\ On(s, D, d, E) /\ ~Failed(s.res) /\ Good(E, O) /\ Upward(E, K) /\ O \subseteq K \ {0}
      /\ n \in UsedIn(E) \ K /\ E[n].parent \in K /\ IsDir(E[E[n].parent])
      /\ Cardinality(UsedIn(E) \ O) <= q + 1
  BY DEF Before
<1> DEFINE p == E[n].parent
<1>2. E \in Table /\ n \in EntryIndex /\ n # 0 /\ n \notin O /\ O \in SUBSET EntryIndex /\ n \in UsedIn(E) \ {0} /\ p # n
  BY <1>1, OnTypes DEF Upward, UsedIn
<1>3. PICK k, F : Unlisted(s, D, d, E, O, n, k, F)
  BY <1>1, <1>2, Unlist
<1>4a. SameBut(E, F, p)
  BY <1>1, <1>2, <1>3, UnlistedFields
<1>4. /\ UsedIn(F) = UsedIn(E) /\ p \in EntryIndex
      /\ \A m \in EntryIndex : m # p => F[m] = E[m]
      /\ \A m \in EntryIndex : F[m].flags = E[m].flags /\ F[m].parent = E[m].parent
  BY <1>4a DEF SameBut
<1> DEFINE r == remove_ref_in_entry(s, d, p, n)
           e == E[n]
<1>5. F \in Table /\ Good(F, O \cup {n}) /\ On(r, D, d, F) /\ r.res = NO_ERROR
  BY <1>3 DEF Unlisted
<1>6. ~Failed(r.res)
  BY <1>5 DEF Failed, NO_ERROR
<1>7. e = F[n] /\ e \in Entry /\ e.flags = T_DIR /\ e.next = 0 /\ e.size \in Nat /\ e.size <= SFS_ENTRYREFS /\ At(s, d, n) = e
  <2>1. e = F[n] /\ e \in Entry /\ e.flags = T_DIR /\ At(s, d, n) = e
    BY <1>1, <1>2, <1>4, OnTypes DEF IsDir
  <2>2. e.next = 0 /\ e.size <= SFS_ENTRYREFS
    BY <1>1, <1>2 DEF Good, DirsFit
  <2>3. e.size \in Nat
    BY <2>1 DEF Entry
  <2> QED BY <2>1, <2>2, <2>3
<1>8. PICK u : /\ u[0] = r
               /\ \A i \in 0 .. e.size - 1 : ~Failed(u[i].res) => u[i + 1] = v[q][u[i]][e.ref[i]]
               /\ ~Failed(u[e.size].res) => DeleteWith(v[q], s, d, n) = write_entry(u[e.size], d, n, ZeroEntry)
  <2> HIDE DEF e
  <2>1. r = remove_ref_in_entry(s, d, e.parent, n)
    BY DEF e
  <2> HIDE DEF r
  <2> QED BY <1>6, <1>7, <2>1, DeleteDirectory
<1> HIDE DEF r, e
<1> DEFINE S == {i \in 0 .. e.size : u[i].res = NO_ERROR /\ \E G : On(u[i], D, d, G) /\ Partly(F, G, O, K, n, e, i)}
<1>9. 0 \in S
  <2>1. Partly(F, F, O, K, n, e, 0)
    BY <1>5, <1>7 DEF Partly, IsDir
  <2>2. u[0] = r
    BY <1>8
  <2> QED BY <1>5, <1>7, <2>1, <2>2
<1>10. ASSUME NEW i \in 0 .. e.size - 1, i \in S PROVE i + 1 \in S
  <2>1. PICK G : On(u[i], D, d, G) /\ Partly(F, G, O, K, n, e, i)
    BY <1>10
  <2>2. ~Failed(u[i].res)
    BY <1>10 DEF Failed, NO_ERROR
  <2>3. u[i + 1] = v[q][u[i]][e.ref[i]]
    BY <1>8, <2>2
  <2>4. PICK H : /\ On(v[q][u[i]][e.ref[i]], D, d, H) /\ v[q][u[i]][e.ref[i]].res = NO_ERROR
                 /\ Partly(F, H, O, K, n, e, i + 1)
    <3>1. q \in Nat
      BY NSFSDiskAssumption
    <3>2. i \in 0 .. e.size - 1
      OBVIOUS
    <3> DEFINE t == u[i]
    <3>3. On(t, D, d, G) /\ ~Failed(t.res)
      BY <2>1, <2>2
    <3> HIDE DEF t
    <3>4. \E H : /\ On(v[q][t][e.ref[i]], D, d, H) /\ v[q][t][e.ref[i]].res = NO_ERROR
                 /\ Partly(F, H, O, K, n, e, i + 1)
      BY <1>1, <1>2, <1>4a, <1>5, <1>7, <2>1, <3>1, <3>2, <3>3, DeleteChild
    <3> QED BY <3>4 DEF t
  <2>5. i + 1 \in 0 .. e.size
    BY <1>7
  <2> QED BY <2>3, <2>4, <2>5
<1>11. e.size \in S
  <2>1. \A i \in 0 .. e.size : i \in S
    <3> HIDE DEF S
    <3> QED BY <1>7, <1>9, <1>10, UpTo
  <2> QED BY <1>7, <2>1
<1>12. PICK G : On(u[e.size], D, d, G) /\ Partly(F, G, O, K, n, e, e.size)
  BY <1>11
<1>13. ~Failed(u[e.size].res)
  BY <1>11 DEF Failed, NO_ERROR
<1> HIDE DEF S
<1>14. /\ Good(G, O \cup {n}) /\ IsDir(G[n]) /\ G[n].size = 0 /\ G[n].parent = p
       /\ \A m \in K : G[m] = F[m]
       /\ \A m \in EntryIndex \ {n} : G[m] = F[m] \/ G[m] = ZeroEntry
  <2>1. e.size - e.size = 0 /\ e.parent = p
    BY <1>7 DEF e
  <2> QED BY <1>12, <2>1 DEF Partly
<1>15. G \in Table
  BY <1>12, OnTypes
<1> DEFINE w == write_entry(u[e.size], d, n, ZeroEntry)
           H == Zeroed(G, {n})
<1>16. On(w, D, d, H) /\ w.res = NO_ERROR
  <2>1. On(w, D, d, [G EXCEPT ![n] = ZeroEntry]) /\ w.res = NO_ERROR
    BY <1>2, <1>12, WriteEntry, ZeroIsEntry
  <2>2. [G EXCEPT ![n] = ZeroEntry] = H
    BY <1>2, <1>15 DEF Zeroed, Table
  <2> HIDE DEF w, H
  <2> QED BY <2>1, <2>2
<1>17. v[q + 1][s][n] = w
  <2>1. s \in CallStates
    BY <1>1 DEF On
  <2>2. v[q + 1][s][n] = DeleteWith(v[q], s, d, n)
    BY <1>2, <2>1 DEF Deletes
  <2> QED BY <1>8, <1>13, <2>2
<1>18. Removable(G, O \cup {n}, {n})
  <2>1. 0 \notin {n}
    BY <1>2
  <2>2. ASSUME NEW m \in UsedIn(G) \ {0}, G[m].parent \in {n} PROVE m \in {n}
    <3>1. m \in O \cup {n}
      <4> SUFFICES ASSUME m \notin O \cup {n} PROVE FALSE
        OBVIOUS
      <4>1. \E i \in 0 .. G[n].size - 1 : G[n].ref[i] = m
        BY <1>14, <2>2 DEF Good, Parents
      <4> QED BY <1>14, <4>1
    <3>2. CASE m \in O
      <4>1. m \in K /\ m \in EntryIndex /\ G[m] = F[m] /\ F[m].parent = E[m].parent
        BY <1>1, <1>2, <1>4, <1>14, <3>2
      <4>2. E[m].parent \in K
        BY <1>1, <4>1 DEF Upward
      <4> QED BY <1>1, <2>2, <4>1, <4>2
    <3> QED BY <3>1, <3>2
  <2>3. G[p] = F[p] /\ IsDir(G[p])
    BY <1>1, <1>2, <1>4, <1>14 DEF IsDir
  <2>4. \A m \in {n} : IsFile(G[G[m].parent]) => G[m].parent \in {n}
    BY <1>14, <2>3 DEF IsFile, IsDir, T_FILE, T_DIR
  <2> QED BY <2>1, <2>2, <2>4 DEF Removable
<1>19. Good(H, O)
  <2>1. {n} \in SUBSET UsedIn(G) /\ O \cup {n} \in SUBSET EntryIndex
    BY <1>2, <1>14 DEF UsedIn, IsDir, T_DIR, FREE
  <2>2. Good(Zeroed(G, {n}), (O \cup {n}) \ {n})
    BY <1>14, <1>15, <1>18, <2>1, Freed
  <2>3. (O \cup {n}) \ {n} = O
    BY <1>2
  <2> QED BY <2>2, <2>3
<1>20. Gone(E, H, K, n)
  <2>1. \A m \in EntryIndex : H[m] = IF m = n THEN ZeroEntry ELSE G[m]
    BY DEF Zeroed
  <2>2. K \subseteq EntryIndex /\ p \in K /\ n \notin K
    BY <1>1 DEF Upward, UsedIn
  <2> HIDE DEF H
  <2>3. \A m \in K \ {p} : H[m] = E[m]
    BY <1>4, <1>14, <2>1, <2>2
  <2>4. \A m \in EntryIndex \ {p} : H[m] = E[m] \/ H[m] = ZeroEntry
    BY <1>4, <1>14, <2>1
  <2>5. k \in 0 .. E[p].size - 1 /\ E[p].ref[k] = n /\ H[p] = Minus(E[p], k)
    <3>1. k \in 0 .. E[p].size - 1 /\ E[p].ref[k] = n /\ F = [E EXCEPT ![p] = Minus(E[p], k)]
      BY <1>3 DEF Unlisted
    <3>2. F[p] = Minus(E[p], k)
      BY <1>2, <1>4, <3>1 DEF Table
    <3> QED BY <1>4, <1>14, <2>1, <2>2, <3>1, <3>2
  <2> QED BY <2>3, <2>4, <2>5 DEF Gone
<1> HIDE DEF H, w
<1> QED BY <1>16, <1>17, <1>19, <1>20 DEF After

\* delete_n at every depth, by induction on what may still be below: the bound on the depth
\* is never met.
LEMMA DeleteLevels ==
  ASSUME NEW d \in Disks, NEW D, NEW v, Deletes(v, d)
  PROVE  \A q \in 0 .. NEntries : Level(v, D, d, q)
<1> DEFINE S == {q \in 0 .. NEntries : Level(v, D, d, q)}
<1>0. NEntries \in Nat
  BY NSFSDiskAssumption
<1>1. 0 \in S
  <2> SUFFICES ASSUME NEW s, NEW E, NEW O, NEW K, NEW n, Before(s, D, d, E, O, K, n, 0) PROVE FALSE
    BY <1>0 DEF Level
  <2>1. IsFiniteSet(UsedIn(E) \ O) /\ Cardinality(UsedIn(E) \ O) \in Nat
    BY UsedFinite
  <2>2. n \in UsedIn(E) \ O /\ Cardinality(UsedIn(E) \ O) <= 0
    BY DEF Before
  <2>3. Cardinality(UsedIn(E) \ O) = 0
    BY <2>1, <2>2
  <2>4. UsedIn(E) \ O = {}
    BY <2>1, <2>3, FS_EmptySet
  <2> QED BY <2>2, <2>4
<1>2. ASSUME NEW q \in 0 .. NEntries - 1, q \in S PROVE q + 1 \in S
  <2> DEFINE m == q + 1
  <2>1. m \in 1 .. NEntries /\ m \in 0 .. NEntries /\ Level(v, D, d, q)
    BY <1>0, <1>2
  <2>2. ASSUME NEW s, NEW E, NEW O, NEW K, NEW n, Before(s, D, d, E, O, K, n, m) PROVE After(v[m][s][n], D, d, E, O, K, n)
    <3>1. IsFile(E[n]) \/ IsDir(E[n])
      <4>1. E \in Table /\ n \in UsedIn(E)
        BY <2>2, OnTypes DEF Before
      <4> QED BY <4>1 DEF Table, Entry, UsedIn, IsFile, IsDir
    <3>2. CASE IsFile(E[n])
      <4> HIDE DEF m
      <4> QED BY <2>1, <2>2, <3>2, DeleteFileHead
    <3>3. CASE IsDir(E[n])
      BY <2>1, <2>2, <3>3, DeleteDirHead
    <3> QED BY <3>1, <3>2, <3>3
  <2>3. Level(v, D, d, m)
    <3> HIDE DEF m
    <3> QED BY <2>2 DEF Level
  <2> QED BY <2>1, <2>3
<1> HIDE DEF S
<1>3. \A q \in 0 .. NEntries : q \in S
  BY <1>0, <1>1, <1>2, UpTo
<1> QED BY <1>3 DEF S

\* What is not below n, and holds with an entry the one above it.
NotBelow(E, n) == {m \in UsedIn(E) : \E T \in SUBSET UsedIn(E) : m \in T /\ n \notin T /\ \A x \in T : E[x].parent \in T}

\* What is not below an entry is closed under parents, and is the largest such set.
LEMMA NotBelowIsUpward ==
  ASSUME NEW E \in Table, NEW O, Good(E, O), NEW n \in UsedIn(E) \ {0}
  PROVE  /\ Upward(E, NotBelow(E, n)) /\ n \notin NotBelow(E, n)
         /\ \A T \in SUBSET UsedIn(E) : n \notin T /\ (\A x \in T : E[x].parent \in T) => T \subseteq NotBelow(E, n)
         /\ E[n].parent \in NotBelow(E, n)
<1> DEFINE K == NotBelow(E, n)
           U == UsedIn(E)
           Shut(T) == n \notin T /\ \A x \in T : E[x].parent \in T
<1>1. \A T \in SUBSET U : Shut(T) => T \subseteq K
  BY DEF NotBelow
<1>2. \A m \in K : \E T \in SUBSET U : m \in T /\ Shut(T)
  BY DEF NotBelow
<1>3. K \in SUBSET U /\ n \notin K
  BY DEF NotBelow
<1> HIDE DEF K
<1>4. \A m \in U : E[m].parent \in U
  <2> SUFFICES ASSUME NEW m \in U PROVE E[m].parent \in U
    OBVIOUS
  <2>1. m \in EntryIndex /\ E[m].parent \in EntryIndex
    BY DEF Table, UsedIn, Entry
  <2>2. CASE m = 0
    BY <2>2 DEF Good, RootIsRoot
  <2>3. CASE m # 0
    BY <2>1, <2>3 DEF Good, Parents, UsedIn
  <2> QED BY <2>2, <2>3
<1>5. 0 \in U /\ E[0].parent = 0
  BY Numbers DEF Good, RootIsRoot, UsedIn, T_DIR, FREE
<1>6. 0 \in K
  <2>1. Shut({0}) /\ {0} \in SUBSET U
    BY <1>5
  <2> QED BY <1>1, <2>1
<1>7. \A m \in K : E[m].parent \in K
  BY <1>1, <1>2
<1>8. ASSUME NEW m \in U \ K, m # n PROVE E[m].parent \notin K
  <2> SUFFICES ASSUME E[m].parent \in K PROVE FALSE
    OBVIOUS
  <2>1. Shut(K \cup {m}) /\ K \cup {m} \in SUBSET U
    BY <1>3, <1>7, <1>8
  <2> HIDE DEF Shut, U
  <2> QED BY <1>1, <1>8, <2>1
<1>9. E[n].parent \in K
  <2> SUFFICES ASSUME E[n].parent \notin K PROVE FALSE
    OBVIOUS
  <2> DEFINE S == U \ K
  <2>1. \A m \in S : E[m].parent \in S
    BY <1>4, <1>8
  <2>2. S \in SUBSET U /\ S # {} /\ 0 \notin S
    BY <1>3, <1>6
  <2>3. \A T \in SUBSET U : T # {} /\ (\A x \in T : E[x].parent \in T) => 0 \in T
    BY DEF Good, Rooted
  <2> HIDE DEF S
  <2> QED BY <2>1, <2>2, <2>3
<1> HIDE DEF U
<1>10. Upward(E, K)
  BY <1>3, <1>6, <1>7 DEF Upward, U
<1> QED BY <1>1, <1>3, <1>9, <1>10 DEF K, U

\* delete_n on a file or directory of a good disk.
LEMMA DeleteEntry ==
  ASSUME NEW d \in Disks, NEW D, NEW E, NEW s, On(s, D, d, E), ~Failed(s.res), Good(E, {}),
         NEW n \in UsedIn(E) \ {0}, IsDir(E[E[n].parent])
  PROVE  After(delete_n(s, d, n), D, d, E, {}, NotBelow(E, n), n)
<1>1. PICK v : DeleteRuns(s, d, n, v)
  BY DeleteRunsExist
<1>2. NEntries \in Nat /\ NEntries \in 0 .. NEntries
  BY NSFSDiskAssumption
<1>3. Deletes(v, d)
  <2> SUFFICES ASSUME NEW q \in 0 .. NEntries - 1, NEW t \in CallStates, NEW x \in EntryIndex
               PROVE  v[q + 1][t][x] = DeleteWith(v[q], t, d, x)
    BY DEF Deletes
  <2> DEFINE Row(u) == [y \in EntryIndex |-> DeleteWith(v[q], u, d, y)]
  <2>1. v[q + 1] = [u \in CallStates |-> Row(u)]
    BY <1>1 DEF DeleteRuns
  <2>2. v[q + 1][t] = Row(t)
    BY <2>1
  <2> QED BY <2>2
<1>4. Level(v, D, d, NEntries)
  BY <1>2, <1>3, DeleteLevels
<1>5. E \in Table
  BY OnTypes
<1> DEFINE K == NotBelow(E, n)
<1>6. Upward(E, K) /\ n \notin K /\ E[n].parent \in K
  BY <1>5, NotBelowIsUpward
<1> HIDE DEF K
<1>7. Cardinality(UsedIn(E) \ {}) <= NEntries
  <2>1. 0 \in Int /\ NEntries - 1 \in Int
    BY <1>2
  <2>2. IsFiniteSet(EntryIndex) /\ Cardinality(EntryIndex) = IF 0 > NEntries - 1 THEN 0 ELSE NEntries - 1 - 0 + 1
    BY <2>1, FS_Interval DEF EntryIndex
  <2>3. UsedIn(E) \ {} \in SUBSET EntryIndex
    BY DEF UsedIn
  <2>4. Cardinality(UsedIn(E) \ {}) <= Cardinality(EntryIndex)
    BY <2>2, <2>3, FS_Subset
  <2>5. Cardinality(EntryIndex) = NEntries
    BY <1>2, <2>2
  <2> QED BY <2>4, <2>5
<1>8. Before(s, D, d, E, {}, K, n, NEntries)
  BY <1>6, <1>7 DEF Before
<1>9. After(v[NEntries][s][n], D, d, E, {}, K, n)
  BY <1>4, <1>8 DEF Level
<1>10. delete_n(s, d, n) = v[NEntries][s][n]
  BY <1>1 DEF DeleteRuns
<1> QED BY <1>9, <1>10 DEF K

-----------------------------------------------------------------------------
(* Freeing and appending.  FreeChain, find_free_entry and ExtendChain. *)

\* The rounds of delete_chained_entries.
FreeRuns(s, d, n, v) ==
  /\ FreeChain(s, d, n) = v[NEntries].call
  /\ v[0] = [call |-> s, n |-> n, go |-> TRUE]
  /\ \A i \in 0 .. NEntries - 1 : v[i + 1] = FreeOnce(v[i], d)

\* The rounds of this loop are a function that exists and is the one the operator evaluates.
LEMMA FreeRunsExist ==
  ASSUME NEW s, NEW d, NEW n
  PROVE  \E v : FreeRuns(s, d, n, v)
<1> DEFINE a == [call |-> s, n |-> n, go |-> TRUE]
           Round(z, i) == FreeOnce(z, d)
           Is(m, f) == f = [i \in 0 .. m |-> IF i = 0 THEN a ELSE Round(f[i - 1], i)]
           S == {m \in 0 .. NEntries : \E f : Is(m, f)}
           v == CHOOSE f : Is(NEntries, f)
<1>1. NEntries \in Nat
  BY NSFSDiskAssumption
<1>2. FreeChain(s, d, n) = v[NEntries].call
  BY DEF FreeChain, Rounds
<1> HIDE DEF a, Round
<1>3. 0 \in S
  <2>1. Is(0, [i \in 0 .. 0 |-> a])
    OBVIOUS
  <2> HIDE DEF Is
  <2> QED BY <1>1, <2>1
<1>4. ASSUME NEW m \in 0 .. NEntries - 1, m \in S PROVE m + 1 \in S
  <2>1. PICK f : Is(m, f)
    BY <1>4
  <2> DEFINE h == [i \in 0 .. m + 1 |-> IF i = m + 1 THEN Round(f[m], m + 1) ELSE f[i]]
  <2>2. \A i \in 0 .. m : h[i] = f[i] /\ f[i] = IF i = 0 THEN a ELSE Round(f[i - 1], i)
    BY <2>1
  <2>3. h[m + 1] = Round(f[m], m + 1)
    OBVIOUS
  <2>4. \A i \in 0 .. m + 1 : h[i] = IF i = 0 THEN a ELSE Round(h[i - 1], i)
    <3> SUFFICES ASSUME NEW i \in 0 .. m + 1 PROVE h[i] = IF i = 0 THEN a ELSE Round(h[i - 1], i)
      OBVIOUS
    <3> HIDE DEF h
    <3>1. CASE i = 0
      BY <2>2, <3>1
    <3>2. CASE i \in 1 .. m
      <4>1. i - 1 \in 0 .. m /\ i \in 0 .. m /\ i # 0
        BY <3>2
      <4>2. h[i - 1] = f[i - 1] /\ h[i] = Round(f[i - 1], i)
        BY <2>2, <4>1
      <4> QED BY <4>1, <4>2
    <3>3. CASE i = m + 1
      <4>1. i - 1 = m /\ m \in 0 .. m /\ i # 0
        BY <3>3
      <4>2. h[i - 1] = f[m] /\ h[i] = Round(f[m], i)
        BY <2>2, <2>3, <3>3, <4>1
      <4> QED BY <4>1, <4>2
    <3> QED BY <3>1, <3>2, <3>3
  <2>5. Is(m + 1, h)
    BY <2>4
  <2> HIDE DEF Is
  <2> QED BY <1>1, <2>5
<1> HIDE DEF Is
<1>5. \A m \in 0 .. NEntries : m \in S
  <2> HIDE DEF S
  <2> QED BY <1>1, <1>3, <1>4, UpTo
<1>6. Is(NEntries, v)
  <2>1. \E f : Is(NEntries, f)
    BY <1>1, <1>5
  <2> QED BY <2>1
<1>7. v = [i \in 0 .. NEntries |-> IF i = 0 THEN a ELSE Round(v[i - 1], i)]
  BY <1>6 DEF Is
<1> HIDE DEF v
<1>8. v[0] = a
  BY <1>1, <1>7
<1>9. ASSUME NEW i \in 0 .. NEntries - 1 PROVE v[i + 1] = Round(v[i], i + 1)
  <2> DEFINE m == i + 1
  <2>1. m \in 0 .. NEntries /\ m # 0 /\ m - 1 = i
    BY <1>1
  <2>2. m = i + 1
    OBVIOUS
  <2> HIDE DEF m
  <2>3. v[m] = Round(v[m - 1], m)
    BY <1>7, <2>1
  <2> QED BY <2>1, <2>2, <2>3
<1> QED BY <1>2, <1>8, <1>9 DEF a, Round, FreeRuns

\* FreeChain zeroes the chain.
LEMMA FreeAll ==
  ASSUME NEW d \in Disks, NEW D, NEW E, NEW s, On(s, D, d, E), NEW k \in Nat, NEW c, Linked(E, c, k)
  PROVE  /\ On(FreeChain(s, d, c[0]), D, d, Zeroed(E, From(c, 0, k)))
         /\ FreeChain(s, d, c[0]).res = NO_ERROR
<1>1. PICK v : FreeRuns(s, d, c[0], v)
  BY FreeRunsExist
<1>1a. /\ FreeChain(s, d, c[0]) = v[NEntries].call
       /\ v[0] = [call |-> s, n |-> c[0], go |-> TRUE]
       /\ \A i \in 0 .. NEntries - 1 : v[i + 1] = FreeOnce(v[i], d)
  BY <1>1 DEF FreeRuns
<1>0. /\ c \in [0 .. k -> EntryIndex] /\ \A i, j \in 0 .. k : c[i] = c[j] => i = j
      /\ \A j \in 0 .. k - 1 : E[c[j]].next = c[j + 1] /\ c[j + 1] # 0
      /\ E[c[k]].next = 0
  BY DEF Linked
<1>2a. E \in Table
  BY OnTypes
<1>2b. NEntries \in Nat
  BY NSFSDiskAssumption
<1>2c. k < NEntries
  BY <1>0, ChainFits
<1> DEFINE Z(i) == From(c, 0, i - 1)
<1> DEFINE Going(i) == v[i].go = TRUE /\ v[i].n = c[i] /\ On(v[i].call, D, d, Zeroed(E, Z(i)))
           Over(i) == v[i].go = FALSE /\ v[i].call.res = NO_ERROR /\ On(v[i].call, D, d, Zeroed(E, From(c, 0, k)))
           S == {i \in 0 .. NEntries : (i <= k /\ Going(i)) \/ (i > k /\ Over(i))}
<1>3. 0 \in S
  <2>1. Z(0) = {}
    BY DEF From
  <2>2. Zeroed(E, {}) = E
    BY <1>2a DEF Zeroed, Table
  <2>3. Going(0)
    BY <1>1a, <2>1, <2>2
  <2> HIDE DEF Going, Over
  <2> QED BY <1>2b, <2>3
<1>4. ASSUME NEW i \in 0 .. NEntries - 1, i \in S PROVE i + 1 \in S
  <2> DEFINE m == i + 1
  <2>a. m \in 0 .. NEntries /\ m = i + 1 /\ i \in Nat /\ m - 1 = i
    BY <1>2b
  <2>0. v[m] = FreeOnce(v[i], d)
    BY <1>1a
  <2> HIDE DEF m
  <2> SUFFICES (m <= k /\ Going(m)) \/ (m > k /\ Over(m))
    <3> HIDE DEF Going, Over
    <3> QED BY <2>a
  <2>1. CASE i > k
    <3>1. Over(i)
      BY <1>4, <2>1
    <3>2. v[m] = v[i]
      BY <2>0, <3>1 DEF FreeOnce
    <3>3. Over(m)
      BY <3>1, <3>2
    <3> HIDE DEF Over, Going
    <3> QED BY <2>1, <3>3, <2>a
  <2>2. CASE i <= k
    <3>1. Going(i)
      BY <1>4, <2>2
    <3> DEFINE F == Zeroed(E, Z(i))
               t == write_entry(v[i].call, d, c[i], ZeroEntry)
    <3>2. i \in 0 .. k /\ c[i] \in EntryIndex /\ v[i].n = c[i] /\ v[i].go = TRUE /\ On(v[i].call, D, d, F)
      BY <1>0, <2>2, <2>a, <3>1
    <3>3. c[i] \notin Z(i)
      BY <1>0, <3>2 DEF From
    <3>4. At(v[i].call, d, c[i]) = E[c[i]]
      <4>1. F[c[i]] = E[c[i]]
        BY <1>2a, <3>2, <3>3, ZeroedFields
      <4> QED BY <3>2, <4>1, OnTypes
    <3>5. On(t, D, d, [F EXCEPT ![c[i]] = ZeroEntry]) /\ t.res = NO_ERROR
      BY <3>2, ZeroIsEntry, WriteEntry
    <3>6. [F EXCEPT ![c[i]] = ZeroEntry] = Zeroed(E, Z(m))
      <4>1. Z(m) = Z(i) \cup {c[i]}
        <5>1. Z(m) = From(c, 0, i)
          BY <2>a
        <5>2. \A x \in 0 .. i : x = i \/ x \in 0 .. i - 1
          BY <2>a
        <5>3. \A x \in 0 .. i - 1 : x \in 0 .. i
          BY <2>a
        <5>4. i \in 0 .. i
          BY <2>a
        <5> QED BY <5>1, <5>2, <5>3, <5>4 DEF From
      <4> QED BY <1>2a, <3>2, <4>1, ZeroedOne
    <3>7. ~Failed(t.res)
      BY <3>5 DEF Failed, NO_ERROR
    <3> HIDE DEF F, t, Z
    <3>8. v[m] = [call |-> t, n |-> E[c[i]].next, go |-> ~Failed(t.res) /\ E[c[i]].next # 0]
      BY <2>0, <3>2, <3>4 DEF FreeOnce, t
    <3>8a. v[m].call = t /\ v[m].n = E[c[i]].next
      BY <3>8
    <3>8b. On(t, D, d, Zeroed(E, Z(m)))
      BY <3>5, <3>6
    <3>9. On(v[m].call, D, d, Zeroed(E, Z(m))) /\ v[m].call.res = NO_ERROR /\ v[m].n = E[c[i]].next
      BY <3>5, <3>8a, <3>8b
    <3>9a. v[m].go = (E[c[i]].next # 0)
      BY <3>7, <3>8
    <3>10. CASE i = k
      <4>1. v[m].go = FALSE
        BY <1>0, <3>9a, <3>10
      <4>2. Z(m) = From(c, 0, k)
        BY <2>a, <3>10 DEF Z
      <4>3. Over(m)
        BY <3>9, <4>1, <4>2
      <4> HIDE DEF Over, Going
      <4> QED BY <2>a, <3>10, <4>3
    <3>11. CASE i # k
      <4>1. i \in 0 .. k - 1
        BY <3>2, <3>11
      <4>2. E[c[i]].next = c[m] /\ c[m] # 0
        BY <1>0, <2>a, <4>1
      <4>3. Going(m)
        BY <3>9, <3>9a, <4>2
      <4> HIDE DEF Over, Going
      <4> QED BY <4>1, <4>3, <2>a
    <3> QED BY <3>10, <3>11
  <2>3. i > k \/ i <= k
    BY <2>a
  <2> HIDE DEF Going, Over
  <2> QED BY <2>1, <2>2, <2>3
<1> HIDE DEF Going
<1>5. \A i \in 0 .. NEntries : i \in S
  <2> HIDE DEF S
  <2> QED BY <1>2b, <1>3, <1>4, UpTo
<1>6. Over(NEntries)
  <2> HIDE DEF Over
  <2>1. NEntries \in S /\ NEntries > k
    BY <1>2b, <1>2c, <1>5
  <2> QED BY <2>1
<1> QED BY <1>1a, <1>6

\* The first of some numbers.
LEMMA FirstOrIn ==
  ASSUME NEW n \in Nat, NEW S \in SUBSET (0 .. n), NEW none
  PROVE  \/ S = {} /\ FirstOr(S, none) = none
         \/ S # {} /\ FirstOr(S, none) \in S
<1>1. CASE S = {}
  BY <1>1 DEF FirstOr
<1>2. CASE S # {}
  <2>1. \E i \in S : \A j \in S : i <= j
    BY <1>2, LeastExists
  <2>2. FirstOr(S, none) = CHOOSE i \in S : \A j \in S : i <= j
    BY <1>2 DEF FirstOr
  <2> QED BY <1>2, <2>1, <2>2
<1> QED BY <1>1, <1>2

\* find_free_entry finds a free entry or says that there is none.
LEMMA FreeEntry ==
  ASSUME NEW d \in Disks, NEW D, NEW E, NEW s, On(s, D, d, E)
  PROVE  \/ find_free_entry(s.disk[d]) = ERROR_NO_SPACE
         \/ find_free_entry(s.disk[d]) \in EntryIndex /\ E[find_free_entry(s.disk[d])].flags = FREE
<1> DEFINE S == {n \in EntryIndex : s.disk[d].entry[n].flags = FREE}
<1>1. NEntries - 1 \in Nat /\ S \in SUBSET (0 .. NEntries - 1)
  BY NSFSDiskAssumption DEF EntryIndex
<1>2. find_free_entry(s.disk[d]) = FirstOr(S, ERROR_NO_SPACE)
  BY DEF find_free_entry
<1>3. s.disk[d].entry = E
  BY DEF On
<1>4. \A n \in S : n \in EntryIndex /\ E[n].flags = FREE
  BY <1>3
<1> HIDE DEF S
<1> QED BY <1>1, <1>2, <1>4, FirstOrIn

\* The walk down a chain, no further than its last entry.
LEMMA ExtendWalk ==
  ASSUME NEW d \in Disks, NEW D, NEW E, NEW s, On(s, D, d, E), ~Failed(s.res), NEW k \in Nat, NEW c, Linked(E, c, k),
         NEW more \in Nat, more >= k, NEW v, ExtendRuns(s, d, c[0], more, v)
  PROVE  \A i \in 0 .. k : v[i] = [call |-> s, at |-> c[i], mem |-> E[c[i]]]
<1> DEFINE Walk(i) == [call |-> s, at |-> c[i], mem |-> E[c[i]]]
           S == {i \in 0 .. k : v[i] = Walk(i)}
<1>1. \A n : At(s, d, n) = E[n]
  BY OnTypes
<1>2. 0 \in S
  BY <1>1 DEF ExtendRuns
<1>3. ASSUME NEW i \in 0 .. k - 1, i \in S PROVE i + 1 \in S
  <2>1. E[c[i]].next = c[i + 1] /\ c[i + 1] # 0
    BY DEF Linked
  <2>2. i \in 0 .. more - 1
    OBVIOUS
  <2>3. v[i + 1] = ExtendOnce(v[i], d)
    BY <2>2 DEF ExtendRuns
  <2>4. v[i] = Walk(i)
    BY <1>3
  <2> DEFINE m == i + 1
  <2>5. m \in 0 .. k /\ m = i + 1
    OBVIOUS
  <2> HIDE DEF m
  <2> DEFINE w == Walk(i)
  <2>6. w.call = s /\ w.at = c[i] /\ w.mem = E[c[i]] /\ E[c[i]].next = c[m] /\ c[m] # 0 /\ w = Walk(i)
    BY <2>1, <2>5
  <2>6a. v[m] = ExtendOnce(w, d)
    BY <2>3, <2>4, <2>5
  <2> HIDE DEF w
  <2>7a. ExtendOnce(w, d) = [w EXCEPT !.at = c[m], !.mem = At(s, d, c[m])]
    BY <2>6 DEF ExtendOnce
  <2>7. v[m] = Walk(m)
    BY <1>1, <2>6, <2>6a, <2>7a
  <2> HIDE DEF Walk
  <2> QED BY <2>5, <2>7
<1> HIDE DEF S
<1>4. \A i \in 0 .. k : i \in S
  BY <1>2, <1>3, UpTo
<1> QED BY <1>4 DEF S

\* A walk within the chain ends at the entry it has to reach and changes nothing.
LEMMA ExtendOld ==
  ASSUME NEW d \in Disks, NEW D, NEW E, NEW s, On(s, D, d, E), ~Failed(s.res), NEW k \in Nat, NEW c, Linked(E, c, k)
  PROVE  ExtendChain(s, d, c[0], k) = [call |-> s, at |-> c[k], mem |-> E[c[k]]]
<1>1. PICK v : ExtendRuns(s, d, c[0], k, v)
  BY ExtendRunsExist
<1>2. \A i \in 0 .. k : v[i] = [call |-> s, at |-> c[i], mem |-> E[c[i]]]
  BY <1>1, ExtendWalk
<1> QED BY <1>1, <1>2 DEF ExtendRuns

\* The table with one more entry, "new", after the last one of a chain.
NextOf(e, at) == [e EXCEPT !.parent = at, !.next = 0, !.size = 0, !.ref = NoRefs]
Appended(E, at, new) == [[E EXCEPT ![at] = [E[at] EXCEPT !.next = new]] EXCEPT ![new] = NextOf(E[at], at)]
Appends(walk, D, d, E, at) ==
  \E new \in EntryIndex : /\ E[new].flags = FREE /\ walk.at = new /\ walk.mem = NextOf(E[at], at)
                          /\ On(walk.call, D, d, Appended(E, at, new)) /\ walk.call.res = NO_ERROR

\* A walk one entry past the end appends a free entry, or fails with nothing changed.
LEMMA ExtendNew ==
  ASSUME NEW d \in Disks, NEW D, NEW E, NEW s, On(s, D, d, E), ~Failed(s.res), NEW k \in Nat, NEW c, Linked(E, c, k),
         NEW more \in Nat, more = k + 1
  PROVE  \/ ExtendChain(s, d, c[0], more).call = Return(s, ERROR_NO_SPACE)
         \/ Appends(ExtendChain(s, d, c[0], more), D, d, E, c[k])
<1>1. PICK v : ExtendRuns(s, d, c[0], more, v)
  BY ExtendRunsExist
<1> DEFINE walk == [call |-> s, at |-> c[k], mem |-> E[c[k]]]
           e == E[c[k]]
           new == find_free_entry(s.disk[d])
           fresh == NextOf(e, c[k])
           F == [E EXCEPT ![c[k]] = [e EXCEPT !.next = new]]
           u == write_entry(s, d, c[k], [e EXCEPT !.next = new])
           w == write_entry(u, d, new, fresh)
<1>2. v[k] = walk
  <2>1. \A i \in 0 .. k : v[i] = [call |-> s, at |-> c[i], mem |-> E[c[i]]]
    BY <1>1, ExtendWalk
  <2> QED BY <2>1
<1>3. ExtendChain(s, d, c[0], more) = ExtendOnce(walk, d)
  <2>1. k \in 0 .. more - 1
    OBVIOUS
  <2> HIDE DEF walk
  <2> QED BY <1>1, <1>2, <2>1 DEF ExtendRuns
<1>4. e.next = 0 /\ c[k] \in EntryIndex
  BY DEF Linked
<1>5. e \in Entry
  BY <1>4, OnTypes
<1>6. CASE Failed(new)
  <2>0. new = ERROR_NO_SPACE \/ new \in EntryIndex
    BY FreeEntry
  <2>1. new = ERROR_NO_SPACE
    BY <1>6, <2>0, NSFSDiskAssumption DEF Failed, EntryIndex
  <2>2. Failed(Return(s, new).res)
    BY <2>1, Returned DEF Failed, ERROR_NO_SPACE
  <2>3. ExtendOnce(walk, d) = [walk EXCEPT !.call = Return(s, new)]
    BY <1>4, <1>6, <2>2 DEF ExtendOnce
  <2> QED BY <1>3, <2>1, <2>3
<1>7. CASE ~Failed(new)
  <2>1. new \in EntryIndex /\ E[new].flags = FREE
    BY <1>7, FreeEntry DEF Failed, ERROR_NO_SPACE
  <2>2. [e EXCEPT !.next = new] \in Entry
    BY <1>5, <2>1 DEF Entry
  <2>3. fresh \in Entry
    BY <1>4, <1>5, Numbers DEF Entry, NextOf, NoRefs
  <2>4. On(u, D, d, F) /\ u.res = NO_ERROR
    BY <1>4, <2>2, WriteEntry
  <2> HIDE DEF F
  <2>5. On(w, D, d, [F EXCEPT ![new] = fresh]) /\ w.res = NO_ERROR
    BY <2>1, <2>3, <2>4, WriteEntry
  <2>6. ~Failed(u.res) /\ ~Failed(w.res)
    BY <2>4, <2>5 DEF Failed, NO_ERROR
  <2>7. ExtendOnce(walk, d) = [call |-> w, at |-> new, mem |-> fresh]
    <3> DEFINE W(x) == write_entry(x, d, new, fresh)
               t == IF Failed(new) THEN Return(s, new) ELSE Then(u, W)
    <3>1. t = w
      BY <1>7, <2>6 DEF Then
    <3>2. ExtendOnce(walk, d) = IF Failed(t.res) THEN [walk EXCEPT !.call = t] ELSE [call |-> t, at |-> new, mem |-> fresh]
      BY <1>4 DEF ExtendOnce, NextOf
    <3> HIDE DEF t, w, walk
    <3> QED BY <2>6, <3>1, <3>2
  <2>8. Appended(E, c[k], new) = [F EXCEPT ![new] = fresh]
    BY DEF Appended, F
  <2> HIDE DEF u, w, fresh, new
  <2>9. ExtendOnce(walk, d).at = new /\ ExtendOnce(walk, d).mem = fresh /\ ExtendOnce(walk, d).call = w
    BY <2>7
  <2> QED BY <1>3, <2>1, <2>5, <2>8, <2>9 DEF Appends, fresh
<1> QED BY <1>6, <1>7

\* Setting the time of an entry and of those after it changes nothing else.
LEMMA Touched ==
  ASSUME NEW d \in Disks, NEW D, NEW E, NEW s, On(s, D, d, E), NEW n \in EntryIndex,
         \A x \in EntryIndex : E[x].next = 0 \/ E[x].next # x
  PROVE  On(TouchChain(s, d, n), D, d, E) /\ TouchChain(s, d, n).res = NO_ERROR
<1>1. PICK v : TouchRuns(s, d, n, v)
  BY TouchRunsExist
<1>1a. /\ TouchChain(s, d, n) = v[NEntries].call
       /\ v[0] = [call |-> s, n |-> n, go |-> TRUE]
       /\ \A i \in 0 .. NEntries - 1 : v[i + 1] = TouchOnce(v[i], d)
  BY <1>1 DEF TouchRuns
<1>2. NEntries \in Nat /\ NEntries # 0 /\ E \in Table
  BY NSFSDiskAssumption, OnTypes
<1> DEFINE S == {i \in 0 .. NEntries : /\ On(v[i].call, D, d, E) /\ v[i].n \in EntryIndex
                                       /\ i = 0 => v[i].go
                                       /\ i > 0 => v[i].call.res = NO_ERROR}
<1>3. 0 \in S
  BY <1>1a, <1>2
<1>4. ASSUME NEW i \in 0 .. NEntries - 1, i \in S PROVE i + 1 \in S
  <2> DEFINE m == i + 1
             x == v[i].n
             t == write_entry(v[i].call, d, x, E[x])
             next == E[x].next
  <2>a. m \in 0 .. NEntries /\ m = i + 1 /\ m > 0
    BY <1>2
  <2>0. v[m] = TouchOnce(v[i], d)
    BY <1>1a
  <2> HIDE DEF m
  <2>1. On(v[i].call, D, d, E) /\ x \in EntryIndex /\ (i = 0 => v[i].go) /\ (i > 0 => v[i].call.res = NO_ERROR)
    BY <1>4
  <2>2. CASE ~v[i].go
    <3>1. v[m] = v[i] /\ i > 0
      BY <2>0, <2>1, <2>2 DEF TouchOnce
    <3> QED BY <2>1, <2>a, <3>1
  <2>3. CASE v[i].go
    <3>1. E[x] \in Entry /\ At(v[i].call, d, x) = E[x] /\ next \in EntryIndex
      BY <2>1, OnTypes DEF Entry
    <3>2. [E EXCEPT ![x] = E[x]] = E
      BY <1>2, <2>1 DEF Table
    <3>3. On(t, D, d, E) /\ t.res = NO_ERROR
      BY <2>1, <3>1, <3>2, WriteEntry
    <3>4. ~(~Failed(t.res) /\ next # 0 /\ next = x)
      BY <2>1
    <3>5. v[m].call = t /\ v[m].n = next
      BY <2>0, <2>3, <3>1, <3>4 DEF TouchOnce
    <3> HIDE DEF t, next
    <3> QED BY <2>a, <3>1, <3>3, <3>5
  <2> QED BY <2>2, <2>3
<1>5. \A i \in 0 .. NEntries : i \in S
  <2> HIDE DEF S
  <2> QED BY <1>2, <1>3, <1>4, UpTo
<1>6. NEntries \in S /\ NEntries > 0
  BY <1>2, <1>5
<1> QED BY <1>1a, <1>6

-----------------------------------------------------------------------------
(* Cutting a file shorter.  ResizeChain to a size that ends in the first entry. *)

\* The blocks of a size.
LEMMA BlocksCover ==
  ASSUME NEW size \in Nat
  PROVE  /\ needed_blocks(size) \in Nat
         /\ needed_blocks(size) * BLOCK_SIZE >= size
         /\ size + BLOCK_SIZE > needed_blocks(size) * BLOCK_SIZE
<1> DEFINE q == size \div BLOCK_SIZE
           r == size % BLOCK_SIZE
<1>1. BLOCK_SIZE \in Nat /\ BLOCK_SIZE > 0
  BY Numbers
<1>2. q \in Nat /\ r \in 0 .. BLOCK_SIZE - 1 /\ size = BLOCK_SIZE * q + r
  BY <1>1, DivMod
<1>3. needed_blocks(size) = q + (IF r = 0 THEN 0 ELSE 1)
  BY DEF needed_blocks
<1> DEFINE b == BLOCK_SIZE
           nb == needed_blocks(size)
<1>3a. b \in Nat /\ b > 0 /\ size = b * q + r /\ r \in 0 .. b - 1 /\ nb = q + (IF r = 0 THEN 0 ELSE 1)
  BY <1>1, <1>2, <1>3
<1> HIDE DEF q, r, b, nb
<1>4. q * b = b * q /\ (q + 1) * b = q * b + b /\ q * b \in Nat
  BY <1>2, <1>3a
<1>5. nb \in Nat /\ nb * b >= size /\ size + b > nb * b
  <2>1. CASE r = 0
    <3>1. nb = q
      BY <1>2, <1>3a, <2>1
    <3>2. size = q * b
      BY <1>2, <1>3a, <1>4, <2>1
    <3> QED BY <1>2, <1>3a, <1>4, <3>1, <3>2
  <2>2. CASE r # 0
    <3>1. nb = q + 1
      BY <1>3a, <2>2
    <3>2. size = q * b + r
      BY <1>3a, <1>4
    <3>3. nb * b = q * b + b
      BY <1>4, <3>1
    <3>4. nb \in Nat
      BY <1>2, <3>1
    <3> QED BY <1>3a, <1>4, <2>2, <3>2, <3>3, <3>4
  <2> QED BY <2>1, <2>2
<1>6. needed_blocks(size) = nb /\ BLOCK_SIZE = b
  BY DEF nb, b
<1> QED BY <1>5, <1>6

\* A larger size needs no fewer blocks.
LEMMA BlocksOrder ==
  ASSUME NEW a \in Nat, NEW b \in Nat, a <= b
  PROVE  needed_blocks(a) <= needed_blocks(b)
<1> DEFINE x == needed_blocks(a)
           y == needed_blocks(b)
           m == BLOCK_SIZE
<1>0. m \in Nat /\ m > 0
  BY Numbers
<1>0a. x \in Nat /\ a + m > x * m
  BY BlocksCover
<1>0b. y \in Nat /\ y * m >= b
  BY BlocksCover
<1>1. m \in Nat /\ m > 0 /\ x \in Nat /\ y \in Nat /\ a + m > x * m /\ y * m >= b
  BY <1>0, <1>0a, <1>0b
<1> HIDE DEF x, y, m
<1>2. SUFFICES ASSUME x > y PROVE FALSE
  BY <1>1 DEF x, y
<1>3. x * m >= (y + 1) * m /\ (y + 1) * m = y * m + m
  BY <1>1, <1>2
<1> QED BY <1>1, <1>3

\* How many blocks a size needs.
LEMMA BlocksAre ==
  ASSUME NEW size \in Nat, NEW q \in Nat, q * BLOCK_SIZE >= size, size + BLOCK_SIZE > q * BLOCK_SIZE
  PROVE  needed_blocks(size) = q
<1> DEFINE x == needed_blocks(size)
           m == BLOCK_SIZE
<1>1. m \in Nat /\ m > 0 /\ x \in Nat /\ size + m > x * m /\ x * m >= size /\ q * m >= size /\ size + m > q * m
  BY Numbers, BlocksCover
<1> HIDE DEF x, m
<1>2. CASE x > q
  <2>1. x * m >= (q + 1) * m /\ (q + 1) * m = q * m + m
    BY <1>1, <1>2
  <2> QED BY <1>1, <2>1
<1>3. CASE x < q
  <2>1. q * m >= (x + 1) * m /\ (x + 1) * m = x * m + m
    BY <1>1, <1>3
  <2> QED BY <1>1, <2>1
<1> QED BY <1>1, <1>2, <1>3 DEF x

\* The size of a chain of one entry.
LEMMA SetHeadSize ==
  ASSUME NEW d \in Disks, NEW D, NEW E, NEW s, On(s, D, d, E), NEW n \in EntryIndex, IsFile(E[n]),
         E[n].next = 0, NEW size \in 0 .. Capacity
  PROVE  /\ On(set_entry_size(s, d, n, size), D, d, [E EXCEPT ![n] = [E[n] EXCEPT !.size = size]])
         /\ set_entry_size(s, d, n, size).res = NO_ERROR
<1> DEFINE c == [i \in 0 .. 0 |-> n]
<1>1. c \in [0 .. 0 -> EntryIndex] /\ c[0] = n /\ \A i \in 0 .. 0 : i = 0
  OBVIOUS
<1>2. EntryCapacity(E[n]) = Capacity
  BY DEF EntryCapacity, IsFile, T_DIR, T_FILE, Capacity
<1>3. Capacity \in Nat /\ size \in Nat /\ 0 * Capacity = 0
  BY Numbers
<1> HIDE DEF c
<1>4. PICK F : /\ On(set_entry_size(s, d, c[0], size), D, d, F)
               /\ set_entry_size(s, d, c[0], size).res = NO_ERROR
               /\ Resized(E, F, c, 0 + 1, size, Capacity)
  <2>1. Linked(E, c, 0)
    BY <1>1 DEF Linked
  <2>2. Takes(E, c, 0, Capacity, size)
    BY <1>1, <1>2, <1>3 DEF Takes
  <2> QED BY <1>3, <2>1, <2>2, SetSizes
<1>5. F \in Table /\ E \in Table /\ \A x \in EntryIndex \ {n} : F[x] = E[x]
  BY <1>1, <1>4, OnTypes DEF Resized
<1>6. F[n] = [E[n] EXCEPT !.size = size]
  <2>1. F[c[0]] = [E[c[0]] EXCEPT !.size = size - 0 * Capacity]
    BY <1>4 DEF Resized
  <2> QED BY <1>1, <1>3, <2>1
<1>7. F = [E EXCEPT ![n] = [E[n] EXCEPT !.size = size]]
  BY <1>5, <1>6 DEF Table
<1> QED BY <1>1, <1>4, <1>7

\* A chain without its first entry.
Rest(c, k) == [i \in 0 .. k - 1 |-> c[i + 1]]

\* The chain after its head.
LEMMA RestLinked ==
  ASSUME NEW E, NEW F, NEW k \in Nat \ {0}, NEW c, Linked(E, c, k),
         \A x \in EntryIndex : x # c[0] => F[x] = E[x]
  PROVE  /\ Linked(F, Rest(c, k), k - 1) /\ Rest(c, k)[0] = c[1]
         /\ From(Rest(c, k), 0, k - 1) = From(c, 1, k)
<1> DEFINE r == Rest(c, k)
<1>1. \A i \in 0 .. k - 1 : i + 1 \in 0 .. k /\ i + 1 # 0 /\ r[i] = c[i + 1]
  BY DEF Rest
<1>2. r \in [0 .. k - 1 -> EntryIndex]
  <2>1. \A i \in 0 .. k - 1 : c[i + 1] \in EntryIndex
    BY <1>1 DEF Linked
  <2> QED BY <2>1 DEF Rest
<1> HIDE DEF r
<1>3. \A i, j \in 0 .. k - 1 : r[i] = r[j] => i = j
  <2> SUFFICES ASSUME NEW i \in 0 .. k - 1, NEW j \in 0 .. k - 1, r[i] = r[j] PROVE i = j
    OBVIOUS
  <2> DEFINE x == i + 1
             y == j + 1
  <2>1. x \in 0 .. k /\ y \in 0 .. k /\ c[x] = c[y] /\ x = i + 1 /\ y = j + 1
    BY <1>1
  <2> HIDE DEF x, y
  <2>2. x = y
    BY <2>1 DEF Linked
  <2> QED BY <2>1, <2>2
<1>4. \A i \in 0 .. k - 1 : r[i] # c[0] /\ F[r[i]] = E[r[i]]
  BY <1>1, <1>2 DEF Linked
<1>5. \A j \in 0 .. k - 1 - 1 : F[r[j]].next = r[j + 1] /\ r[j + 1] # 0
  <2> SUFFICES ASSUME NEW j \in 0 .. k - 1 - 1 PROVE F[r[j]].next = r[j + 1] /\ r[j + 1] # 0
    OBVIOUS
  <2> DEFINE m == j + 1
  <2>1. j \in 0 .. k - 1 /\ m \in 0 .. k - 1 /\ m = j + 1
    OBVIOUS
  <2> HIDE DEF m
  <2>2. F[r[j]] = E[c[m]] /\ r[m] = c[m + 1] /\ E[c[m]].next = c[m + 1] /\ c[m + 1] # 0
    BY <1>1, <1>4, <2>1 DEF Linked
  <2> QED BY <2>1, <2>2
<1>6. F[r[k - 1]].next = 0
  <2>1. k - 1 \in 0 .. k - 1 /\ k - 1 + 1 = k
    OBVIOUS
  <2> QED BY <1>1, <1>4, <2>1 DEF Linked
<1>7. Linked(F, r, k - 1)
  BY <1>2, <1>3, <1>5, <1>6 DEF Linked
<1>8. From(r, 0, k - 1) = From(c, 1, k)
  <2>1. \A x \in From(r, 0, k - 1) : x \in From(c, 1, k)
    <3>1. \A i \in 0 .. k - 1 : i + 1 \in 1 .. k
      OBVIOUS
    <3> QED BY <1>1, <3>1 DEF From
  <2>2. \A x \in From(c, 1, k) : x \in From(r, 0, k - 1)
    <3> SUFFICES ASSUME NEW i \in 1 .. k PROVE c[i] \in From(r, 0, k - 1)
      BY DEF From
    <3>1. i - 1 \in 0 .. k - 1 /\ i - 1 + 1 = i
      OBVIOUS
    <3>2. r[i - 1] = c[i]
      BY <1>1, <3>1
    <3> QED BY <3>1, <3>2 DEF From
  <2> QED BY <2>1, <2>2
<1>9. r[0] = c[1]
  BY <1>1
<1> QED BY <1>7, <1>8, <1>9 DEF r

\* Ending a chain at its head.
LEMMA EndAtHead ==
  ASSUME NEW d \in Disks, NEW D, NEW E, NEW s, On(s, D, d, E), NEW k \in Nat, NEW c, Linked(E, c, k),
         NEW last \in Entry, last.next = E[c[0]].next
  PROVE  /\ On(EndChain(s, d, c[0], last), D, d, [Zeroed(E, From(c, 1, k)) EXCEPT ![c[0]] = [last EXCEPT !.next = 0]])
         /\ EndChain(s, d, c[0], last).res = NO_ERROR
<1> DEFINE n == c[0]
           l0 == [last EXCEPT !.next = 0]
           F == [E EXCEPT ![n] = last]
           G == [F EXCEPT ![n] = l0]
           t == write_entry(s, d, n, last)
           u == write_entry(t, d, n, l0)
<1>1. E \in Table /\ n \in EntryIndex
  BY OnTypes DEF Linked
<1>2. l0 \in Entry /\ l0.next = 0
  BY Numbers DEF Entry
<1>3. CASE k = 0
  <2>1. last.next = 0
    BY <1>3 DEF Linked
  <2>2. EndChain(s, d, n, last) = t
    BY <2>1, EndChainLast
  <2>3. Zeroed(E, From(c, 1, k)) = E
    <3>1. 1 \in Nat /\ 1 > k
      BY <1>3
    <3> QED BY <1>1, <3>1, ZeroedNone
  <2>4. last = l0
    BY <2>1 DEF Entry
  <2> HIDE DEF l0
  <2>5. On(t, D, d, [E EXCEPT ![n] = last]) /\ t.res = NO_ERROR
    BY <1>1, WriteEntry
  <2> HIDE DEF t
  <2> QED BY <2>2, <2>3, <2>4, <2>5 DEF l0
<1>4. CASE k # 0
  <2>1. last.next = c[1] /\ c[1] # 0
    <3>1. 0 \in 0 .. k - 1 /\ 0 + 1 = 1
      BY <1>4
    <3>2. E[c[0]].next = c[0 + 1] /\ c[0 + 1] # 0
      BY <3>1 DEF Linked
    <3> QED BY <3>1, <3>2
  <2> HIDE DEF l0
  <2>2. On(t, D, d, F) /\ t.res = NO_ERROR
    BY <1>1, WriteEntry
  <2> HIDE DEF t, F
  <2>3. On(u, D, d, G) /\ u.res = NO_ERROR
    BY <1>1, <1>2, <2>2, WriteEntry
  <2> HIDE DEF u, G
  <2>4. G \in Table /\ G[n] = l0 /\ \A x \in EntryIndex : x # c[0] => G[x] = E[x]
    BY <1>1, <1>2 DEF Table, F, G
  <2>5. /\ Linked(G, Rest(c, k), k - 1) /\ Rest(c, k)[0] = c[1]
        /\ From(Rest(c, k), 0, k - 1) = From(c, 1, k) /\ k - 1 \in Nat
    BY <1>4, <2>4, RestLinked
  <2>6. On(FreeChain(u, d, c[1]), D, d, Zeroed(G, From(c, 1, k))) /\ FreeChain(u, d, c[1]).res = NO_ERROR
    <3> DEFINE r == Rest(c, k)
               j == k - 1
    <3>1. j \in Nat /\ Linked(G, r, j) /\ r[0] = c[1] /\ From(r, 0, j) = From(c, 1, k)
      BY <2>5
    <3> HIDE DEF r, j
    <3>2. On(FreeChain(u, d, r[0]), D, d, Zeroed(G, From(r, 0, j))) /\ FreeChain(u, d, r[0]).res = NO_ERROR
      BY <2>3, <3>1, FreeAll
    <3> QED BY <3>1, <3>2
  <2>7. EndChain(s, d, n, last) = FreeChain(u, d, c[1])
    <3> DEFINE W(x) == FreeChain(x, d, last.next)
               C(x) == IF last.next = 0 THEN x ELSE Then(write_entry(x, d, n, [last EXCEPT !.next = 0]), W)
    <3>1. EndChain(s, d, n, last) = Then(t, C)
      BY DEF EndChain, t
    <3>2. ~Failed(t.res) /\ ~Failed(u.res)
      BY <2>2, <2>3 DEF Failed, NO_ERROR
    <3>3. C(t) = Then(u, W)
      BY <2>1 DEF u, l0
    <3> HIDE DEF C
    <3>4. Then(t, C) = C(t)
      BY <3>2 DEF Then
    <3>5. Then(u, W) = W(u)
      BY <3>2 DEF Then
    <3> QED BY <2>1, <3>1, <3>3, <3>4, <3>5
  <2>8. Zeroed(G, From(c, 1, k)) = [Zeroed(E, From(c, 1, k)) EXCEPT ![n] = l0]
    <3> DEFINE Z == From(c, 1, k)
    <3>1. n \notin Z
      BY DEF Linked, From
    <3> HIDE DEF Z
    <3>2. [Zeroed(E, Z) EXCEPT ![n] = l0] = [x \in EntryIndex |-> IF x = n THEN l0 ELSE Zeroed(E, Z)[x]]
      BY <1>1 DEF Zeroed
    <3>3. \A x \in EntryIndex : Zeroed(G, Z)[x] = IF x = n THEN l0 ELSE Zeroed(E, Z)[x]
      BY <1>1, <2>4, <3>1 DEF Zeroed
    <3>4. Zeroed(G, Z) = [x \in EntryIndex |-> Zeroed(G, Z)[x]]
      BY DEF Zeroed
    <3>5. Zeroed(G, Z) = [Zeroed(E, Z) EXCEPT ![n] = l0]
      BY <3>2, <3>3, <3>4
    <3> QED BY <3>5 DEF Z
  <2> QED BY <2>6, <2>7, <2>8 DEF l0
<1> QED BY <1>3, <1>4

\* What is kept of the files and directories of E, and of the sizes of those not in X.
Kept(E, F, X) ==
  \A m \in UsedIn(E) : IsDir(E[E[m].parent]) =>
    /\ F[m].flags = E[m].flags /\ F[m].name = E[m].name /\ F[m].parent = E[m].parent
    /\ m \notin X => F[m].size = E[m].size

\* A directory is in a directory.
LEMMA DirInDir ==
  ASSUME NEW E \in Table, NEW O, Good(E, O), NEW p \in EntryIndex, IsDir(E[p])
  PROVE  p \in UsedIn(E) /\ E[p].parent \in UsedIn(E) /\ IsDir(E[E[p].parent])
<1>1. p \in UsedIn(E)
  BY DEF UsedIn, IsDir, T_DIR, FREE
<1>2. E[p].parent \in EntryIndex /\ E[E[p].parent] \in Entry
  BY DEF Table, Entry
<1>3. CASE p = 0
  BY <1>1, <1>2, <1>3 DEF Good, RootIsRoot, IsDir, UsedIn
<1>4. CASE p # 0
  <2>1. E[E[p].parent].flags # FREE /\ (IsFile(E[E[p].parent]) => E[E[p].parent].next = p)
    BY <1>1, <1>4 DEF Good, Parents
  <2>2. ~IsFile(E[E[p].parent])
    <3> SUFFICES ASSUME IsFile(E[E[p].parent]) PROVE FALSE
      OBVIOUS
    <3>1. E[E[p].parent].next = p
      BY <2>1
    <3>2. IsFile(E[p])
      BY <1>2, <1>4, <3>1 DEF Good, Chains
    <3> QED BY <3>2 DEF IsFile, IsDir, T_FILE, T_DIR
  <2> QED BY <1>1, <1>2, <2>1, <2>2 DEF UsedIn, Entry, IsFile, IsDir
<1> QED BY <1>3, <1>4

\* Two changes of one file after each other are a change of that file.
LEMMA KeptAfter ==
  ASSUME NEW E \in Table, NEW O, Good(E, O), NEW F, NEW G, NEW X, NEW Y, Kept(E, F, X), Kept(F, G, Y), X \subseteq Y
  PROVE  Kept(E, G, Y)
<1> SUFFICES ASSUME NEW m \in UsedIn(E), IsDir(E[E[m].parent])
             PROVE  /\ G[m].flags = E[m].flags /\ G[m].name = E[m].name /\ G[m].parent = E[m].parent
                    /\ m \notin Y => G[m].size = E[m].size
  BY DEF Kept
<1>1. m \in EntryIndex /\ E[m].flags # FREE /\ E[m].parent \in EntryIndex
  BY DEF Table, Entry, UsedIn
<1>2. /\ F[m].flags = E[m].flags /\ F[m].name = E[m].name /\ F[m].parent = E[m].parent
      /\ m \notin X => F[m].size = E[m].size
  BY DEF Kept
<1>3. E[m].parent \in UsedIn(E) /\ IsDir(E[E[E[m].parent].parent])
  BY <1>1, DirInDir
<1>4. F[E[m].parent].flags = E[E[m].parent].flags
  BY <1>3 DEF Kept
<1>5. m \in UsedIn(F) /\ IsDir(F[F[m].parent])
  BY <1>1, <1>2, <1>4 DEF UsedIn, IsDir
<1> QED BY <1>2, <1>5 DEF Kept

\* The file has the size, and nothing else has changed.
Resizes(t, D, d, E, n, size) ==
  \E F : On(t, D, d, F) /\ Good(F, {}) /\ Kept(E, F, {n}) /\ F[n].size = size

\* Giving a file a size that its head entry has the references for already.
LEMMA ResizeInHead ==
  ASSUME NEW d \in Disks, NEW D, NEW E, NEW s, On(s, D, d, E), ~Failed(s.res), Good(E, {}),
         NEW n \in EntryIndex, IsFile(E[n]), IsDir(E[E[n].parent]),
         NEW size \in Nat, needed_blocks(size) < SFS_ENTRYREFS, needed_blocks(size) <= needed_blocks(E[n].size)
  PROVE  /\ Resizes(ResizeChain(s, d, n, size), D, d, E, n, size)
         /\ ResizeChain(s, d, n, size).res = NO_ERROR
<1> DEFINE count == needed_blocks(size)
           last == ClearRefs(E[n], count)
           l0 == [last EXCEPT !.next = 0]
           e == [l0 EXCEPT !.size = size]
           t == EndChain(s, d, n, last)
           u == set_entry_size(t, d, n, size)
<1>1. E \in Table /\ E[n] \in Entry
  BY OnTypes
<1>2. PICK k \in Nat : \E c : FileChain(E, n, c, k)
  BY <1>1, ChainOf DEF Good
<1>3. PICK c : FileChain(E, n, c, k)
  BY <1>2
<1> DEFINE Z == From(c, 1, k)
           F == [Zeroed(E, Z) EXCEPT ![n] = l0]
           G == [Zeroed(E, Z) EXCEPT ![n] = e]
<1>4. count \in RefIndex /\ count \in Nat /\ count * BLOCK_SIZE >= size
  <2>1. count \in Nat /\ count * BLOCK_SIZE >= size
    BY BlocksCover
  <2> HIDE DEF count
  <2> QED BY <2>1, Numbers DEF RefIndex, count
<1>5. size \in 0 .. Capacity
  <2> DEFINE b == BLOCK_SIZE
             r == SFS_ENTRYREFS
  <2>1. b \in Nat /\ b > 0 /\ r \in Nat /\ count < r /\ count * b >= size
    BY <1>4, Numbers
  <2> HIDE DEF count, b, r
  <2>2. count * b <= r * b
    BY <1>4, <2>1
  <2>3. r * b = Capacity
    BY DEF r, b, Capacity
  <2> QED BY <1>4, <2>1, <2>2, <2>3, Numbers
<1>6. /\ last \in Entry /\ last.flags = E[n].flags /\ last.name = E[n].name
      /\ last.parent = E[n].parent /\ last.next = E[n].next /\ last.size = E[n].size
      /\ \A j \in RefIndex : last.ref[j] = IF j >= count THEN 0 ELSE E[n].ref[j]
  BY <1>1, <1>4, Cleared
<1> HIDE DEF last
<1>7. /\ l0 \in Entry /\ l0.flags = E[n].flags /\ l0.name = E[n].name
      /\ l0.parent = E[n].parent /\ l0.next = 0 /\ l0.ref = last.ref
  BY <1>6, Numbers DEF Entry
<1>8. /\ e \in Entry /\ e.flags = E[n].flags /\ e.name = E[n].name
      /\ e.parent = E[n].parent /\ e.next = 0 /\ e.size = size
      /\ \A j \in RefIndex : e.ref[j] = IF j >= count THEN 0 ELSE E[n].ref[j]
  <2>1. /\ e \in Entry /\ e.flags = E[n].flags /\ e.name = E[n].name
        /\ e.parent = E[n].parent /\ e.next = 0 /\ e.size = size /\ e.ref = last.ref
    BY <1>7 DEF Entry
  <2> HIDE DEF e
  <2> QED BY <1>6, <2>1
<1>9. Linked(E, c, k) /\ c[0] = n
  BY <1>3 DEF FileChain
<1>10. On(t, D, d, F) /\ t.res = NO_ERROR
  <2> HIDE DEF l0
  <2>0. last \in Entry /\ last.next = E[c[0]].next /\ Linked(E, c, k)
    BY <1>6, <1>9
  <2>1. On(EndChain(s, d, c[0], last), D, d, [Zeroed(E, From(c, 1, k)) EXCEPT ![c[0]] = [last EXCEPT !.next = 0]])
        /\ EndChain(s, d, c[0], last).res = NO_ERROR
    BY <2>0, EndAtHead
  <2> QED BY <1>9, <2>1 DEF l0
<1>11. Zeroed(E, Z) \in Table /\ F \in Table /\ F[n] = l0
  <2>1. Zeroed(E, Z) \in Table
    BY <1>1, ZeroedFields
  <2> HIDE DEF l0, Z
  <2> QED BY <1>7, <2>1 DEF Table
<1>12. On(u, D, d, G) /\ u.res = NO_ERROR
  <2>1. IsFile(F[n]) /\ F[n].next = 0
    BY <1>7, <1>11 DEF IsFile
  <2>2. G = [F EXCEPT ![n] = [F[n] EXCEPT !.size = size]]
    <3> HIDE DEF l0, Z
    <3> QED BY <1>11 DEF Table
  <2> HIDE DEF F, t, G
  <2>3. On(u, D, d, [F EXCEPT ![n] = [F[n] EXCEPT !.size = size]]) /\ u.res = NO_ERROR
    BY <1>5, <1>10, <2>1, SetHeadSize
  <2> QED BY <2>2, <2>3
<1>13. Z \in SUBSET UsedIn(E)
  <2> SUFFICES ASSUME NEW j \in 1 .. k PROVE c[j] \in UsedIn(E)
    BY DEF From
  <2>1. j \in 0 .. k
    OBVIOUS
  <2> QED BY <1>3, <2>1 DEF FileChain, Linked, UsedIn, IsFile, T_FILE, FREE
<1>14. EndsIn(E, n, e, Z)
  <2>1. \A i \in RefIndex : e.ref[i] \in {0, E[n].ref[i]}
    BY <1>8
  <2>2. LiveRefs(e) = 0 .. count - 1
    <3>1. e.flags = T_FILE
      BY <1>8 DEF IsFile
    <3>2. Least(count, SFS_ENTRYREFS) = count
      <4> HIDE DEF count
      <4> QED BY <1>4, Numbers DEF Least, RefIndex
    <3> HIDE DEF e
    <3> QED BY <1>8, <3>1, <3>2 DEF LiveRefs, T_FILE, T_DIR
  <2>3. \A i \in RefIndex \ LiveRefs(e) : e.ref[i] = 0
    <3> HIDE DEF e, count
    <3> QED BY <1>4, <1>8, <2>2, Numbers DEF RefIndex
  <2>4. n \notin Z
    BY <1>9 DEF Linked, From
  <2>5. E[n].next = 0 \/ E[n].next \in Z
    <3>1. CASE k = 0
      BY <1>9, <3>1 DEF Linked
    <3>2. CASE k # 0
      <4>1. 0 \in 0 .. k - 1 /\ 0 + 1 = 1 /\ 1 \in 1 .. k
        BY <3>2
      <4>2. E[c[0]].next = c[0 + 1]
        BY <1>9, <4>1 DEF Linked
      <4> QED BY <1>9, <4>1, <4>2 DEF From
    <3> QED BY <3>1, <3>2
  <2>6. ASSUME NEW z \in Z
        PROVE  IsFile(E[z]) /\ (E[z].next = 0 \/ E[z].next \in Z) /\ (E[z].parent = n \/ E[z].parent \in Z)
    <3>1. PICK j \in 1 .. k : z = c[j]
      BY DEF From
    <3>2. IsFile(E[z])
      <4>1. j \in 0 .. k
        OBVIOUS
      <4> QED BY <1>3, <3>1, <4>1 DEF FileChain
    <3>3. E[z].next = 0 \/ E[z].next \in Z
      <4>1. CASE j = k
        BY <1>9, <3>1, <4>1 DEF Linked
      <4>2. CASE j # k
        <5>1. j \in 0 .. k - 1 /\ j + 1 \in 1 .. k
          BY <4>2
        <5>2. E[c[j]].next = c[j + 1]
          BY <1>9, <5>1 DEF Linked
        <5> QED BY <3>1, <5>1, <5>2 DEF From
      <4> QED BY <4>1, <4>2
    <3>4. E[z].parent = n \/ E[z].parent \in Z
      <4> DEFINE i == j - 1
      <4>1. i \in 0 .. k - 1 /\ j = i + 1
        OBVIOUS
      <4> HIDE DEF i
      <4>2. E[c[i + 1]].parent = c[i]
        BY <1>3, <4>1 DEF FileChain
      <4>3. i = 0 \/ i \in 1 .. k
        BY <4>1
      <4> QED BY <1>9, <3>1, <4>1, <4>2, <4>3 DEF From
    <3> QED BY <3>2, <3>3, <3>4
  <2>7. IsFile(E[n]) /\ IsDir(E[E[n].parent]) /\ e.flags = T_FILE /\ e.name = E[n].name /\ e.parent = E[n].parent /\ e.next = 0
        /\ e.size <= Capacity
    BY <1>5, <1>8 DEF IsFile
  <2> HIDE DEF e, Z
  <2> QED BY <2>1, <2>3, <2>4, <2>5, <2>6, <2>7 DEF EndsIn
<1>15. Good(G, {})
  <2> HIDE DEF e, Z
  <2> QED BY <1>1, <1>8, <1>13, <1>14, CutShorter
<1>16. Kept(E, G, {n}) /\ G[n].size = size
  <2>1. \A m \in EntryIndex : G[m] = IF m = n THEN e ELSE IF m \in Z THEN ZeroEntry ELSE E[m]
    <3> HIDE DEF e, Z
    <3>1. \A m \in EntryIndex : Zeroed(E, Z)[m] = IF m \in Z THEN ZeroEntry ELSE E[m]
      BY <1>1, ZeroedFields
    <3> QED BY <1>11, <3>1 DEF Table
  <2>2. \A z \in Z : IsFile(E[E[z].parent])
    <3> SUFFICES ASSUME NEW z \in Z PROVE IsFile(E[E[z].parent])
      OBVIOUS
    <3>1. E[z].parent = n \/ E[z].parent \in Z
      BY <1>14 DEF EndsIn
    <3> QED BY <1>14, <3>1 DEF EndsIn
  <2>3. \A m \in UsedIn(E) : IsDir(E[E[m].parent]) => m \notin Z
    BY <2>2 DEF IsFile, IsDir, T_FILE, T_DIR
  <2> HIDE DEF e, Z, G
  <2>4. \A m \in UsedIn(E) : m \in EntryIndex
    BY DEF UsedIn
  <2> QED BY <1>8, <2>1, <2>3, <2>4 DEF Kept
<1>17. ResizeChain(s, d, n, size) = u
  <2> DEFINE W(x) == set_entry_size(x, d, n, size)
  <2>1. set_entry_refcount(s, d, n, count) = t
    BY <1>4, RefcountInHead DEF last
  <2>2. ResizeChain(s, d, n, size) = Then(set_entry_refcount(s, d, n, count), W)
    BY DEF ResizeChain
  <2>3. ~Failed(t.res)
    BY <1>10 DEF Failed, NO_ERROR
  <2> HIDE DEF t
  <2> QED BY <2>1, <2>2, <2>3 DEF Then
<1> HIDE DEF u, G
<1> QED BY <1>12, <1>15, <1>16, <1>17 DEF Resizes

-----------------------------------------------------------------------------
(* Growing within an entry.  Grow by a block that the last entry has a reference for. *)

\* Where reference number r * k + x of a chain is, when the size takes it as the last.
LEMMA GrowNumbers ==
  ASSUME NEW k \in Nat, NEW x \in RefIndex, NEW size \in Nat, needed_blocks(size) = SFS_ENTRYREFS * k + x + 1
  PROVE  /\ size - k * Capacity \in 0 .. Capacity
         /\ needed_blocks(size - k * Capacity) = x + 1
         /\ \A j \in 0 .. k : size - j * Capacity \in Nat
         /\ \A j \in 0 .. k - 1 : size - j * Capacity > Capacity
<1> DEFINE b == BLOCK_SIZE
           r == SFS_ENTRYREFS
           cap == Capacity
           nb == needed_blocks(size)
           rest == size - k * cap
<1>1. b \in Nat /\ b > 0 /\ r \in Nat /\ r > 1 /\ cap \in Nat /\ cap > 0 /\ cap = r * b /\ x \in 0 .. r - 1
  BY Numbers DEF Capacity, RefIndex
<1>2. nb \in Nat /\ nb * b >= size /\ size + b > nb * b
  BY BlocksCover
<1>3. nb = r * k + x + 1
  OBVIOUS
<1> HIDE DEF b, r, cap, nb
<1>4. k * cap \in Nat /\ k * cap = (r * k) * b
  BY <1>1
<1>5. nb * b = (r * k) * b + (x + 1) * b
  BY <1>1, <1>3
<1>6. (x + 1) * b <= r * b /\ (x + 1) * b = x * b + b /\ x * b \in Nat /\ (x + 1) * b \in Nat
  BY <1>1
<1>7. rest \in 0 .. cap /\ (x + 1) * b >= rest /\ rest + b > (x + 1) * b
  BY <1>1, <1>2, <1>4, <1>5, <1>6
<1>8. needed_blocks(rest) = x + 1
  <2> DEFINE q == x + 1
  <2>1. q \in Nat /\ q * b >= rest /\ rest + b > q * b /\ rest \in Nat
    BY <1>1, <1>7
  <2> HIDE DEF q, rest
  <2>2. needed_blocks(rest) = q
    BY <2>1, BlocksAre DEF b
  <2> QED BY <2>2 DEF q
<1>9. rest > 0
  BY <1>1, <1>6, <1>7
<1>10. \A j \in 0 .. k - 1 : size - j * cap > cap
  <2> SUFFICES ASSUME NEW j \in 0 .. k - 1 PROVE size - j * cap > cap
    OBVIOUS
  <2>1. (j + 1) * cap <= k * cap /\ (j + 1) * cap = j * cap + cap /\ j * cap \in Nat
    BY <1>1
  <2> QED BY <1>1, <1>4, <1>9, <2>1
<1>11. \A j \in 0 .. k : size - j * cap \in Nat
  <2> SUFFICES ASSUME NEW j \in 0 .. k PROVE size - j * cap \in Nat
    OBVIOUS
  <2>1. j * cap <= k * cap /\ j * cap \in Nat
    BY <1>1
  <2> QED BY <1>1, <1>4, <1>9, <2>1
<1> HIDE DEF rest
<1> QED BY <1>7, <1>8, <1>10, <1>11 DEF rest, cap

\* How many references the chain of a file has in use.
LEMMA ChainNumbers ==
  ASSUME NEW k \in Nat, NEW size \in Nat, size - k * Capacity <= Capacity, k > 0 => size - (k - 1) * Capacity > Capacity
  PROVE  /\ needed_blocks(size) - SFS_ENTRYREFS * k \in 0 .. SFS_ENTRYREFS
         /\ size - k * Capacity \in Nat
         /\ needed_blocks(size - k * Capacity) = needed_blocks(size) - SFS_ENTRYREFS * k
<1> DEFINE b == BLOCK_SIZE
           r == SFS_ENTRYREFS
           cap == Capacity
           nb == needed_blocks(size)
           rest == size - k * cap
<1>1. b \in Nat /\ b > 0 /\ r \in Nat /\ r > 1 /\ cap \in Nat /\ cap > 0 /\ cap = r * b
  BY Numbers DEF Capacity
<1>2. nb \in Nat /\ nb * b >= size /\ size + b > nb * b
  BY BlocksCover
<1>3. rest <= cap /\ rest \in Nat
  <2>1. size - k * cap <= cap
    OBVIOUS
  <2>2. CASE k = 0
    BY <1>1, <2>1, <2>2
  <2>3. CASE k # 0
    <3>1. size - (k - 1) * cap > cap
      BY <2>3
    <3> HIDE DEF cap
    <3>2. (k - 1) * cap = k * cap - cap /\ k * cap \in Nat
      BY <1>1
    <3> QED BY <1>1, <2>1, <3>1, <3>2
  <2> QED BY <2>2, <2>3
<1> HIDE DEF b, r, cap, nb
<1> DEFINE q == nb - r * k
<1>4. k * cap \in Nat /\ k * cap = (r * k) * b /\ r * k \in Nat /\ size = k * cap + rest
  BY <1>1
<1>5. q \in Int /\ nb * b = (r * k) * b + q * b /\ q * b \in Int
  BY <1>1, <1>2, <1>4
<1> HIDE DEF rest
<1>6. q * b >= rest /\ rest + b > q * b
  BY <1>1, <1>2, <1>3, <1>4, <1>5
<1> HIDE DEF q
<1>7. q >= 0
  <2> SUFFICES ASSUME q < 0 PROVE FALSE
    BY <1>5
  <2>1. q * b < 0
    BY <1>1, <1>5
  <2> QED BY <1>3, <1>6, <2>1, <1>5
<1>8. q <= r
  <2> SUFFICES ASSUME q >= r + 1 PROVE FALSE
    BY <1>1, <1>5
  <2>1. q * b >= (r + 1) * b /\ (r + 1) * b = r * b + b
    BY <1>1, <1>5
  <2> QED BY <1>1, <1>3, <1>5, <1>6, <2>1
<1>9. needed_blocks(rest) = q
  BY <1>3, <1>5, <1>6, <1>7, BlocksAre DEF b
<1> QED BY <1>1, <1>3, <1>5, <1>7, <1>8, <1>9 DEF q, nb, r, rest, cap

\* The number of entries for one more reference than r * k + x.
LEMMA EntriesFor ==
  ASSUME NEW k \in Nat, NEW x \in RefIndex, NEW count, count = SFS_ENTRYREFS * k + x + 1
  PROVE  LET nentries == count \div SFS_ENTRYREFS + (IF count % SFS_ENTRYREFS = 0 THEN 0 ELSE 1)
             first_unused == Least(SFS_ENTRYREFS - 1, count) % SFS_ENTRYREFS
         IN  /\ (IF nentries = 0 THEN 0 ELSE nentries - 1) = k
             /\ first_unused \in Nat /\ first_unused >= x
<1> DEFINE r == SFS_ENTRYREFS
           f == Least(r - 1, count)
           nentries == count \div r + (IF count % r = 0 THEN 0 ELSE 1)
<1>1. r \in Nat /\ r > 1 /\ x \in 0 .. r - 1 /\ count = r * k + x + 1
  BY Numbers DEF RefIndex
<1>2. count \in Nat /\ r * k \in Nat
  <2> HIDE DEF r
  <2> QED BY <1>1
<1>3. f \in 0 .. r - 1 /\ f >= x
  <2> HIDE DEF r
  <2> QED BY <1>1, <1>2 DEF Least
<1>4. f % r = f
  <2> HIDE DEF r, f
  <2>1. f = r * 0 + f /\ f \in Nat
    BY <1>1, <1>3
  <2> QED BY <1>1, <1>3, <2>1, DivIs
<1>5. nentries = k + 1
  <2> HIDE DEF r, f
  <2>1. CASE x + 1 < r
    <3>1. count = r * k + (x + 1) /\ x + 1 \in 0 .. r - 1
      BY <1>1, <1>2, <2>1
    <3>2. count \div r = k /\ count % r = x + 1
      BY <1>1, <1>2, <3>1, DivIs
    <3> QED BY <1>1, <3>2
  <2>2. CASE x + 1 = r
    <3> DEFINE m == k + 1
    <3>1. count = r * m + 0 /\ 0 \in 0 .. r - 1 /\ m \in Nat
      BY <1>1, <1>2, <2>2
    <3> HIDE DEF m
    <3>2. count \div r = m /\ count % r = 0
      BY <1>1, <1>2, <3>1, DivIs
    <3> QED BY <3>1, <3>2 DEF m
  <2> QED BY <1>1, <2>1, <2>2
<1> HIDE DEF f, nentries
<1>6. (IF nentries = 0 THEN 0 ELSE nentries - 1) = k
  BY <1>5
<1>7. f % r \in Nat /\ f % r >= x
  BY <1>1, <1>3, <1>4
<1> QED BY <1>6, <1>7 DEF f, nentries, r

\* The chain c[0] .. c[k] of file n before its sizes are set: in E the entries to c[h].
Longer(E, E1, n, c, k, h) ==
  /\ Chain(E, n, c, k, h)
  /\ \A m \in EntryIndex : (\A j \in 0 .. k : m # c[j]) => E1[m] = E[m]
  /\ \A j \in 0 .. k : IsFile(E1[c[j]])
  /\ \A j \in 0 .. k : E1[c[j]].name = E[c[IF j > h THEN h ELSE j]].name
  /\ \A j \in 0 .. k : E1[c[j]].parent = IF j = 0 THEN E[n].parent ELSE c[j - 1]
  /\ \A j \in 0 .. k : E1[c[j]].next = IF j = k THEN 0 ELSE c[j + 1]
  /\ \A j \in 0 .. k : \A i \in RefIndex : E1[c[j]].ref[i] = E[c[j]].ref[i]
  /\ \A j \in 0 .. k : j # 0 => c[j] # 0

\* A chain that is one reference longer than references k and x say.
LEMMA LongerSizes ==
  ASSUME NEW d \in Disks, NEW D, NEW E \in Table, NEW E1, NEW s, On(s, D, d, E1), Good(E, {}),
         NEW n, NEW k \in Nat, NEW h \in 0 .. k, h >= k - 1, NEW c, Longer(E, E1, n, c, k, h),
         NEW x \in RefIndex, NEW size \in Nat, needed_blocks(size) = SFS_ENTRYREFS * k + x + 1,
         \A i \in RefIndex : i >= x => E[c[k]].ref[i] = 0
  PROVE  /\ Resizes(set_entry_size(s, d, n, size), D, d, E, n, size)
         /\ set_entry_size(s, d, n, size).res = NO_ERROR
<1>1. /\ size - k * Capacity \in 0 .. Capacity
      /\ needed_blocks(size - k * Capacity) = x + 1
      /\ \A j \in 0 .. k : size - j * Capacity \in Nat
      /\ \A j \in 0 .. k - 1 : size - j * Capacity > Capacity
  BY GrowNumbers
<1>2. /\ c \in [0 .. k -> EntryIndex] /\ c[0] = n /\ Chain(E, n, c, k, h)
      /\ \A i, j \in 0 .. k : c[i] = c[j] => i = j
  BY DEF Longer, Chain
<1>3. Linked(E1, c, k)
  <2>1. ASSUME NEW j \in 0 .. k - 1 PROVE E1[c[j]].next = c[j + 1] /\ c[j + 1] # 0
    <3>1. j \in 0 .. k /\ j # k /\ j + 1 \in 0 .. k /\ j + 1 # 0
      OBVIOUS
    <3> QED BY <3>1 DEF Longer
  <2>2. E1[c[k]].next = 0
    BY DEF Longer
  <2> QED BY <1>2, <2>1, <2>2 DEF Linked
<1>4. Takes(E1, c, k, Capacity, size)
  <2>1. \A j \in 0 .. k : EntryCapacity(E1[c[j]]) = Capacity
    BY DEF Longer, EntryCapacity, IsFile, T_FILE, T_DIR, Capacity
  <2> QED BY <1>1, <2>1 DEF Takes
<1>5. PICK F : /\ On(set_entry_size(s, d, c[0], size), D, d, F)
               /\ set_entry_size(s, d, c[0], size).res = NO_ERROR
               /\ Resized(E1, F, c, k + 1, size, Capacity)
  BY <1>3, <1>4, Numbers, SetSizes
<1>6. /\ F \in Table /\ E1 \in Table
      /\ \A m \in EntryIndex : (\A j \in 0 .. k : m # c[j]) => F[m] = E1[m]
      /\ \A j \in 0 .. k : F[c[j]] = [E1[c[j]] EXCEPT !.size = size - j * Capacity]
  <2>1. k + 1 - 1 = k
    OBVIOUS
  <2>2. E1 \in Table
    BY OnTypes
  <2>3. Resized(E1, F, c, k + 1, size, Capacity)
    BY <1>5
  <2> DEFINE q == k + 1
  <2>4. q - 1 = k /\ Resized(E1, F, c, q, size, Capacity)
    BY <2>1, <2>3
  <2> HIDE DEF q
  <2> QED BY <2>2, <2>4 DEF Resized
<1>7. ASSUME NEW j \in 0 .. k
      PROVE  /\ F[c[j]].flags = T_FILE /\ F[c[j]].name = E1[c[j]].name /\ F[c[j]].parent = E1[c[j]].parent
             /\ F[c[j]].next = E1[c[j]].next /\ F[c[j]].ref = E1[c[j]].ref /\ F[c[j]].size = size - j * Capacity
             /\ F[c[j]] \in Entry
  <2>1. E1[c[j]] \in Entry /\ F[c[j]] \in Entry
    BY <1>2, <1>6 DEF Table
  <2>2. IsFile(E1[c[j]]) /\ F[c[j]] = [E1[c[j]] EXCEPT !.size = size - j * Capacity]
    BY <1>6 DEF Longer
  <2> QED BY <2>1, <2>2 DEF Entry, IsFile
<1>8. Extended(E, F, n, c, k, h, size, x, 0)
  <2>1. \A m \in EntryIndex : (\A j \in 0 .. k : m # c[j]) => F[m] = E[m]
    BY <1>6 DEF Longer
  <2>2. ASSUME NEW j \in 0 .. k
        PROVE  LET e == F[c[j]]
       IN  /\ e.flags = T_FILE /\ e.name = E[c[IF j > h THEN h ELSE j]].name
           /\ e.parent = IF j = 0 THEN E[n].parent ELSE c[j - 1]
           /\ e.next = IF j = k THEN 0 ELSE c[j + 1]
           /\ e.size = size - j * Capacity /\ (e.size <= Capacity <=> j = k)
           /\ \A i \in RefIndex \ LiveRefs(e) : e.ref[i] = 0
           /\ \A i \in RefIndex : e.ref[i] = IF j = k /\ i = x THEN 0 ELSE E[c[j]].ref[i]
    <3> DEFINE e == F[c[j]]
    <3>1. e.flags = T_FILE /\ e.size = size - j * Capacity
      BY <1>7
    <3>2. e.name = E[c[IF j > h THEN h ELSE j]].name
      BY <1>7 DEF Longer
    <3>3. e.parent = IF j = 0 THEN E[n].parent ELSE c[j - 1]
      BY <1>7 DEF Longer
    <3>4. e.next = IF j = k THEN 0 ELSE c[j + 1]
      BY <1>7 DEF Longer
    <3>5. e.size <= Capacity <=> j = k
      <4>1. CASE j = k
        BY <1>1, <3>1, <4>1
      <4>2. CASE j # k
        <5>1. j \in 0 .. k - 1
          BY <4>2
        <5>2. size - j * Capacity > Capacity
          BY <1>1, <5>1
        <5>3. size - j * Capacity \in Nat /\ Capacity \in Nat
          BY <1>1, Numbers
        <5> HIDE DEF e
        <5> QED BY <3>1, <4>2, <5>2, <5>3
      <4> QED BY <4>1, <4>2
    <3>6. \A i \in RefIndex : e.ref[i] = E[c[j]].ref[i]
      BY <1>7 DEF Longer
    <3>7. \A i \in RefIndex : e.ref[i] = IF j = k /\ i = x THEN 0 ELSE E[c[j]].ref[i]
      <4>1. x >= x
        BY Numbers DEF RefIndex
      <4> HIDE DEF e
      <4> QED BY <3>6, <4>1
    <3>8. \A i \in RefIndex \ LiveRefs(e) : e.ref[i] = 0
      <4> DEFINE nb == needed_blocks(e.size)
      <4>1. LiveRefs(e) = 0 .. Least(nb, SFS_ENTRYREFS) - 1
        BY <3>1 DEF LiveRefs, T_FILE, T_DIR
      <4>2. CASE j = k
        <5>1. nb = x + 1
          BY <1>1, <3>1, <4>2
        <5> HIDE DEF nb, e
        <5>2. \A i \in RefIndex \ LiveRefs(e) : i >= x
          BY <4>1, <5>1, Numbers DEF RefIndex, Least
        <5> QED BY <3>6, <4>2, <5>2
      <4>3. CASE j # k
        <5>1. ~(e.size <= Capacity) /\ e.size \in Nat
          BY <1>1, <3>1, <3>5, <4>3
        <5>2. nb \in Nat /\ nb * BLOCK_SIZE >= e.size
          BY <5>1, BlocksCover
        <5>3. nb >= SFS_ENTRYREFS
          <6> DEFINE b == BLOCK_SIZE
                     r == SFS_ENTRYREFS
          <6>1. b \in Nat /\ r \in Nat /\ Capacity = r * b /\ Capacity \in Nat /\ nb * b >= e.size
            BY <5>2, Numbers DEF Capacity
          <6> HIDE DEF nb, b, r, e
          <6>2. SUFFICES ASSUME nb < r PROVE FALSE
            BY <5>2, <6>1 DEF r
          <6>3. nb * b <= r * b
            BY <5>2, <6>1, <6>2
          <6> QED BY <5>1, <5>2, <6>1, <6>3
        <5> HIDE DEF nb, e
        <5>4. RefIndex \ LiveRefs(e) = {}
          BY <4>1, <5>2, <5>3, Numbers DEF RefIndex, Least
        <5> QED BY <5>4
      <4> QED BY <4>2, <4>3
    <3> HIDE DEF e
    <3> QED BY <3>1, <3>2, <3>3, <3>4, <3>5, <3>7, <3>8 DEF e
  <2> QED BY <2>1, <2>2 DEF Extended
<1>9. NewBlock(E, 0)
  BY DEF NewBlock
<1>10. Good(F, {})
  BY <1>2, <1>6, <1>8, <1>9, Extend
<1>11. Kept(E, F, {n}) /\ F[n].size = size
  <2>1. ASSUME NEW m \in UsedIn(E), IsDir(E[E[m].parent]), m # n PROVE F[m] = E[m]
    <3>1. m \in EntryIndex /\ E[m].flags # FREE
      BY DEF UsedIn
    <3>2. ASSUME NEW j \in 0 .. k, m = c[j] PROVE FALSE
      <4>1. j # 0 /\ j - 1 \in 0 .. k /\ j - 1 \in 0 .. h
        BY <1>2, <2>1, <3>2
      <4>2. j <= h
        <5> SUFFICES ASSUME j > h PROVE FALSE
          OBVIOUS
        <5> QED BY <1>2, <3>1, <3>2 DEF Chain
      <4>3. IsFile(E[c[j - 1]]) /\ E[c[j - 1]].next = m
        BY <1>2, <3>2, <4>1, <4>2 DEF Chain
      <4>4. m # 0
        BY <3>2, <4>1 DEF Longer
      <4>5. c[j - 1] \in EntryIndex
        BY <1>2, <4>1
      <4>6. E[m].parent = c[j - 1]
        BY <4>3, <4>4, <4>5 DEF Good, Chains
      <4> QED BY <2>1, <4>3, <4>6 DEF IsFile, IsDir, T_FILE, T_DIR
    <3> QED BY <1>8, <3>1, <3>2 DEF Extended
  <2>2. F[n].flags = E[n].flags /\ F[n].name = E[n].name /\ F[n].parent = E[n].parent /\ F[n].size = size
    <3>1. 0 \in 0 .. k /\ ~(0 > h) /\ 0 \in 0 .. h /\ size - 0 * Capacity = size
      BY Numbers
    <3>2. E[n].flags = T_FILE
      BY <1>2, <3>1 DEF Chain, IsFile
    <3> QED BY <1>2, <1>8, <3>1, <3>2 DEF Extended
  <2> QED BY <2>1, <2>2 DEF Kept
<1> QED BY <1>2, <1>5, <1>10, <1>11 DEF Resizes

-----------------------------------------------------------------------------
(* A table with a longer file.  What allocating a block needs to know of it. *)

\* A walk that fails ends set_entry_refcount.
LEMMA RefcountFails ==
  ASSUME NEW s, NEW d, NEW n, NEW k \in Nat, NEW x \in RefIndex, NEW count, count = SFS_ENTRYREFS * k + x + 1,
         NEW walk, walk = ExtendChain(s, d, n, k), Failed(walk.call.res)
  PROVE  set_entry_refcount(s, d, n, count) = walk.call
<1> DEFINE nentries == count \div SFS_ENTRYREFS + (IF count % SFS_ENTRYREFS = 0 THEN 0 ELSE 1)
           steps == IF nentries = 0 THEN 0 ELSE nentries - 1
           first_unused == Least(SFS_ENTRYREFS - 1, count) % SFS_ENTRYREFS
           EndAt(w) == IF Failed(w.call.res) THEN w.call ELSE EndChain(w.call, d, w.at, ClearRefs(w.mem, first_unused))
<1>1. steps = k
  BY EntriesFor
<1>2. set_entry_refcount(s, d, n, count) = EndAt(ExtendChain(s, d, n, steps))
  BY DEF set_entry_refcount
<1> HIDE DEF steps
<1>3. set_entry_refcount(s, d, n, count) = EndAt(walk)
  BY <1>1, <1>2
<1> QED BY <1>3

\* Clearing references that are 0 already.
LEMMA ClearedNothing ==
  ASSUME NEW mem \in Entry, NEW x \in RefIndex, \A i \in RefIndex : i >= x => mem.ref[i] = 0, NEW f \in Nat, f >= x
  PROVE  ClearRefs(mem, f) = mem
<1>1. /\ ClearRefs(mem, f) \in Entry /\ ClearRefs(mem, f).flags = mem.flags /\ ClearRefs(mem, f).name = mem.name
      /\ ClearRefs(mem, f).parent = mem.parent /\ ClearRefs(mem, f).next = mem.next
      /\ ClearRefs(mem, f).size = mem.size
      /\ \A j \in RefIndex : ClearRefs(mem, f).ref[j] = IF j >= f THEN 0 ELSE mem.ref[j]
  BY Cleared
<1>2. \A j \in RefIndex : ClearRefs(mem, f).ref[j] = mem.ref[j]
  <2>1. x \in Nat /\ RefIndex \subseteq Nat
    BY Numbers DEF RefIndex
  <2> QED BY <1>1, <2>1
<1> QED BY <1>1, <1>2, SameEntry

\* A walk that does not, to an entry with nothing to clear, has that entry written as it is.
LEMMA RefcountWalk ==
  ASSUME NEW s, NEW d, NEW n, NEW k \in Nat, NEW x \in RefIndex, NEW count, count = SFS_ENTRYREFS * k + x + 1,
         NEW walk, walk = ExtendChain(s, d, n, k), ~Failed(walk.call.res),
         NEW mem \in Entry, walk.mem = mem, mem.next = 0, \A i \in RefIndex : i >= x => mem.ref[i] = 0
  PROVE  set_entry_refcount(s, d, n, count) = write_entry(walk.call, d, walk.at, mem)
<1> DEFINE nentries == count \div SFS_ENTRYREFS + (IF count % SFS_ENTRYREFS = 0 THEN 0 ELSE 1)
           steps == IF nentries = 0 THEN 0 ELSE nentries - 1
           first_unused == Least(SFS_ENTRYREFS - 1, count) % SFS_ENTRYREFS
           EndAt(w) == IF Failed(w.call.res) THEN w.call ELSE EndChain(w.call, d, w.at, ClearRefs(w.mem, first_unused))
<1>1. steps = k /\ first_unused \in Nat /\ first_unused >= x
  BY EntriesFor
<1>2. set_entry_refcount(s, d, n, count) = EndAt(ExtendChain(s, d, n, steps))
  BY DEF set_entry_refcount
<1> HIDE DEF steps
<1>3. set_entry_refcount(s, d, n, count) = EndAt(walk)
  BY <1>1, <1>2
<1>4. set_entry_refcount(s, d, n, count) = EndChain(walk.call, d, walk.at, ClearRefs(mem, first_unused))
  BY <1>3
<1> HIDE DEF first_unused
<1>5. ClearRefs(mem, first_unused) = mem
  BY <1>1, ClearedNothing
<1> QED BY <1>4, <1>5, EndChainLast

\* Writing an entry as it is.
LEMMA WriteSame ==
  ASSUME NEW d \in Disks, NEW D, NEW E, NEW s, On(s, D, d, E), NEW n \in EntryIndex
  PROVE  On(write_entry(s, d, n, E[n]), D, d, E) /\ write_entry(s, d, n, E[n]).res = NO_ERROR
<1>1. E \in Table /\ E[n] \in Entry
  BY OnTypes
<1>2. [E EXCEPT ![n] = E[n]] = E
  BY <1>1 DEF Table
<1> QED BY <1>1, <1>2, WriteEntry

\* What ResizeChain is when set_entry_refcount works, and when it does not.
LEMMA ResizeSteps ==
  ASSUME NEW s, NEW d, NEW n, NEW size
  PROVE  LET t == set_entry_refcount(s, d, n, needed_blocks(size))
         IN  ResizeChain(s, d, n, size) = IF Failed(t.res) THEN t ELSE set_entry_size(t, d, n, size)
BY DEF ResizeChain, Then

\* The last entry of a file's chain has its references in use up to those of its size.
LEMMA LastRefs ==
  ASSUME NEW E \in Table, Good(E, {}), NEW n \in EntryIndex, IsFile(E[n]), NEW k \in Nat, NEW c, FileChain(E, n, c, k)
  PROVE  LET y == needed_blocks(E[n].size) - SFS_ENTRYREFS * k
         IN  /\ y \in 0 .. SFS_ENTRYREFS /\ E[c[k]] \in Entry /\ IsFile(E[c[k]]) /\ c[k] \in EntryIndex
             /\ \A i \in RefIndex : i >= y => E[c[k]].ref[i] = 0
             /\ y = needed_blocks(E[c[k]].size)
<1> DEFINE size == E[n].size
           y == needed_blocks(size) - SFS_ENTRYREFS * k
<1>1. c[k] \in EntryIndex /\ E[c[k]] \in Entry /\ IsFile(E[c[k]]) /\ size \in Nat
  BY DEF FileChain, Linked, Table, Entry
<1>2. size - k * Capacity = E[c[k]].size /\ size - k * Capacity <= Capacity
  <2>1. k \in 0 .. k
    OBVIOUS
  <2> QED BY <2>1 DEF FileChain
<1>3. k > 0 => size - (k - 1) * Capacity > Capacity
  <2> SUFFICES ASSUME k > 0 PROVE size - (k - 1) * Capacity > Capacity
    OBVIOUS
  <2>1. k - 1 \in 0 .. k - 1 /\ k - 1 \in 0 .. k
    OBVIOUS
  <2> QED BY <2>1 DEF FileChain
<1> HIDE DEF size
<1>4. y \in 0 .. SFS_ENTRYREFS /\ needed_blocks(E[c[k]].size) = y
  BY <1>1, <1>2, <1>3, ChainNumbers
<1>5. \A i \in RefIndex : i >= y => E[c[k]].ref[i] = 0
  <2>1. LiveRefs(E[c[k]]) = 0 .. Least(y, SFS_ENTRYREFS) - 1
    BY <1>1, <1>4 DEF LiveRefs, IsFile, T_FILE, T_DIR
  <2>2. \A i \in RefIndex \ LiveRefs(E[c[k]]) : E[c[k]].ref[i] = 0
    BY <1>1 DEF Good, Refs
  <2> HIDE DEF y
  <2>3. \A i \in RefIndex : i >= y => i \notin LiveRefs(E[c[k]])
    BY <1>4, <2>1, Numbers DEF RefIndex, Least
  <2> QED BY <2>2, <2>3
<1> QED BY <1>1, <1>4, <1>5 DEF size

\* There was no room: nothing has changed.
NoRoom(t, D, d, E) == On(t, D, d, E) /\ t.res = ERROR_NO_SPACE

\* There are x references in the last entry of a chain c[0] .. c[k] with a size.
LastIs(x, k, size) == x = needed_blocks(size) - SFS_ENTRYREFS * k

\* One more reference, when the last entry of the chain has a place for it.
LEMMA GrowLast ==
  ASSUME NEW d \in Disks, NEW D, NEW E, NEW s, On(s, D, d, E), ~Failed(s.res), Good(E, {}),
         NEW n \in EntryIndex, IsFile(E[n]), IsDir(E[E[n].parent]), NEW k \in Nat, NEW c, FileChain(E, n, c, k),
         NEW size \in Nat, needed_blocks(size) = needed_blocks(E[n].size) + 1,
         NEW x \in RefIndex, LastIs(x, k, E[n].size)
  PROVE  /\ Resizes(ResizeChain(s, d, n, size), D, d, E, n, size)
         /\ ResizeChain(s, d, n, size).res = NO_ERROR
<1>1. E \in Table
  BY OnTypes
<1>2. /\ Linked(E, c, k) /\ c[0] = n /\ c \in [0 .. k -> EntryIndex] /\ k \in 0 .. k
      /\ \A j \in 0 .. k : IsFile(E[c[j]])
      /\ E[c[k]].next = 0
  BY DEF FileChain, Linked
<1>3. /\ E[c[k]] \in Entry /\ c[k] \in EntryIndex
      /\ \A i \in RefIndex : i >= x => E[c[k]].ref[i] = 0
  BY <1>1, LastRefs DEF LastIs
<1>4. needed_blocks(size) = SFS_ENTRYREFS * k + x + 1
  <2>1. needed_blocks(E[n].size) \in Nat /\ SFS_ENTRYREFS * k \in Nat
    <3>1. E[n].size \in Nat
      BY <1>1 DEF Table, Entry
    <3>2. SFS_ENTRYREFS \in Nat
      BY Numbers
    <3> QED BY <3>1, <3>2, BlocksCover
  <2> QED BY <2>1 DEF LastIs
<1>5. ExtendChain(s, d, c[0], k) = [call |-> s, at |-> c[k], mem |-> E[c[k]]]
  <2>1. Linked(E, c, k)
    BY <1>2
  <2> QED BY <2>1, ExtendOld
<1> DEFINE w == ExtendChain(s, d, n, k)
           t == set_entry_refcount(s, d, n, needed_blocks(size))
<1>6. w.call = s /\ w.at = c[k] /\ w.mem = E[c[k]]
  BY <1>2, <1>5
<1> HIDE DEF w
<1>7. t = write_entry(s, d, c[k], E[c[k]])
  <2>1. ~Failed(w.call.res) /\ w = ExtendChain(s, d, n, k)
    BY <1>6 DEF w
  <2>2. set_entry_refcount(s, d, n, needed_blocks(size)) = write_entry(w.call, d, w.at, E[c[k]])
    BY <1>2, <1>3, <1>4, <1>6, <2>1, RefcountWalk
  <2> QED BY <1>6, <2>2
<1>8. On(t, D, d, E) /\ t.res = NO_ERROR
  BY <1>3, <1>7, WriteSame
<1> HIDE DEF t
<1>9. ResizeChain(s, d, n, size) = set_entry_size(t, d, n, size)
  BY <1>8, ResizeSteps DEF Failed, NO_ERROR, t
<1>10. Chain(E, n, c, k, k)
  BY <1>2 DEF Chain, Linked
<1>11. Longer(E, E, n, c, k, k)
  <2>1. \A j \in 0 .. k : ~(j > k)
    OBVIOUS
  <2>2. ASSUME NEW j \in 0 .. k PROVE E[c[j]].parent = IF j = 0 THEN E[n].parent ELSE c[j - 1]
    <3>1. CASE j = 0
      BY <1>2, <3>1
    <3>2. CASE j # 0
      <4>1. j - 1 \in 0 .. k - 1 /\ j - 1 + 1 = j
        BY <3>2
      <4>2. \A i \in 0 .. k - 1 : E[c[i + 1]].parent = c[i]
        BY DEF FileChain
      <4>3. E[c[j - 1 + 1]].parent = c[j - 1]
        BY <4>1, <4>2
      <4> QED BY <3>2, <4>1, <4>3
    <3> QED BY <3>1, <3>2
  <2>3. ASSUME NEW j \in 0 .. k PROVE E[c[j]].next = IF j = k THEN 0 ELSE c[j + 1]
    <3>1. j # k => j \in 0 .. k - 1
      OBVIOUS
    <3> QED BY <1>2, <3>1 DEF Linked
  <2>4. ASSUME NEW j \in 0 .. k, j # 0 PROVE c[j] # 0
    <3>1. j - 1 \in 0 .. k - 1 /\ j - 1 + 1 = j
      BY <2>4
    <3>2. \A i \in 0 .. k - 1 : c[i + 1] # 0
      BY <1>2 DEF Linked
    <3>3. c[j - 1 + 1] # 0
      BY <3>1, <3>2
    <3> QED BY <3>1, <3>3
  <2> QED BY <1>2, <1>10, <2>1, <2>2, <2>3, <2>4 DEF Longer
<1>12. k \in 0 .. k /\ k >= k - 1
  OBVIOUS
<1> QED BY <1>1, <1>3, <1>4, <1>8, <1>9, <1>11, <1>12, LongerSizes

-----------------------------------------------------------------------------
(* Growing by an entry.  ResizeChain where the chain has to get one more entry. *)

\* A chain with one more entry, and the table that has it.
OneMore(c, k, new) == [j \in 0 .. k + 1 |-> IF j = k + 1 THEN new ELSE c[j]]

\* A file with an entry appended, which nothing is in yet.
LEMMA AppendedLonger ==
  ASSUME NEW E \in Table, Good(E, {}), NEW n \in EntryIndex, IsDir(E[E[n].parent]),
         NEW k \in Nat, NEW c, FileChain(E, n, c, k), NEW new \in EntryIndex, E[new].flags = FREE,
         NEW more, more = k + 1
  PROVE  Longer(E, Appended(E, c[k], new), n, OneMore(c, k, new), more, k)
<1> DEFINE c1 == OneMore(c, k, new)
           F == Appended(E, c[k], new)
<1>1. /\ c1 \in [0 .. more -> EntryIndex] /\ c1[more] = new /\ \A j \in 0 .. k : c1[j] = c[j] /\ c[j] \in EntryIndex
      /\ more \in Nat /\ more = k + 1
  BY DEF OneMore, FileChain, Linked
<1>2. /\ c[0] = n /\ \A i, j \in 0 .. k : c[i] = c[j] => i = j
      /\ \A j \in 0 .. k : IsFile(E[c[j]])
      /\ \A j \in 0 .. k - 1 : E[c[j]].next = c[j + 1] /\ c[j + 1] # 0 /\ E[c[j + 1]].parent = c[j]
      /\ E[c[k]].next = 0
  BY DEF FileChain, Linked
<1>3. E[new].flags # T_FILE /\ new # 0
  BY DEF Good, RootIsRoot, FREE, T_FILE, T_DIR
<1>4. \A j \in 0 .. k : c[j] # new
  BY <1>2, <1>3 DEF IsFile
<1>5. /\ F[new] = NextOf(E[c[k]], c[k])
      /\ F[c[k]] = [E[c[k]] EXCEPT !.next = new]
      /\ \A m \in EntryIndex : m # new /\ m # c[k] => F[m] = E[m]
  <2>1. c[k] # new /\ c[k] \in EntryIndex /\ k \in 0 .. k
    BY <1>1, <1>4
  <2> QED BY <2>1 DEF Appended, Table
<1>6. E[c[k]] \in Entry /\ IsFile(E[c[k]])
  BY <1>1, <1>2 DEF Table
<1>7. /\ F[c[k]].flags = T_FILE /\ F[c[k]].name = E[c[k]].name /\ F[c[k]].parent = E[c[k]].parent
      /\ F[c[k]].next = new /\ F[c[k]].ref = E[c[k]].ref
  BY <1>5, <1>6 DEF Entry, IsFile
<1>8. /\ F[new].flags = T_FILE /\ F[new].name = E[c[k]].name /\ F[new].parent = c[k]
      /\ F[new].next = 0 /\ F[new].ref = NoRefs
  BY <1>5, <1>6 DEF Entry, IsFile, NextOf
<1>9. \A i \in RefIndex : E[new].ref[i] = 0 /\ NoRefs[i] = 0
  BY ZeroIsEntry DEF Good, FreeIsZero, NoRefs
<1>10. \A j \in 0 .. more : j = more \/ j \in 0 .. k
  BY <1>1
<1> HIDE DEF F, c1
<1>11. Chain(E, n, c1, more, k)
  <2>1. \A i, j \in 0 .. more : c1[i] = c1[j] => i = j
    BY <1>1, <1>2, <1>4, <1>10
  <2>2. c1[0] = n
    BY <1>1, <1>2
  <2>3. \A j \in 0 .. k : IsFile(E[c1[j]])
    BY <1>1, <1>2
  <2>4. ASSUME NEW j \in 0 .. k - 1 PROVE E[c1[j]].next = c1[j + 1]
    <3>1. j \in 0 .. k /\ j + 1 \in 0 .. k
      OBVIOUS
    <3> QED BY <1>1, <1>2, <3>1
  <2>5. E[c1[k]].next = 0
    BY <1>1, <1>2
  <2>6. \A j \in 0 .. more : j > k => E[c1[j]].flags = FREE
    BY <1>1, <1>10
  <2> QED BY <1>1, <2>1, <2>2, <2>3, <2>4, <2>5, <2>6 DEF Chain
<1>12. \A j \in 0 .. k : j # k => F[c1[j]] = E[c[j]]
  BY <1>1, <1>2, <1>4, <1>5
<1>13. \A m \in EntryIndex : (\A j \in 0 .. more : m # c1[j]) => F[m] = E[m]
  <2> SUFFICES ASSUME NEW m \in EntryIndex, \A j \in 0 .. more : m # c1[j] PROVE F[m] = E[m]
    OBVIOUS
  <2>1. more \in 0 .. more /\ k \in 0 .. more /\ k \in 0 .. k
    BY <1>1
  <2> QED BY <1>1, <1>5, <2>1
<1>14. \A j \in 0 .. more : IsFile(F[c1[j]])
  BY <1>1, <1>2, <1>7, <1>8, <1>10, <1>12 DEF IsFile
<1>15. \A j \in 0 .. more : F[c1[j]].name = E[c1[IF j > k THEN k ELSE j]].name
  <2> SUFFICES ASSUME NEW j \in 0 .. more PROVE F[c1[j]].name = E[c1[IF j > k THEN k ELSE j]].name
    OBVIOUS
  <2>1. CASE j = more
    BY <1>1, <1>8, <2>1
  <2>2. CASE j \in 0 .. k
    <3>1. c1[j] = c[j] /\ ~(j > k)
      BY <1>1, <2>2
    <3>2. CASE j = k
      BY <1>7, <3>1, <3>2
    <3>3. CASE j # k
      BY <1>12, <2>2, <3>1, <3>3
    <3> QED BY <3>2, <3>3
  <2> QED BY <1>10, <2>1, <2>2
<1>16. \A j \in 0 .. more : F[c1[j]].parent = IF j = 0 THEN E[n].parent ELSE c1[j - 1]
  <2> SUFFICES ASSUME NEW j \in 0 .. more PROVE F[c1[j]].parent = IF j = 0 THEN E[n].parent ELSE c1[j - 1]
    OBVIOUS
  <2>1. CASE j = more
    BY <1>1, <1>8, <2>1
  <2>2. CASE j \in 0 .. k
    <3>1. F[c1[j]].parent = E[c[j]].parent
      <4>1. CASE j = k
        BY <1>1, <1>7, <4>1
      <4>2. CASE j # k
        BY <1>12, <2>2, <4>2
      <4> QED BY <4>1, <4>2
    <3>2. CASE j = 0
      BY <1>2, <3>1, <3>2
    <3>3. CASE j # 0
      <4>1. j - 1 \in 0 .. k - 1 /\ j - 1 \in 0 .. k /\ j - 1 + 1 = j
        BY <2>2, <3>3
      <4>2. E[c[j - 1 + 1]].parent = c[j - 1]
        BY <1>2, <4>1
      <4>3. c1[j - 1] = c[j - 1]
        BY <1>1, <4>1
      <4> QED BY <3>1, <3>3, <4>1, <4>2, <4>3
    <3> QED BY <3>2, <3>3
  <2> QED BY <1>10, <2>1, <2>2
<1>17. \A j \in 0 .. more : F[c1[j]].next = IF j = more THEN 0 ELSE c1[j + 1]
  <2> SUFFICES ASSUME NEW j \in 0 .. more PROVE F[c1[j]].next = IF j = more THEN 0 ELSE c1[j + 1]
    OBVIOUS
  <2>1. CASE j = more
    BY <1>1, <1>8, <2>1
  <2>2. CASE j = k
    BY <1>1, <1>7, <2>2
  <2>3. CASE j \in 0 .. k /\ j # k
    <3>1. j \in 0 .. k - 1 /\ j + 1 \in 0 .. k /\ j # more
      BY <1>1, <2>3
    <3>2. F[c1[j]].next = c[j + 1]
      BY <1>2, <1>12, <2>3, <3>1
    <3> QED BY <1>1, <3>1, <3>2
  <2> QED BY <1>10, <2>1, <2>2, <2>3
<1>18. \A j \in 0 .. more : \A i \in RefIndex : F[c1[j]].ref[i] = E[c1[j]].ref[i]
  <2> SUFFICES ASSUME NEW j \in 0 .. more, NEW i \in RefIndex PROVE F[c1[j]].ref[i] = E[c1[j]].ref[i]
    OBVIOUS
  <2>1. CASE j = more
    BY <1>1, <1>8, <1>9, <2>1
  <2>2. CASE j = k
    BY <1>1, <1>7, <2>2
  <2>3. CASE j \in 0 .. k /\ j # k
    BY <1>1, <1>12, <2>3
  <2> QED BY <1>10, <2>1, <2>2, <2>3
<1>19. \A j \in 0 .. more : j # 0 => c1[j] # 0
  <2> SUFFICES ASSUME NEW j \in 0 .. more, j # 0 PROVE c1[j] # 0
    OBVIOUS
  <2>1. CASE j = more
    BY <1>1, <1>3, <2>1
  <2>2. CASE j \in 0 .. k
    <3>1. j - 1 \in 0 .. k - 1 /\ j - 1 + 1 = j
      BY <2>2
    <3>2. c[j - 1 + 1] # 0
      BY <1>2, <3>1
    <3> QED BY <1>1, <2>2, <3>1, <3>2
  <2> QED BY <1>10, <2>1, <2>2
<1>20. Longer(E, F, n, c1, more, k)
  BY <1>11, <1>13, <1>14, <1>15, <1>16, <1>17, <1>18, <1>19 DEF Longer
<1> QED BY <1>20 DEF F, c1

\* One more reference, when the last entry of the chain is full.
LEMMA GrowFull ==
  ASSUME NEW d \in Disks, NEW D, NEW E, NEW s, On(s, D, d, E), ~Failed(s.res), Good(E, {}),
         NEW n \in EntryIndex, IsFile(E[n]), IsDir(E[E[n].parent]), NEW k \in Nat, NEW c, FileChain(E, n, c, k),
         NEW size \in Nat, needed_blocks(size) = needed_blocks(E[n].size) + 1,
         LastIs(SFS_ENTRYREFS, k, E[n].size)
  PROVE  \/ NoRoom(ResizeChain(s, d, n, size), D, d, E)
         \/ /\ Resizes(ResizeChain(s, d, n, size), D, d, E, n, size)
            /\ ResizeChain(s, d, n, size).res = NO_ERROR
<1> DEFINE more == k + 1
           w == ExtendChain(s, d, n, more)
           t == set_entry_refcount(s, d, n, needed_blocks(size))
<1>1. E \in Table /\ more \in Nat /\ more = k + 1 /\ 0 \in RefIndex /\ 0 \in Nat
  BY OnTypes, Numbers DEF RefIndex
<1>2. needed_blocks(size) = SFS_ENTRYREFS * more + 0 + 1
  <2> DEFINE cur == needed_blocks(E[n].size)
             r == SFS_ENTRYREFS
  <2>1. E[n].size \in Nat /\ r \in Nat
    BY <1>1, Numbers DEF Table, Entry
  <2>2. cur \in Nat
    BY <2>1, BlocksCover
  <2>3. r = cur - r * k
    BY DEF LastIs
  <2>4. needed_blocks(size) = cur + 1
    OBVIOUS
  <2> HIDE DEF r, cur
  <2>5. r * k \in Nat /\ r * (k + 1) = r * k + r
    BY <2>1
  <2>6. needed_blocks(size) = r * (k + 1) + 0 + 1
    BY <2>1, <2>2, <2>3, <2>4, <2>5
  <2> QED BY <2>6 DEF r
<1> HIDE DEF more
<1>3. Linked(E, c, k) /\ c[0] = n
  BY DEF FileChain
<1>4. \/ ExtendChain(s, d, c[0], more).call = Return(s, ERROR_NO_SPACE)
      \/ Appends(ExtendChain(s, d, c[0], more), D, d, E, c[k])
  <2>1. Linked(E, c, k)
    BY <1>3
  <2>2. more \in Nat /\ more = k + 1
    BY <1>1
  <2> QED BY <2>1, <2>2, ExtendNew
<1>5. ExtendChain(s, d, c[0], more) = w
  BY <1>3
<1> HIDE DEF w
<1>6. CASE w.call = Return(s, ERROR_NO_SPACE)
  <2>1. On(Return(s, ERROR_NO_SPACE), D, d, E) /\ Return(s, ERROR_NO_SPACE).res = ERROR_NO_SPACE
    <3>1. ERROR_NO_SPACE \in Int
      BY DEF ERROR_NO_SPACE
    <3> QED BY <3>1, Returned
  <2>2. Failed(w.call.res)
    BY <1>6, <2>1 DEF Failed, ERROR_NO_SPACE
  <2>3. t = w.call
    <3>1. w = ExtendChain(s, d, n, more)
      BY DEF w
    <3>2. more \in Nat /\ 0 \in RefIndex /\ needed_blocks(size) = SFS_ENTRYREFS * more + 0 + 1
      BY <1>1, <1>2
    <3> QED BY <2>2, <3>1, <3>2, RefcountFails
  <2>4. ResizeChain(s, d, n, size) = t
    BY <2>2, <2>3, ResizeSteps
  <2> QED BY <1>6, <2>1, <2>3, <2>4 DEF NoRoom
<1>7. CASE Appends(w, D, d, E, c[k])
  <2>1. PICK new \in EntryIndex :
           /\ E[new].flags = FREE /\ w.at = new /\ w.mem = NextOf(E[c[k]], c[k])
           /\ On(w.call, D, d, Appended(E, c[k], new)) /\ w.call.res = NO_ERROR
    BY <1>7 DEF Appends
  <2> DEFINE F == Appended(E, c[k], new)
             mem == NextOf(E[c[k]], c[k])
             c1 == OneMore(c, k, new)
  <2>2. On(w.call, D, d, F)
    BY <2>1
  <2>3. E[c[k]] \in Entry /\ c[k] \in EntryIndex
    BY <1>1, LastRefs
  <2>4. \A i \in RefIndex : NoRefs[i] = 0
    BY DEF NoRefs
  <2>5. NoRefs \in [RefIndex -> EntryIndex \cup DataBlocks] /\ 0 \in EntryIndex
    BY Numbers DEF NoRefs
  <2>6. mem \in Entry /\ mem.next = 0 /\ mem.ref = NoRefs
    BY <1>1, <2>3, <2>5 DEF NextOf, Entry
  <2>7. F[new] = mem
    <3>1. new # c[k]
      <4>1. IsFile(E[c[k]])
        BY <1>1, LastRefs
      <4> QED BY <2>1, <4>1 DEF IsFile, FREE, T_FILE
    <3> QED BY <1>1, <2>3, <3>1 DEF Appended, Table
  <2>8. Longer(E, F, n, c1, more, k)
    <3>1. more = k + 1 /\ E[new].flags = FREE
      BY <1>1, <2>1
    <3> QED BY <1>1, <3>1, AppendedLonger
  <2> HIDE DEF F, c1
  <2>9. t = write_entry(w.call, d, new, mem)
    <3>1. w = ExtendChain(s, d, n, more)
      BY DEF w
    <3>2. more \in Nat /\ 0 \in RefIndex /\ needed_blocks(size) = SFS_ENTRYREFS * more + 0 + 1
      BY <1>1, <1>2
    <3>3. ~Failed(w.call.res) /\ w.mem = mem /\ w.at = new
      BY <2>1 DEF Failed, NO_ERROR
    <3>4. \A i \in RefIndex : i >= 0 => mem.ref[i] = 0
      BY <2>4, <2>6
    <3> HIDE DEF mem
    <3>5. set_entry_refcount(s, d, n, needed_blocks(size)) = write_entry(w.call, d, w.at, mem)
      BY <2>6, <3>1, <3>2, <3>3, <3>4, RefcountWalk
    <3> QED BY <3>3, <3>5
  <2> HIDE DEF mem, t
  <2>10. On(t, D, d, F) /\ t.res = NO_ERROR
    <3>1. On(write_entry(w.call, d, new, F[new]), D, d, F) /\ write_entry(w.call, d, new, F[new]).res = NO_ERROR
      BY <2>2, WriteSame
    <3> QED BY <2>7, <2>9, <3>1
  <2>11. ResizeChain(s, d, n, size) = set_entry_size(t, d, n, size)
    BY <2>10, ResizeSteps DEF Failed, NO_ERROR, t
  <2>12. \A i \in RefIndex : i >= 0 => E[c1[more]].ref[i] = 0
    <3>1. c1[more] = new
      BY <1>1 DEF c1, OneMore
    <3>2. E[new] = ZeroEntry
      BY <2>1 DEF Good, FreeIsZero
    <3> QED BY <3>1, <3>2, ZeroIsEntry
  <2>13. k \in 0 .. more /\ k >= more - 1
    BY <1>1
  <2>14. /\ Resizes(set_entry_size(t, d, n, size), D, d, E, n, size)
         /\ set_entry_size(t, d, n, size).res = NO_ERROR
    <3>1. On(t, D, d, F) /\ 0 \in RefIndex /\ E \in Table /\ more \in Nat
      BY <1>1, <2>10
    <3>2. needed_blocks(size) = SFS_ENTRYREFS * more + 0 + 1
      BY <1>2
    <3> QED BY <2>8, <2>12, <2>13, <3>1, <3>2, LongerSizes
  <2> QED BY <2>11, <2>14
<1> QED BY <1>4, <1>5, <1>6, <1>7

\* Giving a file a size that takes one block more, wherever in its chain.
LEMMA GrowChain ==
  ASSUME NEW d \in Disks, NEW D, NEW E, NEW s, On(s, D, d, E), ~Failed(s.res), Good(E, {}),
         NEW n \in EntryIndex, IsFile(E[n]), IsDir(E[E[n].parent]),
         NEW size \in Nat, needed_blocks(size) = needed_blocks(E[n].size) + 1
  PROVE  \/ NoRoom(ResizeChain(s, d, n, size), D, d, E)
         \/ /\ Resizes(ResizeChain(s, d, n, size), D, d, E, n, size)
            /\ ResizeChain(s, d, n, size).res = NO_ERROR
<1>1. E \in Table
  BY OnTypes
<1>2. PICK k \in Nat : \E c : FileChain(E, n, c, k)
  BY <1>1, ChainOf DEF Good
<1>3. PICK c : FileChain(E, n, c, k)
  BY <1>2
<1> DEFINE x == needed_blocks(E[n].size) - SFS_ENTRYREFS * k
<1>4. x \in 0 .. SFS_ENTRYREFS
  BY <1>1, <1>3, LastRefs
<1>5. LastIs(x, k, E[n].size)
  BY DEF LastIs
<1> HIDE DEF x
<1>6. CASE x = SFS_ENTRYREFS
  <2>1. LastIs(SFS_ENTRYREFS, k, E[n].size)
    BY <1>5, <1>6
  <2> QED BY <1>3, <2>1, GrowFull
<1>7. CASE x # SFS_ENTRYREFS
  <2>1. x \in RefIndex
    BY <1>4, <1>7, Numbers DEF RefIndex
  <2> QED BY <1>3, <1>5, <2>1, GrowLast
<1> QED BY <1>6, <1>7

-----------------------------------------------------------------------------
(* Allocating.  The rounds of AllocateBlocks. *)

\* The rounds of the loop that gives references their blocks.
AllocRuns(s, d, n, cur, req, v) ==
  /\ AllocateBlocks(s, d, n, cur, req) = (IF Failed(v[2 * req].call.res) THEN v[2 * req].call ELSE write_entry(v[2 * req].call, d, v[2 * req].nt, v[2 * req].te))
  /\ v[0] = [call |-> s, nt |-> n, te |-> At(s, d, n), cur |-> cur, req |-> req]
  /\ \A i \in 0 .. 2 * req - 1 : v[i + 1] = AllocateOnce(v[i], d)

\* The rounds of this loop are a function that exists and is the one the operator evaluates.
LEMMA AllocRunsExist ==
  ASSUME NEW s, NEW d, NEW n, NEW cur, NEW req, req \in Nat
  PROVE  \E v : AllocRuns(s, d, n, cur, req, v)
<1> DEFINE a == [call |-> s, nt |-> n, te |-> At(s, d, n), cur |-> cur, req |-> req]
           Round(z, i) == AllocateOnce(z, d)
           Is(m, f) == f = [i \in 0 .. m |-> IF i = 0 THEN a ELSE Round(f[i - 1], i)]
           S == {m \in 0 .. 2 * req : \E f : Is(m, f)}
           v == CHOOSE f : Is(2 * req, f)
<1>1. 2 * req \in Nat
  OBVIOUS
<1>2. AllocateBlocks(s, d, n, cur, req) = (IF Failed(v[2 * req].call.res) THEN v[2 * req].call ELSE write_entry(v[2 * req].call, d, v[2 * req].nt, v[2 * req].te))
  BY DEF AllocateBlocks, Then, Rounds
<1> HIDE DEF a, Round
<1>3. 0 \in S
  <2>1. Is(0, [i \in 0 .. 0 |-> a])
    OBVIOUS
  <2> HIDE DEF Is
  <2> QED BY <1>1, <2>1
<1>4. ASSUME NEW m \in 0 .. 2 * req - 1, m \in S PROVE m + 1 \in S
  <2>1. PICK f : Is(m, f)
    BY <1>4
  <2> DEFINE h == [i \in 0 .. m + 1 |-> IF i = m + 1 THEN Round(f[m], m + 1) ELSE f[i]]
  <2>2. \A i \in 0 .. m : h[i] = f[i] /\ f[i] = IF i = 0 THEN a ELSE Round(f[i - 1], i)
    BY <2>1
  <2>3. h[m + 1] = Round(f[m], m + 1)
    OBVIOUS
  <2>4. \A i \in 0 .. m + 1 : h[i] = IF i = 0 THEN a ELSE Round(h[i - 1], i)
    <3> SUFFICES ASSUME NEW i \in 0 .. m + 1 PROVE h[i] = IF i = 0 THEN a ELSE Round(h[i - 1], i)
      OBVIOUS
    <3> HIDE DEF h
    <3>1. CASE i = 0
      BY <2>2, <3>1
    <3>2. CASE i \in 1 .. m
      <4>1. i - 1 \in 0 .. m /\ i \in 0 .. m /\ i # 0
        BY <3>2
      <4>2. h[i - 1] = f[i - 1] /\ h[i] = Round(f[i - 1], i)
        BY <2>2, <4>1
      <4> QED BY <4>1, <4>2
    <3>3. CASE i = m + 1
      <4>1. i - 1 = m /\ m \in 0 .. m /\ i # 0
        BY <3>3
      <4>2. h[i - 1] = f[m] /\ h[i] = Round(f[m], i)
        BY <2>2, <2>3, <3>3, <4>1
      <4> QED BY <4>1, <4>2
    <3> QED BY <3>1, <3>2, <3>3
  <2>5. Is(m + 1, h)
    BY <2>4
  <2> HIDE DEF Is
  <2> QED BY <1>1, <2>5
<1> HIDE DEF Is
<1>5. \A m \in 0 .. 2 * req : m \in S
  <2> HIDE DEF S
  <2> QED BY <1>1, <1>3, <1>4, UpTo
<1>6. Is(2 * req, v)
  <2>1. \E f : Is(2 * req, f)
    BY <1>1, <1>5
  <2> QED BY <2>1
<1>7. v = [i \in 0 .. 2 * req |-> IF i = 0 THEN a ELSE Round(v[i - 1], i)]
  BY <1>6 DEF Is
<1> HIDE DEF v
<1>8. v[0] = a
  BY <1>1, <1>7
<1>9. ASSUME NEW i \in 0 .. 2 * req - 1 PROVE v[i + 1] = Round(v[i], i + 1)
  <2> DEFINE m == i + 1
  <2>1. m \in 0 .. 2 * req /\ m # 0 /\ m - 1 = i
    BY <1>1
  <2>2. m = i + 1
    OBVIOUS
  <2> HIDE DEF m
  <2>3. v[m] = Round(v[m - 1], m)
    BY <1>7, <2>1
  <2> QED BY <2>1, <2>2, <2>3
<1> QED BY <1>2, <1>8, <1>9 DEF a, Round, AllocRuns

\* A free block is one that no reference names.
LEMMA FreeBlock ==
  ASSUME NEW d \in Disks, NEW D, NEW E, NEW s, On(s, D, d, E), Good(E, {})
  PROVE  \/ find_free_block(s.disk[d]) = ERROR_NO_SPACE
         \/ find_free_block(s.disk[d]) \in DataBlocks /\ NewBlock(E, find_free_block(s.disk[d]))
<1> DEFINE img == s.disk[d]
           free == DataBlocks \ UsedBlocks(img)
           b == find_free_block(img)
<1>1. E = img.entry /\ E \in Table
  BY OnTypes DEF On
<1>2. b = FirstOr(free, ERROR_NO_SPACE)
  BY DEF find_free_block
<1>3. NBlocks \in Nat /\ FirstBlock \in Nat /\ DataBlocks \subseteq 0 .. NBlocks
  BY Numbers, NSFSDiskAssumption DEF DataBlocks
<1>4. b = ERROR_NO_SPACE \/ b \in free
  <2> HIDE DEF b, free
  <2>1. free \in SUBSET (0 .. NBlocks)
    BY <1>3 DEF free
  <2> QED BY <1>2, <1>3, <2>1, FirstOrIn
<1> HIDE DEF b, img
<1>5. ASSUME b \in free PROVE NewBlock(E, b)
  <2>1. ASSUME NEW m \in EntryIndex, NEW i \in RefIndex, IsFile(E[m]), E[m].ref[i] = b PROVE b = 0
    <3>1. CASE i \in LiveRefs(E[m])
      <4>1. b \in UsedBlocks(img)
        BY <1>1, <2>1, <3>1 DEF UsedBlocks, IsFile
      <4> QED BY <1>5, <4>1
    <3>2. CASE i \notin LiveRefs(E[m])
      BY <2>1, <3>2 DEF Good, Refs
    <3> QED BY <3>1, <3>2
  <2> QED BY <1>5, <2>1 DEF NewBlock
<1> QED BY <1>4, <1>5 DEF b, img

\* The three kinds of round.
LEMMA AllocateStep ==
  ASSUME NEW s, NEW d, NEW nt, NEW te, NEW cur \in Nat, ~Failed(s.res),
         cur >= SFS_ENTRYREFS, NEW t, t = write_entry(s, d, nt, te), t.res = NO_ERROR
  PROVE  AllocateOnce([call |-> s, nt |-> nt, te |-> te, cur |-> cur, req |-> cur + 1], d) =
           [call |-> t, nt |-> te.next, te |-> At(t, d, te.next),
            cur |-> cur - SFS_ENTRYREFS, req |-> cur + 1 - SFS_ENTRYREFS]
<1> DEFINE w == [call |-> s, nt |-> nt, te |-> te, cur |-> cur, req |-> cur + 1]
<1>1. w.call = s /\ w.nt = nt /\ w.te = te /\ w.cur = cur /\ w.req = cur + 1
  OBVIOUS
<1>2. ~(w.cur >= w.req) /\ ~(w.cur < SFS_ENTRYREFS)
  BY <1>1, Numbers
<1>3. ~Failed(t.res)
  BY DEF Failed, NO_ERROR
<1> HIDE DEF w
<1>4. AllocateOnce(w, d) = [call |-> t, nt |-> w.te.next, te |-> At(t, d, w.te.next),
                           cur |-> w.cur - SFS_ENTRYREFS, req |-> w.req - SFS_ENTRYREFS]
  <2> HIDE <1>1
  <2>1. w.call = s /\ t = write_entry(w.call, d, w.nt, w.te)
    BY <1>1
  <2> QED BY <1>2, <1>3, <2>1 DEF AllocateOnce
<1>5. AllocateOnce(w, d) = [call |-> t, nt |-> te.next, te |-> At(t, d, te.next),
                           cur |-> cur - SFS_ENTRYREFS, req |-> cur + 1 - SFS_ENTRYREFS]
  <2>1. w.req - SFS_ENTRYREFS = cur + 1 - SFS_ENTRYREFS
    BY <1>1, Numbers
  <2>2. w.te.next = te.next /\ At(t, d, w.te.next) = At(t, d, te.next) /\ w.cur - SFS_ENTRYREFS = cur - SFS_ENTRYREFS
    BY <1>1
  <2> QED BY <1>4, <2>1, <2>2
<1> QED BY <1>5 DEF w

\* A round of the allocation on a full disk.
LEMMA AllocateFull ==
  ASSUME NEW s, NEW d, NEW nt, NEW te, NEW cur \in Nat, NEW req \in Nat, ~Failed(s.res), cur < req,
         cur < SFS_ENTRYREFS, find_free_block(s.disk[d]) = ERROR_NO_SPACE
  PROVE  AllocateOnce([call |-> s, nt |-> nt, te |-> te, cur |-> cur, req |-> req], d) =
           [call |-> Return(s, ERROR_NO_SPACE), nt |-> nt, te |-> te, cur |-> cur, req |-> req]
<1>1. ~(cur >= req)
  OBVIOUS
<1>2. Failed(find_free_block(s.disk[d]))
  BY DEF Failed, ERROR_NO_SPACE
<1> QED BY <1>1, <1>2 DEF AllocateOnce

\* A round that gives a reference a block.
LEMMA AllocateBlock ==
  ASSUME NEW s, NEW d, NEW nt, NEW te, NEW cur \in Nat, NEW req \in Nat, ~Failed(s.res), cur < req,
         cur < SFS_ENTRYREFS, NEW b, b = find_free_block(s.disk[d]), ~Failed(b)
  PROVE  AllocateOnce([call |-> s, nt |-> nt, te |-> te, cur |-> cur, req |-> req], d) =
           [call |-> s, nt |-> nt, te |-> WithRef(te, cur, b), cur |-> cur + 1, req |-> req]
<1>1. ~(cur >= req)
  OBVIOUS
<1> QED BY <1>1 DEF AllocateOnce, WithRef

\* A round after the last.
LEMMA AllocateNot ==
  ASSUME NEW v, NEW d, Failed(v.call.res) \/ v.cur >= v.req
  PROVE  AllocateOnce(v, d) = v
BY DEF AllocateOnce

\* No block is needed: the entry is written as it is.
LEMMA AllocateNone ==
  ASSUME NEW d \in Disks, NEW D, NEW E, NEW s, On(s, D, d, E), ~Failed(s.res), NEW n \in EntryIndex, NEW cur \in Nat
  PROVE  /\ On(AllocateBlocks(s, d, n, cur, cur), D, d, E)
         /\ AllocateBlocks(s, d, n, cur, cur).res = NO_ERROR
<1>1. PICK v : AllocRuns(s, d, n, cur, cur, v)
  BY AllocRunsExist
<1> DEFINE a == [call |-> s, nt |-> n, te |-> At(s, d, n), cur |-> cur, req |-> cur]
           S == {i \in 0 .. 2 * cur : v[i] = a}
<1>2. v[0] = a /\ \A i \in 0 .. 2 * cur - 1 : v[i + 1] = AllocateOnce(v[i], d)
  BY <1>1 DEF AllocRuns
<1>3. AllocateOnce(a, d) = a
  <2>1. a.cur >= a.req
    OBVIOUS
  <2> QED BY <2>1, AllocateNot
<1>3a. a.call = s /\ a.nt = n /\ a.te = At(s, d, n)
  OBVIOUS
<1> HIDE DEF a
<1>4. 0 \in S
  BY <1>2
<1>5. ASSUME NEW i \in 0 .. 2 * cur - 1, i \in S PROVE i + 1 \in S
  BY <1>2, <1>3, <1>5
<1>6. 2 * cur \in Nat /\ \A i \in 0 .. 2 * cur : i \in S
  <2> HIDE DEF S
  <2>1. 2 * cur \in Nat
    OBVIOUS
  <2> DEFINE m == 2 * cur
  <2>2. m \in Nat /\ \A i \in 0 .. m - 1 : i \in S => i + 1 \in S
    BY <1>5
  <2> HIDE DEF m
  <2>3. \A i \in 0 .. m : i \in S
    BY <1>4, <2>2, UpTo
  <2> QED BY <2>1, <2>3 DEF m
<1>7. v[2 * cur] = a
  BY <1>6
<1>8. AllocateBlocks(s, d, n, cur, cur) =
        (IF Failed(v[2 * cur].call.res) THEN v[2 * cur].call
         ELSE write_entry(v[2 * cur].call, d, v[2 * cur].nt, v[2 * cur].te))
  BY <1>1 DEF AllocRuns
<1>9. AllocateBlocks(s, d, n, cur, cur) = write_entry(s, d, n, E[n])
  <2>1. At(s, d, n) = E[n]
    BY OnTypes
  <2> QED BY <1>3a, <1>7, <1>8, <2>1
<1> QED BY <1>9, WriteSame

\* The rounds that walk down the chain to its last entry.
Walking(w, D, d, E, at, cur) ==
  \E u : /\ w = [call |-> u, nt |-> at, te |-> E[at], cur |-> cur, req |-> cur + 1]
         /\ On(u, D, d, E) /\ ~Failed(u.res)

\* The rounds that only step to the entry the reference is in.
LEMMA AllocateWalk ==
  ASSUME NEW d \in Disks, NEW D, NEW E, NEW s, On(s, D, d, E), ~Failed(s.res), NEW k \in Nat, NEW c, Linked(E, c, k),
         NEW x \in RefIndex, NEW cur \in Nat, cur = SFS_ENTRYREFS * k + x,
         NEW v, AllocRuns(s, d, c[0], cur, cur + 1, v)
  PROVE  Walking(v[k], D, d, E, c[k], x) /\ k <= cur
<1> DEFINE r == SFS_ENTRYREFS
           W(i) == r * (k - i) + x
           S == {i \in 0 .. k : Walking(v[i], D, d, E, c[i], W(i))}
<1>0. r \in Nat /\ r > 1 /\ x \in Nat /\ x < r
  BY Numbers DEF RefIndex
<1>1. \A i \in 0 .. k : W(i) \in Nat /\ (i < k => W(i) >= r /\ W(i + 1) = W(i) - r)
  <2> HIDE DEF r
  <2> SUFFICES ASSUME NEW i \in 0 .. k PROVE W(i) \in Nat /\ (i < k => W(i) >= r /\ W(i + 1) = W(i) - r)
    OBVIOUS
  <2>1. r * (k - i) \in Nat
    BY <1>0
  <2>2. ASSUME i < k PROVE W(i) >= r /\ W(i + 1) = W(i) - r
    <3> DEFINE q == k - i - 1
    <3>1. q \in Nat /\ k - i = q + 1 /\ k - (i + 1) = q
      BY <2>2
    <3> HIDE DEF q
    <3>2. r * (q + 1) = r * q + r /\ r * q \in Nat
      BY <1>0, <3>1
    <3> QED BY <1>0, <3>1, <3>2
  <2> QED BY <1>0, <2>1, <2>2
<1>2. W(0) = cur /\ W(k) = x
  <2>1. k - 0 = k /\ k - k = 0 /\ r * 0 = 0
    BY <1>0
  <2> QED BY <2>1, <1>0
<1>3. k <= cur
  <2> HIDE DEF r
  <2>1. k <= r * k
    BY <1>0
  <2>2. cur = r * k + x
    BY DEF r
  <2>3. r * k \in Nat
    BY <1>0
  <2> QED BY <1>0, <2>1, <2>2, <2>3
<1> HIDE DEF W
<1>4. v[0] = [call |-> s, nt |-> c[0], te |-> At(s, d, c[0]), cur |-> cur, req |-> cur + 1]
  BY DEF AllocRuns
<1>5. \A i \in 0 .. 2 * (cur + 1) - 1 : v[i + 1] = AllocateOnce(v[i], d)
  BY DEF AllocRuns
<1>6. 0 \in S
  <2>1. At(s, d, c[0]) = E[c[0]]
    BY OnTypes
  <2>2. v[0] = [call |-> s, nt |-> c[0], te |-> E[c[0]], cur |-> W(0), req |-> W(0) + 1]
    BY <1>2, <1>4, <2>1
  <2>3. Walking(v[0], D, d, E, c[0], W(0))
    BY <2>2 DEF Walking
  <2> QED BY <2>3
<1>7. ASSUME NEW i \in 0 .. k - 1, i \in S PROVE i + 1 \in S
  <2>1. i \in 0 .. k /\ i + 1 \in 0 .. k /\ i < k /\ i \in 0 .. 2 * (cur + 1) - 1
    BY <1>3
  <2>2. PICK u : /\ v[i] = [call |-> u, nt |-> c[i], te |-> E[c[i]], cur |-> W(i), req |-> W(i) + 1]
                 /\ On(u, D, d, E) /\ ~Failed(u.res)
    BY <1>7 DEF Walking
  <2> DEFINE t == write_entry(u, d, c[i], E[c[i]])
             w == W(i)
             a == c[i]
             e == E[c[i]]
  <2>3. On(t, D, d, E) /\ t.res = NO_ERROR
    <3>1. c[i] \in EntryIndex
      BY <2>1 DEF Linked
    <3>2. On(u, D, d, E)
      BY <2>2
    <3> QED BY <3>1, <3>2, WriteSame
  <2>4. e.next = c[i + 1]
    BY <2>1 DEF Linked
  <2>5. At(t, d, e.next) = E[e.next]
    BY <2>3, OnTypes
  <2>6. w \in Nat /\ w >= r /\ W(i + 1) = w - r
    BY <1>1, <2>1
  <2>7. v[i + 1] = AllocateOnce([call |-> u, nt |-> a, te |-> e, cur |-> w, req |-> w + 1], d)
    BY <1>5, <2>1, <2>2
  <2>8. t = write_entry(u, d, a, e) /\ ~Failed(u.res)
    BY <2>2
  <2> HIDE DEF t, w, a, e
  <2>9. AllocateOnce([call |-> u, nt |-> a, te |-> e, cur |-> w, req |-> w + 1], d)
          = [call |-> t, nt |-> e.next, te |-> At(t, d, e.next), cur |-> w - r, req |-> w + 1 - r]
    <3>1. w \in Nat /\ w >= SFS_ENTRYREFS /\ t.res = NO_ERROR
      BY <2>3, <2>6
    <3> QED BY <2>8, <3>1, AllocateStep
  <2>10. w + 1 - r = W(i + 1) + 1
    BY <1>0, <2>6
  <2>11. v[i + 1] = [call |-> t, nt |-> c[i + 1], te |-> E[c[i + 1]], cur |-> W(i + 1), req |-> W(i + 1) + 1]
    BY <2>4, <2>5, <2>6, <2>7, <2>9, <2>10
  <2>12. Walking(v[i + 1], D, d, E, c[i + 1], W(i + 1))
    BY <2>3, <2>11 DEF Walking, Failed, NO_ERROR
  <2> QED BY <2>1, <2>12
<1>8. \A i \in 0 .. k : i \in S
  <2> HIDE DEF S
  <2> QED BY <1>6, <1>7, UpTo
<1>9. Walking(v[k], D, d, E, c[k], W(k))
  <2>1. k \in 0 .. k
    OBVIOUS
  <2> QED BY <1>8, <2>1
<1> QED BY <1>2, <1>3, <1>9

\* When nothing is left to do, the rounds that follow do nothing.
LEMMA AllocateRest ==
  ASSUME NEW s, NEW d, NEW n, NEW cur \in Nat, NEW req \in Nat, NEW v, AllocRuns(s, d, n, cur, req, v),
         NEW i \in 0 .. 2 * req, Failed(v[i].call.res) \/ v[i].cur >= v[i].req
  PROVE  v[2 * req] = v[i]
<1> DEFINE m == 2 * req - i
           S == {j \in 0 .. m : v[i + j] = v[i]}
<1>1. m \in Nat /\ i \in Nat /\ i + m = 2 * req
  OBVIOUS
<1>2. \A j \in 0 .. 2 * req - 1 : v[j + 1] = AllocateOnce(v[j], d)
  BY DEF AllocRuns
<1>3. AllocateOnce(v[i], d) = v[i]
  BY AllocateNot
<1>4. 0 \in S
  BY <1>1
<1>5. ASSUME NEW j \in 0 .. m - 1, j \in S PROVE j + 1 \in S
  <2>1. i + j \in 0 .. 2 * req - 1 /\ (i + j) + 1 = i + (j + 1) /\ j + 1 \in 0 .. m
    BY <1>1
  <2>2. v[(i + j) + 1] = v[i]
    BY <1>2, <1>3, <1>5, <2>1
  <2> HIDE DEF m
  <2> QED BY <2>1, <2>2
<1> HIDE DEF m
<1>6. \A j \in 0 .. m : j \in S
  <2> HIDE DEF S
  <2> QED BY <1>1, <1>4, <1>5, UpTo
<1>7. m \in S
  BY <1>1, <1>6
<1> QED BY <1>1, <1>7

-----------------------------------------------------------------------------
(* Allocating a block.  Grow by one block. *)

\* The reference that the size of a file has last, when it has one at all.
LEMMA LastReference ==
  ASSUME NEW E \in Table, Good(E, {}), NEW n \in EntryIndex, IsFile(E[n]), NEW k \in Nat, NEW c, FileChain(E, n, c, k),
         NEW cur \in Nat, needed_blocks(E[n].size) = cur + 1
  PROVE  \E x \in RefIndex : cur = SFS_ENTRYREFS * k + x /\ needed_blocks(E[c[k]].size) = x + 1
<1> DEFINE r == SFS_ENTRYREFS
           y == cur + 1 - r * k
           last == E[c[k]].size
<1>1. /\ y \in 0 .. r /\ y = needed_blocks(last) /\ last \in Nat
  <2>1. needed_blocks(E[n].size) - r * k \in 0 .. r /\ E[c[k]] \in Entry
        /\ needed_blocks(E[n].size) - r * k = needed_blocks(last)
    BY LastRefs
  <2>2. last \in Nat
    BY <2>1 DEF Entry
  <2>3. needed_blocks(E[n].size) - r * k = y
    <3>1. needed_blocks(E[n].size) = cur + 1
      OBVIOUS
    <3> QED BY <3>1, Numbers
  <2> HIDE DEF y, last, r
  <2> QED BY <2>1, <2>2, <2>3
<1>2. y # 0
  <2>1. CASE k = 0
    <3>1. r * k = 0
      BY <2>1, Numbers
    <3> QED BY <3>1
  <2>2. CASE k # 0
    <3>1. k - 1 \in 0 .. k - 1 /\ k \in 0 .. k /\ k - 1 + 1 = k /\ k - 1 \in 0 .. k
      BY <2>2
    <3>2. E[c[k - 1]].size > Capacity /\ IsFile(E[c[k - 1]])
      BY <3>1 DEF FileChain
    <3>3. E[c[k - 1]].next = c[k - 1 + 1] /\ c[k - 1 + 1] # 0 /\ c[k - 1] \in EntryIndex
      BY <3>1 DEF FileChain, Linked
    <3>4. E[c[k - 1 + 1]].size = E[c[k - 1]].size - Capacity
      BY <3>2, <3>3 DEF Good, Chains
    <3>5. last > 0
      <4>1. E[c[k - 1]].size \in Nat
        BY <3>3 DEF Table, Entry
      <4> QED BY <3>1, <3>2, <3>4, <4>1, Numbers
    <3> HIDE DEF last, y
    <3>6. SUFFICES ASSUME y = 0 PROVE FALSE
      OBVIOUS
    <3>7. y * BLOCK_SIZE >= last
      BY <1>1, BlocksCover
    <3> QED BY <1>1, <3>5, <3>6, <3>7, Numbers
  <2> QED BY <2>1, <2>2
<1>3. r \in Nat /\ r * k \in Nat
  <2>1. r \in Nat
    BY Numbers
  <2> HIDE DEF r
  <2> QED BY <2>1
<1> DEFINE x == y - 1
<1>4. x \in RefIndex /\ cur = r * k + x /\ needed_blocks(last) = x + 1
  <2>1. y - 1 \in 0 .. r - 1
    <3> HIDE DEF y, r
    <3> QED BY <1>1, <1>2, <1>3
  <2>2. cur = r * k + x
    <3> HIDE DEF r
    <3> QED BY <1>3
  <2>3. needed_blocks(last) = x + 1
    <3> HIDE DEF y, last
    <3> QED BY <1>1, <1>3
  <2> QED BY <2>1, <2>2, <2>3 DEF RefIndex
<1> HIDE DEF x, y
<1> QED BY <1>4

\* Giving the last reference of a chain, which has no block yet or one that is not used.
LEMMA GivenBlock ==
  ASSUME NEW E \in Table, Good(E, {}), NEW n \in EntryIndex, IsFile(E[n]), IsDir(E[E[n].parent]),
         NEW k \in Nat, NEW c, FileChain(E, n, c, k),
         NEW x \in RefIndex, needed_blocks(E[c[k]].size) = x + 1, NEW b \in DataBlocks, NewBlock(E, b),
         NEW F, F = [E EXCEPT ![c[k]] = WithRef(E[c[k]], x, b)]
  PROVE  F \in Table /\ Good(F, {}) /\ Kept(E, F, {})
<1> DEFINE a == c[k]
           e == E[a]
           f == WithRef(e, x, b)
<1>1. /\ Linked(E, c, k) /\ c[0] = n /\ c \in [0 .. k -> EntryIndex] /\ k \in 0 .. k
      /\ \A j \in 0 .. k : IsFile(E[c[j]]) /\ E[c[j]].size = E[n].size - j * Capacity
      /\ \A j \in 0 .. k - 1 : E[c[j]].size > Capacity /\ E[c[j + 1]].parent = c[j]
      /\ E[c[k]].size <= Capacity
      /\ \A i, j \in 0 .. k : c[i] = c[j] => i = j
      /\ E[c[k]].next = 0
  BY DEF FileChain, Linked
<1>2. a \in EntryIndex /\ e \in Entry /\ IsFile(e)
  BY <1>1 DEF Table
<1>3. /\ f \in Entry /\ f.flags = T_FILE /\ f.name = e.name /\ f.parent = e.parent /\ f.next = e.next /\ f.size = e.size
      /\ \A i \in RefIndex : f.ref[i] = IF i = x THEN b ELSE e.ref[i]
  <2> HIDE DEF e
  <2>1. e.ref \in [RefIndex -> EntryIndex \cup DataBlocks]
    BY <1>2 DEF Entry
  <2>2. [e.ref EXCEPT ![x] = b] \in [RefIndex -> EntryIndex \cup DataBlocks]
    BY <2>1
  <2>3. f = [e EXCEPT !.ref = [e.ref EXCEPT ![x] = b]]
    BY DEF WithRef
  <2> DEFINE g == [e.ref EXCEPT ![x] = b]
  <2>4. \A i \in RefIndex : g[i] = IF i = x THEN b ELSE e.ref[i]
    BY <2>1
  <2>5. f = [e EXCEPT !.ref = g] /\ g \in [RefIndex -> EntryIndex \cup DataBlocks]
    BY <2>2, <2>3
  <2> HIDE DEF g, f
  <2> QED BY <1>2, <2>4, <2>5 DEF Entry, IsFile
<1>4. /\ F \in Table /\ F[a] = f /\ \A m \in EntryIndex : m # a => F[m] = E[m]
  BY <1>2, <1>3 DEF Table
<1> HIDE DEF f, e
<1>5. \A j \in 0 .. k : j # k => F[c[j]] = E[c[j]]
  BY <1>1, <1>4
<1>6. Chain(E, n, c, k, k)
  BY <1>1 DEF Chain, Linked
<1>7. Extended(E, F, n, c, k, k, E[n].size, x, b)
  <2>1. \A m \in EntryIndex : (\A j \in 0 .. k : m # c[j]) => F[m] = E[m]
    BY <1>1, <1>4
  <2>2. ASSUME NEW j \in 0 .. k
        PROVE  LET g == F[c[j]]
               IN  /\ g.flags = T_FILE /\ g.name = E[c[IF j > k THEN k ELSE j]].name
                   /\ g.parent = IF j = 0 THEN E[n].parent ELSE c[j - 1]
                   /\ g.next = IF j = k THEN 0 ELSE c[j + 1]
                   /\ g.size = E[n].size - j * Capacity /\ (g.size <= Capacity <=> j = k)
                   /\ \A i \in RefIndex \ LiveRefs(g) : g.ref[i] = 0
                   /\ \A i \in RefIndex : g.ref[i] = IF j = k /\ i = x THEN b ELSE E[c[j]].ref[i]
    <3> DEFINE g == F[c[j]]
               e0 == E[c[j]]
    <3>1. g.flags = T_FILE /\ g.name = e0.name /\ g.parent = e0.parent /\ g.next = e0.next /\ g.size = e0.size
      <4>1. CASE j = k
        BY <1>3, <1>4, <4>1 DEF e
      <4>2. CASE j # k
        BY <1>1, <1>5, <4>2 DEF IsFile
      <4> QED BY <4>1, <4>2
    <3>2. e0.parent = IF j = 0 THEN E[n].parent ELSE c[j - 1]
      <4>1. CASE j = 0
        BY <1>1, <4>1
      <4>2. CASE j # 0
        <5>1. j - 1 \in 0 .. k - 1 /\ j - 1 + 1 = j
          BY <4>2
        <5>2. E[c[j - 1 + 1]].parent = c[j - 1]
          BY <1>1, <5>1
        <5> QED BY <4>2, <5>1, <5>2
      <4> QED BY <4>1, <4>2
    <3>3. e0.next = IF j = k THEN 0 ELSE c[j + 1]
      <4>1. j # k => j \in 0 .. k - 1
        OBVIOUS
      <4> QED BY <1>1, <4>1 DEF Linked
    <3>4. e0.size = E[n].size - j * Capacity
      BY <1>1
    <3>5. e0.size <= Capacity <=> j = k
      <4>1. CASE j = k
        BY <1>1, <4>1
      <4>2. CASE j # k
        <5>1. j \in 0 .. k - 1
          BY <4>2
        <5>2. e0.size > Capacity
          BY <1>1, <5>1
        <5>3. e0.size \in Nat /\ Capacity \in Nat
          BY <1>1, Numbers DEF Table, Entry
        <5> HIDE DEF e0
        <5> QED BY <4>2, <5>2, <5>3
      <4> QED BY <4>1, <4>2
    <3>6. \A i \in RefIndex : g.ref[i] = IF j = k /\ i = x THEN b ELSE e0.ref[i]
      <4>1. CASE j = k
        BY <1>3, <1>4, <4>1 DEF e
      <4>2. CASE j # k
        BY <1>5, <4>2
      <4> QED BY <4>1, <4>2
    <3>7. LiveRefs(g) = LiveRefs(e0)
      <4>1. e0.flags = T_FILE
        BY <1>1 DEF IsFile
      <4> HIDE DEF g, e0
      <4> QED BY <3>1, <4>1 DEF LiveRefs, T_FILE, T_DIR
    <3>8. \A i \in RefIndex \ LiveRefs(e0) : e0.ref[i] = 0
      BY <1>1 DEF Good, Refs
    <3>9. j = k => x \in LiveRefs(e0)
      <4> SUFFICES ASSUME j = k PROVE x \in LiveRefs(e0)
        OBVIOUS
      <4>1. needed_blocks(e0.size) = x + 1 /\ e0.flags = T_FILE
        BY <1>1 DEF IsFile
      <4>2. LiveRefs(e0) = 0 .. Least(x + 1, SFS_ENTRYREFS) - 1
        BY <4>1 DEF LiveRefs, T_FILE, T_DIR
      <4> HIDE DEF e0
      <4> QED BY <4>2, Numbers DEF Least, RefIndex
    <3>10. \A i \in RefIndex \ LiveRefs(g) : g.ref[i] = 0
      <4> HIDE DEF g, e0
      <4> QED BY <3>6, <3>7, <3>8, <3>9
    <3>11. g.name = E[c[IF j > k THEN k ELSE j]].name
      <4>1. ~(j > k)
        OBVIOUS
      <4> QED BY <3>1, <4>1
    <3> HIDE DEF g, e0
    <3> QED BY <3>1, <3>2, <3>3, <3>4, <3>5, <3>6, <3>10, <3>11 DEF g, e0
  <2> QED BY <2>1, <2>2 DEF Extended
<1>8. Good(F, {})
  <2>1. E[n].size \in Nat /\ {} \in SUBSET EntryIndex /\ k \in 0 .. k /\ k >= k - 1
    BY DEF Table, Entry
  <2> QED BY <1>4, <1>6, <1>7, <2>1, Extend
<1>9. Kept(E, F, {})
  <2>1. \A m \in EntryIndex : F[m].flags = E[m].flags /\ F[m].name = E[m].name /\ F[m].parent = E[m].parent
                              /\ F[m].size = E[m].size
    BY <1>2, <1>3, <1>4 DEF e, IsFile
  <2> QED BY <2>1 DEF Kept, UsedIn
<1> QED BY <1>4, <1>8, <1>9

\* A call that leaves the table sound: what is kept of it, but for the sizes of some X.
Leaves(t, D, d, E, X) == \E F : On(t, D, d, F) /\ Good(F, {}) /\ Kept(E, F, X)

\* No change is a change that keeps the rest.
LEMMA KeptSame ==
  ASSUME NEW E, NEW X
  PROVE  Kept(E, E, X)
BY DEF Kept

\* AllocateBlocks for the one block that a file does not have.
LEMMA AllocateOne ==
  ASSUME NEW d \in Disks, NEW D, NEW E, NEW s, On(s, D, d, E), ~Failed(s.res), Good(E, {}),
         NEW n \in EntryIndex, IsFile(E[n]), IsDir(E[E[n].parent]),
         NEW cur \in Nat, needed_blocks(E[n].size) = cur + 1
  PROVE  /\ Leaves(AllocateBlocks(s, d, n, cur, cur + 1), D, d, E, {})
         /\ AllocateBlocks(s, d, n, cur, cur + 1).res \in {NO_ERROR, ERROR_NO_SPACE}
<1>1. E \in Table
  BY OnTypes
<1>2. PICK k \in Nat : \E c : FileChain(E, n, c, k)
  BY <1>1, ChainOf DEF Good
<1>3. PICK c : FileChain(E, n, c, k)
  BY <1>2
<1>4. PICK x \in RefIndex : cur = SFS_ENTRYREFS * k + x /\ needed_blocks(E[c[k]].size) = x + 1
  BY <1>1, <1>3, LastReference
<1>5. Linked(E, c, k) /\ c[0] = n
  BY <1>3 DEF FileChain
<1> DEFINE req == cur + 1
           t == AllocateBlocks(s, d, n, cur, req)
<1>6. req \in Nat /\ req = cur + 1
  OBVIOUS
<1> HIDE DEF req
<1>7. PICK v : AllocRuns(s, d, n, cur, req, v)
  BY <1>6, AllocRunsExist
<1>8. Walking(v[k], D, d, E, c[k], x) /\ k <= cur
  <2>1. AllocRuns(s, d, c[0], cur, cur + 1, v)
    BY <1>5, <1>6, <1>7
  <2>2. Linked(E, c, k) /\ cur = SFS_ENTRYREFS * k + x
    BY <1>4, <1>5
  <2> QED BY <2>1, <2>2, AllocateWalk
<1>9. PICK u : /\ v[k] = [call |-> u, nt |-> c[k], te |-> E[c[k]], cur |-> x, req |-> x + 1]
               /\ On(u, D, d, E) /\ ~Failed(u.res)
  BY <1>8 DEF Walking
<1> DEFINE last == v[2 * req]
           b == find_free_block(u.disk[d])
           a == c[k]
           e == E[c[k]]
<1>10. t = IF Failed(last.call.res) THEN last.call ELSE write_entry(last.call, d, last.nt, last.te)
  BY <1>7 DEF AllocRuns
<1>11. v[k + 1] = AllocateOnce(v[k], d)
  <2>1. k \in 0 .. 2 * req - 1
    BY <1>6, <1>8
  <2> QED BY <1>7, <2>1 DEF AllocRuns
<1>12. k + 1 \in 0 .. 2 * req
  BY <1>6, <1>8
<1>13. x \in Nat /\ x < SFS_ENTRYREFS
  BY Numbers DEF RefIndex
<1>14. b = ERROR_NO_SPACE \/ (b \in DataBlocks /\ NewBlock(E, b))
  BY <1>9, FreeBlock
<1>15. a \in EntryIndex /\ e \in Entry
  BY <1>1, <1>3, LastRefs
<1> DEFINE z == x + 1
<1>16. z \in Nat /\ x < z /\ x + 1 >= z /\ z = x + 1
  BY <1>13
<1> HIDE DEF b, last, t, a, e, z
<1>17. v[k] = [call |-> u, nt |-> a, te |-> e, cur |-> x, req |-> z]
  BY <1>9 DEF a, e, z
<1>18. CASE b = ERROR_NO_SPACE
  <2> DEFINE w == v[k + 1]
  <2>1. w = [call |-> Return(u, ERROR_NO_SPACE), nt |-> a, te |-> e, cur |-> x, req |-> z]
    <3>1. AllocateOnce([call |-> u, nt |-> a, te |-> e, cur |-> x, req |-> z], d)
            = [call |-> Return(u, ERROR_NO_SPACE), nt |-> a, te |-> e, cur |-> x, req |-> z]
      BY <1>9, <1>13, <1>16, <1>18, AllocateFull DEF b
    <3> QED BY <1>11, <1>17, <3>1
  <2>2. w.call = Return(u, ERROR_NO_SPACE)
    BY <2>1
  <2>3. On(w.call, D, d, E) /\ w.call.res = ERROR_NO_SPACE
    <3>1. ERROR_NO_SPACE \in Int
      BY DEF ERROR_NO_SPACE
    <3> QED BY <1>9, <2>2, <3>1, Returned
  <2>4. Failed(w.call.res)
    BY <2>3 DEF Failed, ERROR_NO_SPACE
  <2>5. last = w
    BY <1>6, <1>7, <1>12, <2>4, AllocateRest DEF last
  <2>6. t = w.call
    BY <1>10, <2>4, <2>5
  <2>7. Leaves(t, D, d, E, {})
    BY <2>3, <2>6, KeptSame DEF Leaves
  <2> QED BY <1>6, <2>3, <2>6, <2>7 DEF t
<1>19. CASE b \in DataBlocks /\ NewBlock(E, b)
  <2> DEFINE w == v[k + 1]
             f == WithRef(e, x, b)
             F == [E EXCEPT ![a] = f]
  <2>1. ~Failed(b)
    BY <1>19, Numbers DEF Failed
  <2>2. w = [call |-> u, nt |-> a, te |-> f, cur |-> x + 1, req |-> z]
    <3>1. AllocateOnce([call |-> u, nt |-> a, te |-> e, cur |-> x, req |-> z], d)
            = [call |-> u, nt |-> a, te |-> f, cur |-> x + 1, req |-> z]
      BY <1>9, <1>13, <1>16, <2>1, AllocateBlock DEF b
    <3> QED BY <1>11, <1>17, <3>1
  <2>3. w.call = u /\ w.nt = a /\ w.te = f /\ w.cur = x + 1 /\ w.req = z
    BY <2>2
  <2>4. last = w
    <3>1. w.cur >= w.req
      BY <1>13, <1>16, <2>3
    <3> DEFINE m == k + 1
    <3>2. m \in 0 .. 2 * req /\ w = v[m]
      BY <1>12
    <3> HIDE DEF m, w
    <3>3. Failed(v[m].call.res) \/ v[m].cur >= v[m].req
      BY <3>1, <3>2
    <3>5. AllocRuns(s, d, n, cur, req, v) /\ req \in Nat /\ m \in 0 .. 2 * req
      BY <1>6, <1>7, <3>2
    <3>4. v[2 * req] = v[m]
      BY <3>3, <3>5, AllocateRest
    <3> QED BY <3>2, <3>4 DEF last
  <2> HIDE DEF f, w
  <2>5. t = write_entry(u, d, a, f)
    BY <1>9, <1>10, <2>3, <2>4
  <2>6. F \in Table /\ Good(F, {}) /\ Kept(E, F, {})
    BY <1>1, <1>3, <1>4, <1>19, GivenBlock DEF f, a, e
  <2>7. f \in Entry
    <3>1. F[a] = f
      BY <1>1, <1>15 DEF Table
    <3> QED BY <1>15, <2>6, <3>1 DEF Table
  <2>8. On(t, D, d, F) /\ t.res = NO_ERROR
    BY <1>9, <1>15, <2>5, <2>7, WriteEntry
  <2>9. Leaves(t, D, d, E, {})
    <3> HIDE DEF F
    <3> QED BY <2>6, <2>8 DEF Leaves
  <2> QED BY <1>6, <2>8, <2>9 DEF t
<1> QED BY <1>14, <1>18, <1>19

-----------------------------------------------------------------------------
(* Sizes.  The two resizing steps of fs_write_file together. *)

\* What the discipline says of a write that ends at "end" in a file of a size.
Fits(old, end, truncate) ==
  LET before == needed_blocks(old)
      after == IF truncate \/ needed_blocks(end) > before THEN needed_blocks(end) ELSE before
  IN  /\ after <= before + 1
      /\ end > old \/ (truncate /\ end < old) => after < SFS_ENTRYREFS \/ after = before + 1

\* The size of the file of a write, before its data is written.
EnlargeTo(t, d, n, end) == IF At(t, d, n).size < end THEN Grow(t, d, n, end) ELSE t
ShrinkTo(t, d, n, end, truncate) == IF truncate /\ At(t, d, n).size > end THEN ResizeChain(t, d, n, end) ELSE t
SizedTo(t, D, d, E, n, size) ==
  \E F : On(t, D, d, F) /\ Good(F, {}) /\ Kept(E, F, {n}) /\ (~Failed(t.res) => F[n].size = size)

\* Growing is resizing the chain, then allocating.
LEMMA GrowSteps ==
  ASSUME NEW s, NEW d, NEW n, NEW size
  PROVE  LET t == ResizeChain(s, d, n, size)
         IN  Grow(s, d, n, size) = IF Failed(t.res) THEN t
                                   ELSE AllocateBlocks(t, d, n, needed_blocks(At(s, d, n).size), needed_blocks(size))
BY DEF Grow, Then

\* Enlarging a file by no block, or by one.
LEMMA Grown ==
  ASSUME NEW d \in Disks, NEW D, NEW E, NEW s, On(s, D, d, E), ~Failed(s.res), Good(E, {}),
         NEW n \in EntryIndex, IsFile(E[n]), IsDir(E[E[n].parent]),
         NEW end \in Nat, end > E[n].size,
         \/ needed_blocks(end) = needed_blocks(E[n].size) /\ needed_blocks(end) < SFS_ENTRYREFS
         \/ needed_blocks(end) = needed_blocks(E[n].size) + 1
  PROVE  SizedTo(Grow(s, d, n, end), D, d, E, n, end)
<1> DEFINE t == ResizeChain(s, d, n, end)
           cur == needed_blocks(E[n].size)
           req == needed_blocks(end)
           u == AllocateBlocks(t, d, n, cur, req)
<1>1. E \in Table /\ At(s, d, n) = E[n]
  BY OnTypes
<1>2. E[n].size \in Nat
  BY <1>1 DEF Table, Entry
<1>3. cur \in Nat
  BY <1>2, BlocksCover
<1>4. Grow(s, d, n, end) = IF Failed(t.res) THEN t ELSE u
  BY <1>1, GrowSteps
<1>5. n \in UsedIn(E) /\ {} \in SUBSET EntryIndex
  BY DEF UsedIn, IsFile, FREE, T_FILE
<1>6. CASE req = cur /\ req < SFS_ENTRYREFS
  <2>1. Resizes(t, D, d, E, n, end) /\ t.res = NO_ERROR
    <3>1. needed_blocks(end) <= needed_blocks(E[n].size)
      BY <1>3, <1>6
    <3> QED BY <1>6, <3>1, ResizeInHead
  <2> HIDE DEF t
  <2>2. PICK F : On(t, D, d, F) /\ Good(F, {}) /\ Kept(E, F, {n}) /\ F[n].size = end
    BY <2>1 DEF Resizes
  <2>3. ~Failed(t.res)
    BY <2>1 DEF Failed, NO_ERROR
  <2>4. u = AllocateBlocks(t, d, n, cur, cur)
    BY <1>6
  <2> HIDE DEF u, cur, req
  <2>5. On(u, D, d, F) /\ u.res = NO_ERROR
    BY <1>3, <2>2, <2>3, <2>4, AllocateNone
  <2> QED BY <1>4, <2>2, <2>3, <2>5 DEF SizedTo
<1>7. CASE req = cur + 1
  <2>1. \/ NoRoom(t, D, d, E)
        \/ Resizes(t, D, d, E, n, end) /\ t.res = NO_ERROR
    BY <1>7, GrowChain
  <2> HIDE DEF t
  <2>2. CASE NoRoom(t, D, d, E)
    <3>1. On(t, D, d, E) /\ t.res = ERROR_NO_SPACE
      BY <2>2 DEF NoRoom
    <3>2. Failed(t.res)
      BY <3>1 DEF Failed, ERROR_NO_SPACE
    <3>3. Kept(E, E, {n})
      BY KeptSame
    <3> QED BY <1>4, <3>1, <3>2, <3>3 DEF SizedTo
  <2>3. CASE Resizes(t, D, d, E, n, end) /\ t.res = NO_ERROR
    <3>1. PICK F : On(t, D, d, F) /\ Good(F, {}) /\ Kept(E, F, {n}) /\ F[n].size = end
      BY <2>3 DEF Resizes
    <3>2. ~Failed(t.res)
      BY <2>3 DEF Failed, NO_ERROR
    <3>3. u = AllocateBlocks(t, d, n, cur, cur + 1)
      BY <1>7
    <3>4. F \in Table
      BY <3>1, OnTypes
    <3>5. F[n].flags = E[n].flags /\ F[n].parent = E[n].parent
      BY <1>5, <3>1 DEF Kept
    <3>6. E[n].parent \in EntryIndex /\ IsDir(E[E[n].parent])
      BY <1>1 DEF Table, Entry
    <3>7. IsFile(F[n]) /\ IsDir(F[F[n].parent])
      <4>1. E[n].parent \in UsedIn(E) /\ IsDir(E[E[E[n].parent].parent])
        BY <1>1, <1>5, <3>6, DirInDir
      <4>2. F[E[n].parent].flags = E[E[n].parent].flags
        BY <3>1, <4>1 DEF Kept
      <4> QED BY <3>5, <3>6, <4>2 DEF IsFile, IsDir
    <3>8. needed_blocks(F[n].size) = cur + 1
      BY <1>7, <3>1
    <3> HIDE DEF u, cur, req
    <3>9. Leaves(u, D, d, F, {}) /\ u.res \in {NO_ERROR, ERROR_NO_SPACE}
      <4>1. On(t, D, d, F) /\ Good(F, {})
        BY <3>1
      <4> QED BY <1>3, <3>2, <3>3, <3>7, <3>8, <4>1, AllocateOne
    <3>10. PICK G : On(u, D, d, G) /\ Good(G, {}) /\ Kept(F, G, {})
      BY <3>9 DEF Leaves
    <3>11. Kept(E, G, {n})
      <4>1. Kept(F, G, {n})
        BY <3>10 DEF Kept
      <4>2. Good(E, {}) /\ Kept(E, F, {n}) /\ {n} \subseteq {n}
        BY <3>1
      <4> QED BY <1>1, <4>1, <4>2, KeptAfter
    <3>12. G[n].size = end
      <4>1. n \in UsedIn(F)
        BY <3>7 DEF UsedIn, IsFile, FREE, T_FILE
      <4> QED BY <3>1, <3>7, <3>10, <4>1 DEF Kept
    <3>13. SizedTo(u, D, d, E, n, end)
      BY <3>10, <3>11, <3>12 DEF SizedTo
    <3> QED BY <1>4, <3>2, <3>13
  <2> QED BY <2>1, <2>2, <2>3
<1> QED BY <1>6, <1>7

\* The file of a write gets the size that it has at the end.
SizeAfter(old, end, truncate) == IF end > old \/ truncate THEN end ELSE old

\* fs_write_file's two resizing steps give the file the size it must have, or fail and leave a
\* good table.
LEMMA Sized ==
  ASSUME NEW d \in Disks, NEW D, NEW E, NEW s, On(s, D, d, E), ~Failed(s.res), Good(E, {}),
         NEW n \in EntryIndex, IsFile(E[n]), IsDir(E[E[n].parent]),
         NEW end \in Nat, NEW truncate, Fits(E[n].size, end, truncate),
         NEW t, t = EnlargeTo(s, d, n, end),
         NEW u, u = IF Failed(t.res) THEN t ELSE ShrinkTo(t, d, n, end, truncate)
  PROVE  SizedTo(u, D, d, E, n, SizeAfter(E[n].size, end, truncate))
<1> DEFINE old == E[n].size
           before == needed_blocks(old)
           after == IF truncate \/ needed_blocks(end) > before THEN needed_blocks(end) ELSE before
<1>1. E \in Table /\ At(s, d, n) = E[n]
  BY OnTypes
<1>2. old \in Nat
  BY <1>1 DEF Table, Entry
<1>3. before \in Nat /\ needed_blocks(end) \in Nat
  BY <1>2, BlocksCover
<1>4. /\ after <= before + 1
      /\ end > old \/ (truncate /\ end < old) => after < SFS_ENTRYREFS \/ after = before + 1
  BY DEF Fits
<1>5. CASE end > old
  <2>1. t = Grow(s, d, n, end)
    <3>1. At(s, d, n).size < end
      BY <1>1, <1>2, <1>5
    <3> QED BY <3>1 DEF EnlargeTo
  <2>2. before <= needed_blocks(end)
    <3>1. old <= end
      BY <1>2, <1>5
    <3> QED BY <1>2, <3>1, BlocksOrder
  <2>3. \/ needed_blocks(end) = before /\ needed_blocks(end) < SFS_ENTRYREFS
        \/ needed_blocks(end) = before + 1
    <3>1. after = needed_blocks(end)
      BY <1>3, <2>2
    <3> HIDE DEF after, before
    <3> QED BY <1>3, <1>4, <1>5, <2>2, <3>1
  <2>4. SizedTo(t, D, d, E, n, end)
    <3>1. SizedTo(Grow(s, d, n, end), D, d, E, n, end)
      BY <1>5, <2>3, Grown
    <3> QED BY <2>1, <3>1
  <2>5. PICK F : On(t, D, d, F) /\ Good(F, {}) /\ Kept(E, F, {n}) /\ (~Failed(t.res) => F[n].size = end)
    BY <2>4 DEF SizedTo
  <2>6. u = t
    <3>1. CASE Failed(t.res)
      BY <3>1
    <3>2. CASE ~Failed(t.res)
      <4>1. At(t, d, n) = F[n]
        BY <2>5, OnTypes
      <4>2. ~(At(t, d, n).size > end)
        BY <2>5, <3>2, <4>1
      <4> QED BY <3>2, <4>2 DEF ShrinkTo
    <3> QED BY <3>1, <3>2
  <2>7. SizeAfter(old, end, truncate) = end
    BY <1>5 DEF SizeAfter
  <2> QED BY <2>4, <2>6, <2>7
<1>6. CASE ~(end > old) /\ truncate /\ end < old
  <2>1. t = s
    <3>1. ~(At(s, d, n).size < end)
      BY <1>1, <1>2, <1>6
    <3> QED BY <3>1 DEF EnlargeTo
  <2>2. u = ResizeChain(s, d, n, end)
    <3>1. At(s, d, n).size > end
      BY <1>1, <1>2, <1>6
    <3> QED BY <1>6, <2>1, <3>1 DEF ShrinkTo
  <2>3. needed_blocks(end) <= before
    <3>1. end <= old
      BY <1>2, <1>6
    <3> QED BY <1>2, <3>1, BlocksOrder
  <2>4. needed_blocks(end) < SFS_ENTRYREFS
    <3>1. after = needed_blocks(end)
      BY <1>6
    <3> HIDE DEF after, before
    <3> QED BY <1>3, <1>4, <1>6, <2>3, <3>1
  <2>5. Resizes(ResizeChain(s, d, n, end), D, d, E, n, end)
    BY <2>3, <2>4, ResizeInHead
  <2>6. SizeAfter(old, end, truncate) = end
    BY <1>6 DEF SizeAfter
  <2> QED BY <2>2, <2>5, <2>6 DEF Resizes, SizedTo
<1>7. CASE ~(end > old) /\ ~(truncate /\ end < old)
  <2>1. t = s
    <3>1. ~(At(s, d, n).size < end)
      BY <1>1, <1>2, <1>7
    <3> QED BY <3>1 DEF EnlargeTo
  <2>2. u = s
    <3>1. ~(truncate /\ At(s, d, n).size > end)
      BY <1>1, <1>2, <1>7
    <3> QED BY <2>1, <3>1 DEF ShrinkTo
  <2>3. SizeAfter(old, end, truncate) = old
    BY <1>2, <1>7 DEF SizeAfter
  <2> QED BY <2>2, <2>3, KeptSame DEF SizedTo
<1> QED BY <1>5, <1>6, <1>7

-----------------------------------------------------------------------------
(* Data.  WriteBytes writes into blocks of the file; TouchChain changes no entry. *)

\* The rounds of the loop that writes the data of a file.
WriteRuns(s, d, n, offset, data, v) ==
  /\ WriteBytes(s, d, n, offset, data) = v[(Len(data) + NEntries)].call
  /\ v[0] = [call |-> Return(s, NO_ERROR), n |-> n, offset |-> offset, data |-> data]
  /\ \A i \in 0 .. (Len(data) + NEntries) - 1 : v[i + 1] = WriteOnce(v[i], d)

\* The rounds of this loop are a function that exists and is the one the operator evaluates.
LEMMA WriteRunsExist ==
  ASSUME NEW s, NEW d, NEW n, NEW offset, NEW data, data \in Seq(Bytes \cup {Zero, System})
  PROVE  \E v : WriteRuns(s, d, n, offset, data, v)
<1> DEFINE a == [call |-> Return(s, NO_ERROR), n |-> n, offset |-> offset, data |-> data]
           Round(z, i) == WriteOnce(z, d)
           Is(m, f) == f = [i \in 0 .. m |-> IF i = 0 THEN a ELSE Round(f[i - 1], i)]
           S == {m \in 0 .. (Len(data) + NEntries) : \E f : Is(m, f)}
           v == CHOOSE f : Is((Len(data) + NEntries), f)
<1>1. (Len(data) + NEntries) \in Nat
  BY NSFSDiskAssumption
<1>2. WriteBytes(s, d, n, offset, data) = v[(Len(data) + NEntries)].call
  BY DEF WriteBytes, Rounds
<1> HIDE DEF a, Round
<1>3. 0 \in S
  <2>1. Is(0, [i \in 0 .. 0 |-> a])
    OBVIOUS
  <2> HIDE DEF Is
  <2> QED BY <1>1, <2>1
<1>4. ASSUME NEW m \in 0 .. (Len(data) + NEntries) - 1, m \in S PROVE m + 1 \in S
  <2>1. PICK f : Is(m, f)
    BY <1>4
  <2> DEFINE h == [i \in 0 .. m + 1 |-> IF i = m + 1 THEN Round(f[m], m + 1) ELSE f[i]]
  <2>2. \A i \in 0 .. m : h[i] = f[i] /\ f[i] = IF i = 0 THEN a ELSE Round(f[i - 1], i)
    BY <2>1
  <2>3. h[m + 1] = Round(f[m], m + 1)
    OBVIOUS
  <2>4. \A i \in 0 .. m + 1 : h[i] = IF i = 0 THEN a ELSE Round(h[i - 1], i)
    <3> SUFFICES ASSUME NEW i \in 0 .. m + 1 PROVE h[i] = IF i = 0 THEN a ELSE Round(h[i - 1], i)
      OBVIOUS
    <3> HIDE DEF h
    <3>1. CASE i = 0
      BY <2>2, <3>1
    <3>2. CASE i \in 1 .. m
      <4>1. i - 1 \in 0 .. m /\ i \in 0 .. m /\ i # 0
        BY <3>2
      <4>2. h[i - 1] = f[i - 1] /\ h[i] = Round(f[i - 1], i)
        BY <2>2, <4>1
      <4> QED BY <4>1, <4>2
    <3>3. CASE i = m + 1
      <4>1. i - 1 = m /\ m \in 0 .. m /\ i # 0
        BY <3>3
      <4>2. h[i - 1] = f[m] /\ h[i] = Round(f[m], i)
        BY <2>2, <2>3, <3>3, <4>1
      <4> QED BY <4>1, <4>2
    <3> QED BY <3>1, <3>2, <3>3
  <2>5. Is(m + 1, h)
    BY <2>4
  <2> HIDE DEF Is
  <2> QED BY <1>1, <2>5
<1> HIDE DEF Is
<1>5. \A m \in 0 .. (Len(data) + NEntries) : m \in S
  <2> HIDE DEF S
  <2> QED BY <1>1, <1>3, <1>4, UpTo
<1>6. Is((Len(data) + NEntries), v)
  <2>1. \E f : Is((Len(data) + NEntries), f)
    BY <1>1, <1>5
  <2> QED BY <2>1
<1>7. v = [i \in 0 .. (Len(data) + NEntries) |-> IF i = 0 THEN a ELSE Round(v[i - 1], i)]
  BY <1>6 DEF Is
<1> HIDE DEF v
<1>8. v[0] = a
  BY <1>1, <1>7
<1>9. ASSUME NEW i \in 0 .. (Len(data) + NEntries) - 1 PROVE v[i + 1] = Round(v[i], i + 1)
  <2> DEFINE m == i + 1
  <2>1. m \in 0 .. (Len(data) + NEntries) /\ m # 0 /\ m - 1 = i
    BY <1>1
  <2>2. m = i + 1
    OBVIOUS
  <2> HIDE DEF m
  <2>3. v[m] = Round(v[m - 1], m)
    BY <1>7, <2>1
  <2> QED BY <2>1, <2>2, <2>3
<1> QED BY <1>2, <1>8, <1>9 DEF a, Round, WriteRuns

\* What data can be written: bytes of callers, and those that were read from a file.
AnyByte == Bytes \cup {Zero, System}

\* The loop of a write at some entry of the file.
Writing(w, D, d, E) ==
  \E u : \E n : \E offset : \E data :
    /\ w = [call |-> u, n |-> n, offset |-> offset, data |-> data]
    /\ On(u, D, d, E) /\ u.res \in {NO_ERROR, ERROR_IO}
    /\ n \in EntryIndex /\ IsFile(E[n]) /\ offset \in Nat /\ data \in Seq(AnyByte)

\* The block that an offset is in.
LEMMA BlockNumber ==
  ASSUME NEW offset \in Nat
  PROVE  LET b == needed_blocks(offset + 1) - 1
         IN  b \in Nat /\ (b >= SFS_ENTRYREFS => offset >= Capacity)
<1> DEFINE q == needed_blocks(offset + 1)
           z == BLOCK_SIZE
           r == SFS_ENTRYREFS
<1>1. q \in Nat /\ q * z >= offset + 1 /\ offset + 1 + z > q * z
  <2>1. offset + 1 \in Nat
    OBVIOUS
  <2> QED BY <2>1, BlocksCover
<1>2. z \in Nat /\ z > 0 /\ r \in Nat /\ Capacity = r * z
  BY Numbers DEF Capacity
<1> HIDE DEF q, z, r
<1>3. q # 0
  BY <1>1, <1>2
<1>4. ASSUME q - 1 >= r PROVE offset >= Capacity
  <2>1. q * z >= (r + 1) * z /\ (r + 1) * z = r * z + z
    BY <1>1, <1>2, <1>4
  <2>2. q * z \in Nat /\ r * z \in Nat
    BY <1>1, <1>2
  <2> QED BY <1>1, <1>2, <2>1, <2>2
<1>5. q - 1 \in Nat
  BY <1>1, <1>3
<1> QED BY <1>4, <1>5 DEF q, r

\* The record of the loop with some of its fields changed.
Stepped(w, n, o) == [w EXCEPT !.n = n, !.offset = o]
Copied(w, u, o, x) == [w EXCEPT !.call = u, !.offset = o, !.data = x]

\* The fields of a round of the loop that writes the data.
LEMMA WriteFields ==
  ASSUME NEW u, NEW n, NEW o, NEW x, NEW w, w = [call |-> u, n |-> n, offset |-> o, data |-> x],
         NEW u1, NEW n1, NEW o1, NEW x1
  PROVE  /\ Stepped(w, n1, o1) = [call |-> u, n |-> n1, offset |-> o1, data |-> x]
         /\ Copied(w, u1, o1, x1) = [call |-> u1, n |-> n, offset |-> o1, data |-> x1]
<1>1. [w EXCEPT !.n = n1] = [call |-> u, n |-> n1, offset |-> o, data |-> x]
  OBVIOUS
<1>2. [[call |-> u, n |-> n1, offset |-> o, data |-> x] EXCEPT !.offset = o1]
        = [call |-> u, n |-> n1, offset |-> o1, data |-> x]
  OBVIOUS
<1>3. [w EXCEPT !.n = n1, !.offset = o1] = [[w EXCEPT !.n = n1] EXCEPT !.offset = o1]
  OBVIOUS
<1>4. [w EXCEPT !.call = u1] = [call |-> u1, n |-> n, offset |-> o, data |-> x]
  OBVIOUS
<1>5. [[call |-> u1, n |-> n, offset |-> o, data |-> x] EXCEPT !.offset = o1]
        = [call |-> u1, n |-> n, offset |-> o1, data |-> x]
  OBVIOUS
<1>6. [[call |-> u1, n |-> n, offset |-> o1, data |-> x] EXCEPT !.data = x1]
        = [call |-> u1, n |-> n, offset |-> o1, data |-> x1]
  OBVIOUS
<1>7. [w EXCEPT !.call = u1, !.offset = o1, !.data = x1]
        = [[[w EXCEPT !.call = u1] EXCEPT !.offset = o1] EXCEPT !.data = x1]
  OBVIOUS
<1>8. [w EXCEPT !.n = n1, !.offset = o1] = [call |-> u, n |-> n1, offset |-> o1, data |-> x]
  BY <1>1, <1>2, <1>3
<1>9. [w EXCEPT !.call = u1, !.offset = o1, !.data = x1] = [call |-> u1, n |-> n, offset |-> o1, data |-> x1]
  BY <1>4, <1>5, <1>6, <1>7
<1> QED BY <1>8, <1>9 DEF Stepped, Copied

\* A round of that loop changes no entry and writes over no entry: the block is one of the file.
LEMMA WriteRound ==
  ASSUME NEW d \in Disks, NEW D, NEW E, Chains(E), Refs(E), NEW w, Writing(w, D, d, E)
  PROVE  Writing(WriteOnce(w, d), D, d, E)
<1>1. PICK u : \E n : \E offset : \E data :
         /\ w = [call |-> u, n |-> n, offset |-> offset, data |-> data]
         /\ On(u, D, d, E) /\ u.res \in {NO_ERROR, ERROR_IO}
         /\ n \in EntryIndex /\ IsFile(E[n]) /\ offset \in Nat /\ data \in Seq(AnyByte)
  BY DEF Writing
<1>2. PICK n, offset, data :
         /\ w = [call |-> u, n |-> n, offset |-> offset, data |-> data]
         /\ On(u, D, d, E) /\ u.res \in {NO_ERROR, ERROR_IO}
         /\ n \in EntryIndex /\ IsFile(E[n]) /\ offset \in Nat /\ data \in Seq(AnyByte)
  BY <1>1
<1>2a. w = [call |-> u, n |-> n, offset |-> offset, data |-> data]
  BY <1>2
<1>3. w.call = u /\ w.n = n /\ w.offset = offset /\ w.data = data
  BY <1>2
<1> DEFINE b == needed_blocks(w.offset + 1) - 1
           within == w.offset % BLOCK_SIZE
           to_copy == Least(Len(w.data), BLOCK_SIZE - within)
           e == At(w.call, d, w.n)
           Stop(t) == [w EXCEPT !.call = t]
           t1 == write_data(w.call, d, e.ref[b], within, SubSeq(w.data, 1, to_copy))
<1>4. WriteOnce(w, d) =
        (IF w.call.res # NO_ERROR \/ w.data = <<>> THEN w
         ELSE IF b >= SFS_ENTRYREFS
         THEN IF e.next = 0 THEN Stop(Return(w.call, ERROR_IO))
              ELSE [w EXCEPT !.n = e.next, !.offset = @ - SFS_ENTRYREFS * BLOCK_SIZE]
         ELSE IF IsSystemBlock(e.ref[b]) THEN Stop(Return(w.call, ERROR_IO))
         ELSE IF t1.res # NO_ERROR THEN Stop(t1)
         ELSE [w EXCEPT !.call = t1, !.offset = @ + to_copy,
                     !.data = SubSeq(@, to_copy + 1, Len(@))])
  BY DEF WriteOnce
<1>5. e = E[n] /\ E \in Table /\ On(u, D, d, E)
  BY <1>2, <1>3, OnTypes
<1>6. b \in Nat /\ (b >= SFS_ENTRYREFS => offset >= Capacity)
  BY <1>2, <1>3, BlockNumber
<1>7. within \in 0 .. BLOCK_SIZE - 1 /\ to_copy \in 0 .. Len(data) /\ to_copy \in Nat
  <2>1. within \in 0 .. BLOCK_SIZE - 1
    BY <1>2, <1>3, Numbers, DivMod
  <2>2. Len(data) \in Nat
    BY <1>2
  <2> HIDE DEF within
  <2> QED BY <1>3, <2>1, <2>2, Numbers DEF Least
<1>8. ASSUME NEW t, On(t, D, d, E), t.res \in {NO_ERROR, ERROR_IO} PROVE Writing(Stop(t), D, d, E)
  <2>1. Stop(t) = [call |-> t, n |-> n, offset |-> offset, data |-> data]
    BY <1>2
  <2> HIDE DEF Stop
  <2> QED BY <1>2, <1>8, <2>1 DEF Writing
<1>9. On(Return(u, ERROR_IO), D, d, E) /\ Return(u, ERROR_IO).res = ERROR_IO
  <2>1. ERROR_IO \in Int
    BY DEF ERROR_IO
  <2> QED BY <1>5, <2>1, Returned
<1>10. Writing(Stop(Return(w.call, ERROR_IO)), D, d, E)
  <2>1. Return(w.call, ERROR_IO) = Return(u, ERROR_IO)
    BY <1>3
  <2> HIDE DEF Stop
  <2> QED BY <1>8, <1>9, <2>1
<1> HIDE DEF b, within, to_copy, e, Stop
<1>11. ASSUME b >= SFS_ENTRYREFS, e.next # 0
      PROVE  Writing([w EXCEPT !.n = e.next, !.offset = @ - SFS_ENTRYREFS * BLOCK_SIZE], D, d, E)
  <2>1. [w EXCEPT !.n = e.next, !.offset = @ - SFS_ENTRYREFS * BLOCK_SIZE]
          = [call |-> u, n |-> e.next, offset |-> offset - Capacity, data |-> data]
    <3> DEFINE o == w.offset - SFS_ENTRYREFS * BLOCK_SIZE
    <3>1. o = offset - Capacity
      BY <1>3 DEF Capacity
    <3> HIDE DEF o
    <3>2. Stepped(w, e.next, o) = [call |-> u, n |-> e.next, offset |-> o, data |-> data]
      BY <1>2a, WriteFields
    <3> QED BY <3>1, <3>2 DEF o, Stepped
  <2>2. offset - Capacity \in Nat
    BY <1>2, <1>6, <1>11, Numbers
  <2>3. e.next \in EntryIndex /\ IsFile(E[e.next])
    BY <1>2, <1>5, <1>11 DEF Chains, Table, Entry
  <2> QED BY <1>2, <2>1, <2>2, <2>3 DEF Writing
<1>12. ASSUME ~(b >= SFS_ENTRYREFS), ~IsSystemBlock(e.ref[b])
       PROVE  On(t1, D, d, E) /\ t1.res = NO_ERROR
  <2>1. b \in RefIndex
    BY <1>6, <1>12, Numbers DEF RefIndex
  <2>2. e.ref[b] \in {0} \cup DataBlocks
    BY <1>2, <1>5, <2>1 DEF Refs
  <2>3. e.ref[b] \in DataBlocks
    BY <1>12, <2>2 DEF IsSystemBlock
  <2> DEFINE part == SubSeq(w.data, 1, to_copy)
  <2>4. part \in Seq(AnyByte)
    <3>1. data \in Seq(AnyByte) /\ to_copy \in 0 .. Len(data)
      BY <1>2, <1>7
    <3>2. SubSeq(data, 1, to_copy) \in Seq(AnyByte)
      BY <3>1
    <3> QED BY <1>3, <3>2
  <2> HIDE DEF part
  <2> DEFINE x == e.ref[b]
  <2>5. x \in DataBlocks
    BY <2>3
  <2> HIDE DEF x
  <2>6. within \in Nat
    BY <1>7, Numbers
  <2>7. On(write_data(u, d, x, within, part), D, d, E) /\ write_data(u, d, x, within, part).res = NO_ERROR
    BY <1>5, <2>4, <2>5, <2>6, WriteData DEF AnyByte
  <2> QED BY <1>3, <2>7 DEF part, x
<1> HIDE DEF t1
<1>13. ASSUME On(t1, D, d, E), t1.res = NO_ERROR
       PROVE  Writing([w EXCEPT !.call = t1, !.offset = @ + to_copy,
                                !.data = SubSeq(@, to_copy + 1, Len(@))], D, d, E)
  <2> DEFINE more == SubSeq(data, to_copy + 1, Len(data))
  <2>1. [w EXCEPT !.call = t1, !.offset = @ + to_copy, !.data = SubSeq(@, to_copy + 1, Len(@))]
          = [call |-> t1, n |-> n, offset |-> offset + to_copy, data |-> more]
    <3> DEFINE o == w.offset + to_copy
               x == SubSeq(w.data, to_copy + 1, Len(w.data))
    <3>1. o = offset + to_copy /\ x = more
      BY <1>3
    <3> HIDE DEF o, x, more
    <3>2. Copied(w, t1, o, x) = [call |-> t1, n |-> n, offset |-> o, data |-> x]
      BY <1>2a, WriteFields
    <3> QED BY <3>1, <3>2 DEF o, x, Copied
  <2>2. more \in Seq(AnyByte)
    <3>1. data \in Seq(AnyByte) /\ to_copy + 1 \in 1 .. Len(data) + 1
      BY <1>2, <1>7
    <3> QED BY <3>1
  <2>3. offset + to_copy \in Nat
    BY <1>2, <1>7
  <2> HIDE DEF more
  <2> QED BY <1>2, <1>13, <2>1, <2>2, <2>3 DEF Writing
<1>14. Writing(w, D, d, E)
  OBVIOUS
<1>15. CASE w.call.res # NO_ERROR \/ w.data = <<>>
  BY <1>4, <1>15
<1>16. CASE ~(w.call.res # NO_ERROR \/ w.data = <<>>)
  <2>1. CASE b >= SFS_ENTRYREFS
    BY <1>4, <1>10, <1>11, <1>16, <2>1
  <2>2. CASE ~(b >= SFS_ENTRYREFS)
    BY <1>4, <1>10, <1>12, <1>13, <1>16, <2>2
  <2> QED BY <2>1, <2>2
<1> QED BY <1>15, <1>16

\* Writing the data of a file changes no entry.
LEMMA Written ==
  ASSUME NEW d \in Disks, NEW D, NEW E, NEW s, On(s, D, d, E), Chains(E), Refs(E), NEW n \in EntryIndex, IsFile(E[n]),
         NEW offset \in Nat, NEW data \in Seq(AnyByte)
  PROVE  /\ On(WriteBytes(s, d, n, offset, data), D, d, E)
         /\ WriteBytes(s, d, n, offset, data).res \in {NO_ERROR, ERROR_IO}
<1>1. PICK v : WriteRuns(s, d, n, offset, data, v)
  BY WriteRunsExist DEF AnyByte
<1> DEFINE m == Len(data) + NEntries
           S == {i \in 0 .. m : Writing(v[i], D, d, E)}
<1>2. /\ WriteBytes(s, d, n, offset, data) = v[m].call
      /\ v[0] = [call |-> Return(s, NO_ERROR), n |-> n, offset |-> offset, data |-> data]
      /\ \A i \in 0 .. m - 1 : v[i + 1] = WriteOnce(v[i], d)
  BY <1>1 DEF WriteRuns
<1>3. m \in Nat
  BY NSFSDiskAssumption
<1> HIDE DEF m
<1>4. 0 \in S
  <2>1. On(Return(s, NO_ERROR), D, d, E) /\ Return(s, NO_ERROR).res = NO_ERROR
    <3>1. NO_ERROR \in Int
      BY DEF NO_ERROR
    <3> QED BY <3>1, Returned
  <2>2. Writing(v[0], D, d, E)
    BY <1>2, <2>1 DEF Writing
  <2> QED BY <1>3, <2>2
<1>5. ASSUME NEW i \in 0 .. m - 1, i \in S PROVE i + 1 \in S
  <2>1. Writing(v[i], D, d, E)
    BY <1>5
  <2>2. Writing(WriteOnce(v[i], d), D, d, E)
    BY <2>1, WriteRound
  <2>3. i + 1 \in 0 .. m
    BY <1>3
  <2> QED BY <1>2, <2>2, <2>3
<1>6. \A i \in 0 .. m : i \in S
  <2> HIDE DEF S
  <2> QED BY <1>3, <1>4, <1>5, UpTo
<1>7. Writing(v[m], D, d, E)
  BY <1>3, <1>6
<1> QED BY <1>2, <1>7 DEF Writing
=============================================================================
