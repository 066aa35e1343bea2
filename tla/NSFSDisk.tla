------------------------------ MODULE NSFSDisk ------------------------------
(***************************************************************************)
(* The on-disk format of the NANO file system (source/fs.h) and the        *)
(* helpers of source/fs.c that look things up in it or write one entry or  *)
(* one block.                                                              *)
(***************************************************************************)
EXTENDS Integers, FiniteSets, SequencesExt

CONSTANTS
  Disks,          \* disk identifiers ("fd0", "hd0", ...)
  NEntries,       \* superblock.nentries
  NBlocks,        \* superblock.size, in blocks
  SFS_ENTRYREFS,  \* references in an entry (120)
  BLOCK_SIZE,     \* bytes in a block (512)
  Names,          \* names a caller may write in a path
  StoredName,     \* string_to_name: the name an entry gets for such a name
  Bytes,          \* byte values callers write
  DiskErrorCode   \* what io_disk_write returns on failure: a code of the BIOS
                  \* (1..255) for a floppy, ERROR_IO for an ATA disk

ROOT_DIR_NAME == "."
NoName == ""      \* the name field of a zeroed entry
Zero == "zero"    \* a byte of a data block nothing was written to
System == "sys"   \* a byte of the boot block, superblock or entry table

ASSUME NSFSDiskAssumption ==
  /\ Disks # {}
  /\ NEntries \in Nat \ {0} /\ NBlocks \in Nat
  /\ SFS_ENTRYREFS \in Nat \ {0, 1} /\ BLOCK_SIZE \in Nat \ {0}
  /\ {ROOT_DIR_NAME, NoName} \cap Names = {}
  /\ StoredName \in [Names -> Names]
  /\ \A n \in Names : StoredName[StoredName[n]] = StoredName[n]
  /\ System \notin Bytes

\* Results are C uints; the error codes 0xFFFFFFFA.. are the negative ones.
NO_ERROR        == 0
ERROR_NOT_FOUND == -1
ERROR_EXISTS    == -2
ERROR_IO        == -3
ERROR_NO_SPACE  == -4
Failed(res) == res < 0          \* the code's  result >= ERROR_ANY

ASSUME DiskErrorAssumption == DiskErrorCode \in {ERROR_IO} \cup 1 .. 255

-----------------------------------------------------------------------------
(* The on-disk format. *)

T_DIR  == "dir"
T_FILE == "file"
FREE   == "free"                \* neither type flag set

EntryIndex == 0 .. NEntries - 1
RefIndex   == 0 .. SFS_ENTRYREFS - 1
FirstBlock == 2 + NEntries      \* an entry is as large as a block
DataBlocks == FirstBlock .. NBlocks - 1
NoRefs     == [i \in RefIndex |-> 0]

Entry == [flags : {T_DIR, T_FILE, FREE}, name : Names \cup {NoName, ROOT_DIR_NAME},
          size : Nat, parent : EntryIndex, next : EntryIndex,
          ref : [RefIndex -> EntryIndex \cup DataBlocks]]

ZeroEntry == [flags |-> FREE, name |-> NoName, size |-> 0,
              parent |-> 0, next |-> 0, ref |-> NoRefs]
RootEntry == [ZeroEntry EXCEPT !.flags = T_DIR, !.name = ROOT_DIR_NAME]

\* "smashed" holds the entries that file data was written over.
Image == [entry : [EntryIndex -> Entry],
          block : [DataBlocks -> [0 .. BLOCK_SIZE - 1 -> Bytes \cup {Zero, System}]],
          smashed : SUBSET EntryIndex]

EmptyImage == [entry |-> [n \in EntryIndex |-> IF n = 0 THEN RootEntry ELSE ZeroEntry],
               block |-> [b \in DataBlocks |-> [i \in 0 .. BLOCK_SIZE - 1 |-> Zero]],
               smashed |-> {}]

Least(a, b) == IF a <= b THEN a ELSE b
needed_blocks(size) == size \div BLOCK_SIZE + (IF size % BLOCK_SIZE = 0 THEN 0 ELSE 1)

\* A path is <<disk, name, ...>>; <<disk>> is the disk's root directory.
DiskOf(path)   == Head(path)
NamesOf(path)  == Tail(path)

-----------------------------------------------------------------------------
(* Looking things up in an image. *)

FirstOr(S, none) == IF S = {} THEN none ELSE CHOOSE n \in S : \A m \in S : n <= m

\* fs_get_entry for a single name: the table is scanned, directories are not.
Lookup(img, parent, name) ==
  FirstOr({n \in EntryIndex : /\ img.entry[n].flags # FREE
                              /\ img.entry[n].parent = parent
                              /\ img.entry[n].name = name}, ERROR_NOT_FOUND)

\* The entry the last name of a path belongs under, whatever its type.
path_parse_parent(img, names) ==
  LET parent[i \in 0 .. Len(names) - 1] ==
        IF i = 0 THEN 0
        ELSE IF Failed(parent[i - 1]) THEN parent[i - 1]
        ELSE Lookup(img, parent[i - 1], names[i])
  IN  parent[Len(names) - 1]

fs_get_entry(disk, path) ==
  LET img == disk[DiskOf(path)]
      names == NamesOf(path)
  IN  IF names = <<>> THEN Lookup(img, 0, ROOT_DIR_NAME)
      ELSE LET parent == path_parse_parent(img, names)
           IN  IF Failed(parent) THEN parent ELSE Lookup(img, parent, Last(names))

\* A mistake the checks must notice: an empty file's entry taken for a free one.
find_free_entry_by_size(img) ==
  FirstOr({n \in EntryIndex \ {0} : img.entry[n].size = 0}, ERROR_NO_SPACE)

find_free_entry(img) ==
  FirstOr({n \in EntryIndex : img.entry[n].flags = FREE}, ERROR_NO_SPACE)

\* The references of an entry that its size makes valid.
LiveRefs(e) == CASE e.flags = T_FILE -> 0 .. Least(needed_blocks(e.size), SFS_ENTRYREFS) - 1
                 [] e.flags = T_DIR  -> 0 .. Least(e.size, SFS_ENTRYREFS) - 1
                 [] OTHER -> {}

\* A mistake: only the first reference of an entry is looked at.
UsedBlocksByFirstRef(img) ==
  {img.entry[n].ref[0] : n \in {m \in EntryIndex : img.entry[m].flags = T_FILE}}

UsedBlocks(img) ==
  UNION {{img.entry[n].ref[i] : i \in LiveRefs(img.entry[n])} :
         n \in {m \in EntryIndex : img.entry[m].flags = T_FILE}}

\* Mistakes: the blocks begin too early, and go on for one too many.
find_free_block_from_2(img) == FirstOr((2 .. NBlocks - 1) \ UsedBlocks(img), ERROR_NO_SPACE)
find_free_block_to_size(img) == FirstOr((FirstBlock .. NBlocks) \ UsedBlocks(img), ERROR_NO_SPACE)

find_free_block(img) == FirstOr(DataBlocks \ UsedBlocks(img), ERROR_NO_SPACE)

get_entry_refcount(e) == CASE e.flags = T_FILE -> needed_blocks(e.size)
                           [] e.flags = T_DIR  -> e.size
                           [] OTHER -> 0

-----------------------------------------------------------------------------
(***************************************************************************)
(* A call threads a record through the steps it is made of: the images, the *)
(* number of disk writes that still succeed, and the last result.  When the *)
(* fuel is used up the next write fails and the error returns of the code   *)
(* end the call, with the earlier writes done.  To the disk a reset in the  *)
(* middle of the call is the same thing.                                    *)
(***************************************************************************)

Begin(disk, fuel) == [disk |-> disk, fuel |-> fuel, res |-> NO_ERROR]
Return(s, res) == [s EXCEPT !.res = res]
\* The code's  if(result >= ERROR_ANY) return result;
Then(s, Op(_)) == IF Failed(s.res) THEN s ELSE Op(s)
\* The code's  if(result == NO_ERROR):  a disk's own error code is not above ERROR_ANY.
AfterSuccess(s, Op(_)) == IF s.res # NO_ERROR THEN s ELSE Op(s)
\* What is reached from "from" in n rounds of a loop.
Rounds(n, from, Round(_)) ==
  LET v[i \in 0 .. n] == IF i = 0 THEN from ELSE Round(v[i - 1])
  IN  v[n]
\* A loop over 1..n that ends at the first error.
ForEach(s, n, Op(_, _)) ==
  LET x[i \in 0 .. n] == IF i = 0 THEN s ELSE Then(x[i - 1], LAMBDA t : Op(t, i))
  IN  x[n]
\* What every call goes from and to.
CallStates == [disk : [Disks -> Image], fuel : Int, res : Int]
At(s, d, n) == s.disk[d].entry[n]

write_entry(s, d, n, e) ==
  IF s.fuel = 0 THEN Return(s, ERROR_IO)
  ELSE [s EXCEPT !.fuel = @ - 1, !.disk[d].entry[n] = e, !.res = NO_ERROR]

\* Write data into block b from byte "from" on.  Below FirstBlock is no data block.
write_data(s, d, b, from, data) ==
  IF s.fuel = 0 THEN Return(s, DiskErrorCode)
  ELSE IF b < FirstBlock
  THEN [s EXCEPT !.fuel = @ - 1, !.disk[d].smashed = @ \cup {b - 2}, !.res = NO_ERROR]
  ELSE [s EXCEPT !.fuel = @ - 1, !.res = NO_ERROR,
          !.disk[d].block[b] = [i \in DOMAIN @ |->
             IF i \in from .. from + Len(data) - 1 THEN data[i - from + 1] ELSE @[i]]]
=============================================================================
