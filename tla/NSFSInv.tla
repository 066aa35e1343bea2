------------------------------ MODULE NSFSInv ------------------------------
(***************************************************************************)
(* What source/fs.h says of a disk, and the discipline under which the     *)
(* calls of source/fs.c keep it so.                                        *)
(***************************************************************************)
EXTENDS NSFS

-----------------------------------------------------------------------------
(* The parts of an image. *)

Used(img)  == {n \in EntryIndex : img.entry[n].flags # FREE}
Files(img) == {n \in EntryIndex : img.entry[n].flags = T_FILE}
Dirs(img)  == {n \in EntryIndex : img.entry[n].flags = T_DIR}
Chained(img) == {img.entry[n].next : n \in Used(img)} \ {0}
Heads(img) == Used(img) \ Chained(img)

LiveRefSet(e) == {e.ref[i] : i \in LiveRefs(e)}

\* The size that the entries of a chain after e must hold together.
RestOfSize(e) == e.size - Least(e.size, EntryCapacity(e))

-----------------------------------------------------------------------------
(* What the format promises. *)

\* The type of the state, the assumption under which every operator is read.
TypeOK == /\ disk \in [Disks -> Image]
          /\ ret \in Int
          /\ call \in Requests \cup {NoCall}

\* fs.h:65: references of file entries are the blocks of the file.  A block
\* holds the bytes of one place of one file: growing, shrinking, moving and
\* copying files never gives a block a second owner.
BlocksOwnedOnce ==
  \A d \in Disks :
    LET img == disk[d]
        Places == {p \in Files(img) \X RefIndex : p[2] \in LiveRefs(img.entry[p[1]])}
        BlockAt(p) == img.entry[p[1]].ref[p[2]]
    IN  \A p, q \in Places : p # q => BlockAt(p) # BlockAt(q) \/ BlockAt(p) = 0

\* fs.h:68-70: a reference that the size does not cover is 0, so that a block
\* a file gave back is not found in it again when the file grows.
DeadRefsAreZero ==
  \A d \in Disks : \A n \in EntryIndex :
    \A i \in RefIndex \ LiveRefs(disk[d].entry[n]) : disk[d].entry[n].ref[i] = 0

\* fs.h:72-88: a chained entry continues exactly one entry, names it as its
\* parent, is of its type, and holds the size that did not fit before it; an
\* entry has a chained entry exactly if some size did not fit.  Of what fs.h:82-83
\* says chained entries share with their head it claims the flags: fs_move renames
\* the head alone (ChainedNamesAgree in NSFSFindings), and times are not modelled.
ChainsCarryTheSize ==
  \A d \in Disks :
    LET img == disk[d]
    IN  \A n \in Used(img) :
          LET e == img.entry[n]
          IN  /\ (e.next = 0) = (RestOfSize(e) = 0)
              /\ e.next # 0 =>
                   /\ img.entry[e.next].flags = e.flags
                   /\ img.entry[e.next].parent = n
                   /\ img.entry[e.next].size = RestOfSize(e)
              /\ \A m \in Used(img) \ {n} : e.next # 0 => img.entry[m].next # e.next

\* fs.h:66 and 86: the two ways to see a directory agree.  What fs_list walks,
\* the references of the directory, are the entries that a path lookup finds,
\* those whose parent is the directory, each of them once and none freed.
ListingsMatchLookups ==
  \A d \in Disks :
    LET img == disk[d]
        Children(n) == {m \in Heads(img) \ {0} : img.entry[m].parent = n}
    IN  \A n \in Heads(img) :
          /\ Children(n) # {} => n \in Dirs(img)
          /\ n \in Dirs(img) =>
               /\ LiveRefSet(img.entry[n]) = Children(n)
               /\ img.entry[n].size = Cardinality(Children(n))

\* Going up from any file or directory ends at the root: no call leaves an
\* entry that no path leads to, such as a directory that was moved into itself
\* or the contents of a deleted one.
Ancestors(img, n, steps) ==
  LET up[i \in 0 .. steps] == IF i = 0 THEN n ELSE img.entry[up[i - 1]].parent
  IN  {up[i] : i \in 0 .. steps}

EveryEntryUnderRoot ==
  \A d \in Disks :
    \A n \in Used(disk[d]) :
      /\ 0 \in Ancestors(disk[d], n, NEntries)
      /\ Ancestors(disk[d], n, NEntries) \subseteq Used(disk[d])

\* A path names one thing: no two files or directories of a directory have the
\* same name (fs.h: ERROR_EXISTS if destination exists).
NamesAreUnique ==
  \A d \in Disks :
    \A n, m \in Heads(disk[d]) :
      n # m => \/ disk[d].entry[n].parent # disk[d].entry[m].parent
               \/ disk[d].entry[n].name # disk[d].entry[m].name

\* fs.c:918 "Check for error (try to write in system blocks)": file data is
\* written to data blocks only, never over the entry table.
NoDataOverTable == Readable

\* A disk that every promise holds of.
Sound == /\ BlocksOwnedOnce /\ DeadRefsAreZero /\ ChainsCarryTheSize
         /\ ListingsMatchLookups /\ EveryEntryUnderRoot /\ NamesAreUnique

-----------------------------------------------------------------------------
(***************************************************************************)
(* The discipline.  fs.c does not check any of it, and without it the      *)
(* promises above fail (NSFSFindings shows how).                           *)
(***************************************************************************)

\* The entry the last name goes under, if there is one, is a directory.
InDirectory(img_of, path) ==
  LET img == img_of[DiskOf(path)]
      parent == path_parse_parent(img, NamesOf(path))
  IN  ~Failed(parent) => img.entry[parent].flags = T_DIR

\* The directory the last name goes under has a reference to spare in its
\* head entry.
RoomInDirectory(img_of, path) ==
  LET img == img_of[DiskOf(path)]
      parent == path_parse_parent(img, NamesOf(path))
  IN  ~Failed(parent) => img.entry[parent].size < SFS_ENTRYREFS

\* A file that a write would create is named the way its entry will be.
NamedAsStored(path) == StoredName[Last(path)] = Last(path)

\* Blocks that the file at path has, and has after the write r.
BlocksBefore(img_of, r) ==
  LET n == fs_get_entry(img_of, r.path)
  IN  IF Failed(n) THEN 0 ELSE get_entry_refcount(img_of[DiskOf(r.path)].entry[n])
BlocksAfter(img_of, r) ==
  LET end == needed_blocks(r.offset + Len(r.data))
      before == BlocksBefore(img_of, r)
  IN  IF r.truncate \/ end > before THEN end ELSE before

\* A write enlarges a file by one block at most.
GrowsByOneBlock(img_of, r) == BlocksAfter(img_of, r) <= BlocksBefore(img_of, r) + 1

\* A write that resizes a file of SFS_ENTRYREFS blocks or more adds a block to it
\* or cuts it to fewer than that many blocks.
ResizesInFirstEntry(img_of, r) ==
  LET n == fs_get_entry(img_of, r.path)
      size == IF Failed(n) THEN 0 ELSE img_of[DiskOf(r.path)].entry[n].size
      end == r.offset + Len(r.data)
      resized == end > size \/ (r.truncate /\ end < size)
  IN  resized => \/ BlocksAfter(img_of, r) < SFS_ENTRYREFS
                 \/ BlocksAfter(img_of, r) = BlocksBefore(img_of, r) + 1

\* fs_copy, and with it a move to another disk, makes nothing of an empty file.
NothingEmptyIn(img_of, path) ==
  LET n == fs_get_entry(img_of, path)
      img == img_of[DiskOf(path)]
  IN  \A m \in Files(img) : ~Failed(n) /\ n \in Ancestors(img, m, NEntries) => img.entry[m].size > 0

Moves(r) == r.op \in {"move", "copy"}
Creates(img_of, r) == r.op = "mkdir" \/ (r.op = "write" /\ Failed(fs_get_entry(img_of, r.path)))
AcrossDisks(r) == r.op = "move" /\ DiskOf(r.path) # DiskOf(r.to)
Renames(r) == r.op = "move" /\ Front(r.path) = Front(r.to)

\* The rules, and what keeping some of them means for a call.
Rules == {"directory", "room", "name", "growth", "resize", "subtree", "empty"}
Keeps(img_of, r, rule) ==
  CASE rule = "directory" -> InDirectory(img_of, r.path) /\ (Moves(r) => InDirectory(img_of, r.to))
    [] rule = "room"      -> /\ Creates(img_of, r) => RoomInDirectory(img_of, r.path)
                             /\ Moves(r) /\ ~Renames(r) => RoomInDirectory(img_of, r.to)
    [] rule = "name"      -> r.op = "write" => NamedAsStored(r.path)
    [] rule = "growth"    -> r.op = "write" => GrowsByOneBlock(img_of, r)
    [] rule = "resize"    -> r.op = "write" => ResizesInFirstEntry(img_of, r)
    [] rule = "subtree"   -> Moves(r) => ~IsPrefix(r.path, Sanitised(r.to))
    [] rule = "empty"     -> r.op = "copy" \/ AcrossDisks(r) => NothingEmptyIn(img_of, r.path)

Careful(img_of, r) == \A rule \in Rules : Keeps(img_of, r, rule)
AllBut(img_of, r, rule) == \A other \in Rules \ {rule} : Keeps(img_of, r, other)
=============================================================================
