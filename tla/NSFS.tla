-------------------------------- MODULE NSFS --------------------------------
(***************************************************************************)
(* The file system calls of source/fs.c.                                   *)
(*                                                                         *)
(* Only the main thread calls what changes a disk, and a call runs to its  *)
(* end, so every call is one action.  Which calls are made is the          *)
(* environment's choice: Requests are the calls the programs may issue and *)
(* Discipline, a predicate on the images and a request, is what the        *)
(* programs take care of before they issue one.                            *)
(***************************************************************************)
EXTENDS NSFSDisk

CONSTANTS
  Requests,          \* the calls the programs may make
  Discipline(_, _),  \* what they check before making one
  Fuel               \* how many disk writes of a call may succeed

VARIABLES disk,      \* the image of every disk
          ret,       \* the result of the last call
          call       \* the last call, for properties to refer to

vars == <<disk, ret, call>>
NoCall == [op |-> "none"]

\* What the programs pass.  No program deletes, moves or replaces a whole disk.
AllPaths  == Seq(Disks \cup Names)
CallPaths == {p \in AllPaths : /\ Len(p) > 1 /\ p[1] \in Disks
                               /\ \A i \in 2 .. Len(p) : p[i] \in Names}
ASSUME CallsAssumption ==
  /\ Requests \subseteq [op : {"write"}, path : CallPaths, offset : Nat, data : Seq(Bytes),
                         create : BOOLEAN, truncate : BOOLEAN]
                       \cup [op : {"delete", "mkdir"}, path : CallPaths]
                       \cup [op : {"move", "copy"}, path : CallPaths, to : CallPaths]
  /\ Fuel \subseteq Int

-----------------------------------------------------------------------------
(* Chains of entries. *)

\* The chained entry of n that holds reference number nref.
get_nref_entry(img, n, nref) ==
  LET at[i \in 0 .. nref \div SFS_ENTRYREFS] ==
        IF i = 0 THEN n
        ELSE IF Failed(at[i - 1]) THEN at[i - 1]
        ELSE FirstOr({img.entry[at[i - 1]].next} \ {0}, ERROR_NOT_FOUND)
  IN  at[nref \div SFS_ENTRYREFS]

\* A mistake: off by one.
ClearRefsAfter(e, from) ==
  [e EXCEPT !.ref = [i \in RefIndex |-> IF i > from THEN 0 ELSE @[i]]]

ClearRefs(e, from) ==
  [e EXCEPT !.ref = [i \in RefIndex |-> IF i >= from THEN 0 ELSE @[i]]]

\* One entry down a chain, which is created if it is missing.  A walk is the call,
\* the entry it is at, and the copy in memory of that entry.
ExtendOnce(walk, d) ==
  LET e     == walk.mem
      new   == find_free_entry(walk.call.disk[d])
      fresh == [e EXCEPT !.parent = walk.at, !.next = 0, !.size = 0, !.ref = NoRefs]
      t     == IF Failed(new) THEN Return(walk.call, new)
               ELSE Then(write_entry(walk.call, d, walk.at, [e EXCEPT !.next = new]),
                         LAMBDA u : write_entry(u, d, new, fresh))
  IN  IF Failed(walk.call.res) THEN walk
      ELSE IF e.next # 0 THEN [walk EXCEPT !.at = e.next, !.mem = At(walk.call, d, e.next)]
      ELSE IF Failed(t.res) THEN [walk EXCEPT !.call = t]
      ELSE [call |-> t, at |-> new, mem |-> fresh]

\* Walk "more" entries down the chain of n.
ExtendChain(s, d, n, more) ==
  Rounds(more, [call |-> s, at |-> n, mem |-> At(s, d, n)], LAMBDA walk : ExtendOnce(walk, d))

\* The loops over a chain: a round for an entry, and no chain has more entries
\* than the table.  "go" says whether there is a next round.
FreeOnce(v, d) ==
  LET t == write_entry(v.call, d, v.n, ZeroEntry)
      next == At(v.call, d, v.n).next
  IN  IF v.go THEN [call |-> t, n |-> next, go |-> ~Failed(t.res) /\ next # 0] ELSE v
FreeChain(s, d, n) ==
  Rounds(NEntries, [call |-> s, n |-> n, go |-> TRUE], LAMBDA v : FreeOnce(v, d)).call

\* Write the last entry of a chain and free the entries that follow it.
EndChain(s, d, n, last) ==
  LET Cut(t) == IF last.next = 0 THEN t
                ELSE Then(write_entry(t, d, n, [last EXCEPT !.next = 0]),
                          LAMBDA u : FreeChain(u, d, last.next))
  IN  Then(write_entry(s, d, n, last), Cut)

\* Make the chain of n as long as refcount references need.
set_entry_refcount(s, d, n, refcount) ==
  LET nentries == refcount \div SFS_ENTRYREFS
                    + (IF refcount % SFS_ENTRYREFS = 0 THEN 0 ELSE 1)
      first_unused == Least(SFS_ENTRYREFS - 1, refcount) % SFS_ENTRYREFS
      EndAt(walk) == IF Failed(walk.call.res) THEN walk.call
                     ELSE EndChain(walk.call, d, walk.at, ClearRefs(walk.mem, first_unused))
  IN  EndAt(ExtendChain(s, d, n, IF nentries = 0 THEN 0 ELSE nentries - 1))

\* What one entry of a chain holds at most, in the unit of its size.
EntryCapacity(e) == CASE e.flags = T_FILE -> SFS_ENTRYREFS * BLOCK_SIZE
                      [] e.flags = T_DIR  -> SFS_ENTRYREFS
                      [] OTHER -> 0

\* A mistake: the size of the head entry alone is set.
set_head_size(s, d, n, size) == write_entry(s, d, n, [At(s, d, n) EXCEPT !.size = size])

\* The copy of an entry holds what is left of the size; is there a next one for the rest?
SizeOnce(v, d) ==
  LET e    == At(v.call, d, v.n)
      rest == v.size - Least(v.size, EntryCapacity(e))
      t    == write_entry(v.call, d, v.n, [e EXCEPT !.size = v.size])
  IN  IF ~v.go THEN v
      ELSE [call |-> IF ~Failed(t.res) /\ (rest > 0) # (e.next # 0) THEN Return(t, ERROR_IO) ELSE t,
            n |-> e.next, size |-> rest, go |-> ~Failed(t.res) /\ rest > 0 /\ e.next # 0]
set_entry_size(s, d, n, size) ==
  Rounds(NEntries, [call |-> s, n |-> n, size |-> size, go |-> TRUE], LAMBDA v : SizeOnce(v, d)).call

\* The result of set_entry_refcount, 0, is used as the index of the entry.
add_ref_in_entry(s, d, n, ref) ==
  LET e        == At(s, d, n)
      refcount == get_entry_refcount(e)
      there    == get_nref_entry(s.disk[d], n, refcount)
      s1       == IF there = ERROR_NOT_FOUND THEN set_entry_refcount(s, d, n, refcount + 1)
                  ELSE Return(s, there)
      Put(t)   == write_entry(t, d, t.res,
                    [At(t, d, t.res) EXCEPT !.ref[refcount % SFS_ENTRYREFS] = ref])
      Count(t) == IF e.flags = T_DIR THEN set_entry_size(t, d, n, e.size + 1) ELSE t
  IN  Then(Then(s1, Put), Count)

\* The loop of remove_ref_in_entry: references after the removed one move up.
\* cur is the copy of entry ncur being rebuilt, nxt the one refs come from.
ShiftOnce(v, d, ref) ==
  LET wrap == v.r = SFS_ENTRYREFS
      s    == IF wrap THEN write_entry(v.call, d, v.ncur, v.cur) ELSE v.call
      v1   == IF wrap
              THEN [v EXCEPT !.ncur = v.cur.next, !.cur = At(s, d, v.cur.next), !.r = 0,
                             !.refcount = get_entry_refcount(At(s, d, v.cur.next))]
              ELSE IF v.r + 1 = SFS_ENTRYREFS
              THEN [v EXCEPT !.nxt = IF v.nxt.next = 0 THEN ZeroEntry ELSE At(s, d, v.nxt.next)]
              ELSE v
      found == v1.found \/ v1.cur.ref[v1.r] = ref
  IN  IF Failed(v.call.res) \/ v.r >= v.refcount THEN v
      ELSE IF Failed(s.res) THEN [v EXCEPT !.call = s]
      ELSE [call |-> s, r |-> v1.r + 1, refcount |-> v1.refcount, ncur |-> v1.ncur,
            cur |-> [v1.cur EXCEPT !.ref[v1.r] = IF found THEN v1.nxt.ref[(v1.r + 1) % SFS_ENTRYREFS] ELSE @],
            nxt |-> v1.nxt, found |-> found]

\* Every round is a reference of an entry.
ShiftRefs(s, d, n, ref) ==
  Rounds(NEntries * SFS_ENTRYREFS,
         [call |-> s, r |-> 0, refcount |-> get_entry_refcount(At(s, d, n)), ncur |-> n,
          cur |-> At(s, d, n), nxt |-> At(s, d, n), found |-> FALSE],
         LAMBDA v : ShiftOnce(v, d, ref))

remove_ref_in_entry(s, d, n, ref) ==
  LET e == At(s, d, n)
      Resize(t, count) ==
        Then(set_entry_refcount(t, d, n, count),
             LAMBDA u : IF e.flags = T_DIR THEN set_entry_size(u, d, n, count) ELSE u)
      Save(v) ==
        IF Failed(v.call.res) THEN v.call
        ELSE IF ~v.found THEN Return(v.call, NO_ERROR)
        ELSE Then(write_entry(v.call, d, v.ncur, v.cur),
                  LAMBDA t : Resize(t, v.refcount - 1))
  IN  Save(ShiftRefs(s, d, n, ref))

\* set_entry_time_to_current: it rewrites every entry of the chain.  The time
\* itself is not modelled.
TouchOnce(v, d) ==
  LET next == At(v.call, d, v.n).next
      t    == write_entry(v.call, d, v.n, At(v.call, d, v.n))
      same == ~Failed(t.res) /\ next # 0 /\ next = v.n
  IN  IF ~v.go THEN v
      ELSE [call |-> IF same THEN Return(t, ERROR_IO) ELSE t, n |-> next,
            go |-> ~Failed(t.res) /\ next # 0 /\ ~same]
TouchChain(s, d, n) ==
  Rounds(NEntries, [call |-> s, n |-> n, go |-> TRUE], LAMBDA v : TouchOnce(v, d)).call

-----------------------------------------------------------------------------
(* Reading. *)

ByteAt(img, b, i) == IF b \in DataBlocks THEN img.block[b][i] ELSE System

\* A mistake: the reference is taken from the head entry.
BlockOfHead(img, n, i) == img.entry[n].ref[(i \div BLOCK_SIZE) % SFS_ENTRYREFS]

\* The block that byte number i of the file with head entry n is read from.
BlockOf(img, n, i) ==
  LET k == i \div BLOCK_SIZE
      t == get_nref_entry(img, n, k)
  IN  IF Failed(t) THEN t ELSE img.entry[t].ref[k % SFS_ENTRYREFS]

\* fs_read_file: the bytes read, or an error in res.
fs_read_file(img_of, path, offset, count) ==
  LET n     == fs_get_entry(img_of, path)
      img   == img_of[DiskOf(path)]
      size  == img.entry[n].size
      from  == Least(offset, size)
      upto  == from + Least(count, size - from)
      Lost  == {i \in from .. upto - 1 : Failed(BlockOf(img, n, i))}
  IN  IF Failed(n) THEN [res |-> n, data |-> <<>>]
      ELSE IF img.entry[n].flags # T_FILE THEN [res |-> ERROR_NOT_FOUND, data |-> <<>>]
      ELSE IF Lost # {} THEN [res |-> ERROR_NOT_FOUND, data |-> <<>>]
      ELSE [res |-> upto - from,
            data |-> [i \in 1 .. upto - from |->
                        ByteAt(img, BlockOf(img, n, from + i - 1), (from + i - 1) % BLOCK_SIZE)]]

-----------------------------------------------------------------------------
(* Writing a file. *)

\* A new head entry under the entry the path's last name belongs to.
NewEntry(flags, parent, name) ==
  [ZeroEntry EXCEPT !.flags = flags, !.parent = parent, !.name = StoredName[name]]

\* Give the references cur..req-1 of the chain a block each.  te is the copy in
\* memory of entry nt: find_free_block looks at the disk, not at te.
AllocateOnce(v, d) ==
  LET t == write_entry(v.call, d, v.nt, v.te)
      b == find_free_block(v.call.disk[d])
  IN  IF Failed(v.call.res) \/ v.cur >= v.req THEN v
      ELSE IF v.cur < SFS_ENTRYREFS
      THEN IF Failed(b) THEN [v EXCEPT !.call = Return(v.call, b)]
           ELSE [v EXCEPT !.te = [v.te EXCEPT !.ref[v.cur] = b], !.cur = @ + 1]
      ELSE IF Failed(t.res) THEN [v EXCEPT !.call = t]
      ELSE [call |-> t, nt |-> v.te.next, te |-> At(t, d, v.te.next),
            cur |-> v.cur - SFS_ENTRYREFS, req |-> v.req - SFS_ENTRYREFS]

\* A round is a reference or a step to the next entry, which is for two at least.
AllocateBlocks(s, d, n, cur, req) ==
  LET Save(v) == Then(v.call, LAMBDA t : write_entry(t, d, v.nt, v.te))
  IN  Save(Rounds(2 * req, [call |-> s, nt |-> n, te |-> At(s, d, n), cur |-> cur, req |-> req],
                  LAMBDA v : AllocateOnce(v, d)))

ResizeChain(s, d, n, size) ==
  Then(set_entry_refcount(s, d, n, needed_blocks(size)),
       LAMBDA t : set_entry_size(t, d, n, size))

Grow(s, d, n, size) ==
  LET current == needed_blocks(At(s, d, n).size)
  IN  Then(ResizeChain(s, d, n, size),
           LAMBDA t : AllocateBlocks(t, d, n, current, needed_blocks(size)))

\* What is never written to; a mistake is to leave the test out.
NeverSystemBlock(b) == FALSE
IsSystemBlock(b) == b \in {0, 1}

\* The next piece of data, into the block that byte offset of the part of the file
\* that starts at entry n is in, or else a step to the next entry.
WriteOnce(v, d) ==
  LET b       == needed_blocks(v.offset + 1) - 1
      within  == v.offset % BLOCK_SIZE
      to_copy == Least(Len(v.data), BLOCK_SIZE - within)
      e       == At(v.call, d, v.n)
      Stop(t) == [v EXCEPT !.call = t]
      t       == write_data(v.call, d, e.ref[b], within, SubSeq(v.data, 1, to_copy))
  IN  IF v.call.res # NO_ERROR \/ v.data = <<>> THEN v
      ELSE IF b >= SFS_ENTRYREFS
      THEN IF e.next = 0 THEN Stop(Return(v.call, ERROR_IO))
           ELSE [v EXCEPT !.n = e.next, !.offset = @ - SFS_ENTRYREFS * BLOCK_SIZE]
      ELSE IF IsSystemBlock(e.ref[b]) THEN Stop(Return(v.call, ERROR_IO))
      ELSE IF t.res # NO_ERROR THEN Stop(t)
      ELSE [v EXCEPT !.call = t, !.offset = @ + to_copy,
                     !.data = SubSeq(@, to_copy + 1, Len(@))]

\* A round is a byte at least, or an entry.
WriteBytes(s, d, n, offset, data) ==
  Rounds(Len(data) + NEntries,
         [call |-> Return(s, NO_ERROR), n |-> n, offset |-> offset, data |-> data],
         LAMBDA v : WriteOnce(v, d)).call

\* fs_write_file from the point where the head entry of the file, n, is known.
WriteInFile(s, d, n, offset, data, truncate) ==
  LET end == offset + Len(data)
      Enlarge(t) == IF At(t, d, n).size < end THEN Grow(t, d, n, end) ELSE t
      Shrink(t)  == IF truncate /\ At(t, d, n).size > end THEN ResizeChain(t, d, n, end) ELSE t
      Fill(t)    == WriteBytes(t, d, n, offset, data)
      Touch(t)   == Then(TouchChain(t, d, n), LAMBDA u : Return(u, Len(data)))
  IN  AfterSuccess(Then(Then(Then(s, Enlarge), Shrink), Fill), Touch)

fs_write_file(s, path, offset, data, create, truncate) ==
  LET d      == DiskOf(path)
      names  == NamesOf(path)
      found  == fs_get_entry(s.disk, path)
      parent == path_parse_parent(s.disk[d], names)
      new    == find_free_entry(s.disk[d])
      Create == IF Failed(new) THEN Return(s, new)
                ELSE Then(write_entry(s, d, new, NewEntry(T_FILE, parent, Last(names))),
                          LAMBDA t : add_ref_in_entry(t, d, parent, new))
  IN  IF Failed(found) /\ (found # ERROR_NOT_FOUND \/ ~create) THEN Return(s, found)
      ELSE IF ~Failed(found) /\ At(s, d, found).flags = T_DIR THEN Return(s, ERROR_NOT_FOUND)
      ELSE IF Failed(found) /\ Failed(parent) THEN Return(s, parent)
      ELSE IF Failed(found) THEN WriteInFile(Create, d, new, offset, data, truncate)
      ELSE WriteInFile(s, d, found, offset, data, truncate)

-----------------------------------------------------------------------------
(* Deleting, creating directories, moving and copying. *)

\* A mistake: what is in a directory stays.
delete_n_alone(s, d, n) ==
  Then(remove_ref_in_entry(s, d, At(s, d, n).parent, n), LAMBDA t : FreeChain(t, d, n))

\* delete is what deletes an entry below n or after it.
DeleteWith(delete, s, d, n) ==
  LET e == At(s, d, n)
      Children == IF e.flags = T_DIR THEN Least(e.size, SFS_ENTRYREFS) ELSE 0
      DeleteAll(t) == ForEach(t, Children, LAMBDA u, i : delete[u][e.ref[i - 1]])
      DeleteRest(t) == IF e.next = 0 THEN t ELSE delete[t][e.next]
      Clear(t) == write_entry(t, d, n, ZeroEntry)
  IN  Then(Then(Then(remove_ref_in_entry(s, d, e.parent, n), DeleteAll), DeleteRest), Clear)

\* Its calls are nested no deeper than there are entries.
delete_n(s, d, n) ==
  Rounds(NEntries, [t \in CallStates |-> [m \in EntryIndex |-> Return(t, ERROR_IO)]],
         LAMBDA delete : [t \in CallStates |-> [m \in EntryIndex |-> DeleteWith(delete, t, d, m)]])[s][n]

\* A mistake: the directory keeps its reference.
fs_delete_entry_only(s, path) ==
  LET n == fs_get_entry(s.disk, path)
  IN  IF Failed(n) THEN Return(s, n) ELSE write_entry(s, DiskOf(path), n, ZeroEntry)

fs_delete(s, path) ==
  LET n == fs_get_entry(s.disk, path)
  IN  IF Failed(n) THEN Return(s, n) ELSE delete_n(s, DiskOf(path), n)

\* A mistake: the name is looked up before string_to_name has worked on it.
DestinationAsGiven(img_of, path) ==
  LET img == img_of[DiskOf(path)]
      parent == path_parse_parent(img, NamesOf(path))
  IN  IF Failed(parent) THEN parent
      ELSE IF ~Failed(Lookup(img, parent, Last(path))) THEN ERROR_EXISTS ELSE parent

\* The parent of a destination path, or why nothing can be created there.
Destination(img_of, path) ==
  LET img    == img_of[DiskOf(path)]
      parent == path_parse_parent(img, NamesOf(path))
      there  == Lookup(img, parent, StoredName[Last(path)])
  IN  IF Failed(parent) THEN parent ELSE IF ~Failed(there) THEN ERROR_EXISTS ELSE parent

fs_create_directory(s, path) ==
  LET d      == DiskOf(path)
      parent == Destination(s.disk, path)
      n      == find_free_entry(s.disk[d])
      Link(t) == IF n = parent THEN t ELSE add_ref_in_entry(t, d, parent, n)
      Touch(t) == TouchChain(t, d, n)
      Create == write_entry(s, d, n, NewEntry(T_DIR, parent, Last(path)))
  IN  IF Failed(parent) THEN Return(s, parent)
      ELSE IF Failed(n) THEN Return(s, n)
      ELSE Then(Then(Then(Create, Touch), Link), LAMBDA t : Return(t, n))

\* The name part of a destination path after string_to_name has worked on it.
Sanitised(path) == Front(path) \o <<StoredName[Last(path)]>>

CopyOnce(v, src, dst) ==
  LET read == fs_read_file(v.call.disk, src, v.offset, BLOCK_SIZE)
      t == fs_write_file(v.call, dst, v.offset, read.data, TRUE, FALSE)
      Stop(res) == [call |-> Return(v.call, res), offset |-> v.offset, go |-> FALSE]
  IN  IF ~v.go THEN v
      ELSE IF Failed(read.res) THEN Stop(read.res)
      ELSE IF read.res = 0 THEN Stop(NO_ERROR)
      ELSE [call |-> t, offset |-> v.offset + read.res, go |-> ~Failed(t.res)]

\* A round is a block of the source, and one to see its end.
CopyBytes(s, src, dst, size) ==
  Rounds(needed_blocks(size) + 1, [call |-> s, offset |-> 0, go |-> TRUE],
         LAMBDA v : CopyOnce(v, src, dst)).call

\* copy is what copies a directory's entries.
CopyWith(copy, s, src, dst) ==
  LET parent == Destination(s.disk, dst)
      n == fs_get_entry(s.disk, src)
      e == At(s, DiskOf(src), n)
      to == Sanitised(dst)
      CopyChild(t, i) ==
        LET name == At(t, DiskOf(src), e.ref[i - 1]).name
        IN  copy[t][<<Append(src, name), Append(to, name)>>]
      CopyAll(t) == ForEach(t, e.size, CopyChild)
  IN  IF Failed(parent) THEN Return(s, parent)
      ELSE IF Failed(n) THEN Return(s, n)
      ELSE IF e.flags = T_FILE THEN CopyBytes(s, src, to, e.size)
      ELSE Then(Then(fs_create_directory(s, to), CopyAll), LAMBDA t : Return(t, NO_ERROR))

\* Its calls are nested no deeper than there are directories.
fs_copy(s, src, dst) ==
  Rounds(NEntries, [t \in CallStates |-> [p \in AllPaths \X AllPaths |-> Return(t, ERROR_IO)]],
         LAMBDA copy : [t \in CallStates |->
                          [p \in AllPaths \X AllPaths |-> CopyWith(copy, t, p[1], p[2])]])[s][<<src, dst>>]

\* The two ways of fs_move: on one disk, and from a disk to another.
MoveRefs(s, d, n, to, moved) ==
  Then(Then(remove_ref_in_entry(s, d, At(s, d, n).parent, n),
            LAMBDA t : write_entry(t, d, n, moved)),
       LAMBDA t : add_ref_in_entry(t, d, to, n))
CopyAndDelete(s, d, n, src, dst) ==
  AfterSuccess(fs_copy(s, src, Sanitised(dst)), LAMBDA t : delete_n(t, d, n))

fs_move(s, src, dst) ==
  LET parent == Destination(s.disk, dst)
      n == fs_get_entry(s.disk, src)
      d == DiskOf(src)
      moved == [At(s, d, n) EXCEPT !.name = StoredName[Last(dst)], !.parent = parent]
  IN  IF Failed(parent) THEN Return(s, parent)
      ELSE IF Failed(n) THEN Return(s, n)
      ELSE Then(IF d = DiskOf(dst) THEN MoveRefs(s, d, n, parent, moved)
                ELSE CopyAndDelete(s, d, n, src, dst),
                LAMBDA t : Return(t, n))

-----------------------------------------------------------------------------
(* The calls. *)

Answer(r, s) == disk' = s.disk /\ ret' = s.res /\ call' = r

WriteFile(r, fuel) ==
  /\ r.op = "write"
  /\ Answer(r, fs_write_file(Begin(disk, fuel), r.path, r.offset, r.data, r.create, r.truncate))

Delete(r, fuel) ==
  /\ r.op = "delete"
  /\ Answer(r, fs_delete(Begin(disk, fuel), r.path))

CreateDirectory(r, fuel) ==
  /\ r.op = "mkdir"
  /\ Answer(r, fs_create_directory(Begin(disk, fuel), r.path))

Move(r, fuel) ==
  /\ r.op = "move"
  /\ Answer(r, fs_move(Begin(disk, fuel), r.path, r.to))

Copy(r, fuel) ==
  /\ r.op = "copy"
  /\ Answer(r, fs_copy(Begin(disk, fuel), r.path, r.to))

Init == /\ disk = [d \in Disks |-> EmptyImage]
        /\ ret = NO_ERROR
        /\ call = NoCall

\* Once file data lies over the entry table nothing is known of the disk.
Readable == \A d \in Disks : disk[d].smashed = {}

Next == \E r \in Requests, fuel \in Fuel :
          /\ Readable
          /\ Discipline(disk, r)
          /\ \/ WriteFile(r, fuel)
             \/ Delete(r, fuel)
             \/ CreateDirectory(r, fuel)
             \/ Move(r, fuel)
             \/ Copy(r, fuel)

Spec == Init /\ [][Next]_vars
=============================================================================
