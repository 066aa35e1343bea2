---------------------------- MODULE NSFSFindings ----------------------------
(***************************************************************************)
(* What source/fs.h and source/fs.c say of calls that source/fs.c does not *)
(* do.  NSFSFindings_*.cfg check each, most with one rule of the           *)
(* discipline dropped or a write that fails.                               *)
(***************************************************************************)
EXTENDS MCNSFSFaults

\* Two bytes at once, past the end by up to two.
LongWrites == Writes({<<Zero>>, <<Zero, Zero>>}) \cup Tree1
AnyGrowth(img_of, r) == AllBut(img_of, r, "growth")

\* A directory may be moved below itself.
IntoItself == Writes({<<Zero>>}) \cup Tree1 \cup
  [op : {"move"}, path : Paths, to : NewPaths \cup {<<Disk0, "a", "a">>}]
AnyMove(img_of, r) == AllBut(img_of, r, "subtree")

\* A file may be cut to any length.
AnyResize(img_of, r) == AllBut(img_of, r, "resize")

\* Files are made and directories deleted, any write of a call may fail.
Retries == {r \in Writes({<<Zero>>}) : r.offset = 0} \cup Tree1

\* fs.h:162 "Truncate file to the last written position": the bytes before the
\* position that a write starts at are kept, by a write that succeeds.
WritesKeepWhatIsBefore ==
  [][call'.op = "write" /\ ret' = Len(call'.data) /\ call'.path \in DOMAIN tree =>
       LET old  == tree[call'.path].bytes
           kept == 1 .. Least(call'.offset, Len(old))
       IN  \A i \in kept : tree'[call'.path].bytes[i] = old[i]]_<<vars, tree>>

\* fs.h:187-188 "Delete entry", "In the case of directories, they are recursively
\* deleted": a delete takes away what is at its path and below it, and nothing
\* else, also when it is asked for again after one that failed.
DeletesStayLocal == [][call'.op = "delete" => OthersKept]_<<vars, tree>>

\* Only a delete may leave a disk unsound.
OnlyDeletesFail == Sound \/ call.op = "delete"

\* fs.h:191 "index of deleted entry otherwise": what a delete that finds its path
\* and does not fail returns.
DeleteReturnsIndex ==
  [][call'.op = "delete" /\ ~Failed(ret') => ret' = fs_get_entry(disk, call'.path)]_<<vars, tree>>

\* fs.h:82-83 "Chained entries have the same flags, name and time than their head
\* entry": an entry has the name of the one it continues.
ChainedNamesAgree ==
  \A d \in Disks :
    LET img == disk[d]
    IN  \A n \in Used(img) :
          img.entry[n].next # 0 => img.entry[img.entry[n].next].name = img.entry[n].name
=============================================================================
