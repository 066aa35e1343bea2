----------------------------- MODULE NSFSStore -----------------------------
(***************************************************************************)
(* The refinement mapping from the images of the disks to the tree that    *)
(* programs see, and the claim that careful programs get what FileStore     *)
(* promises.                                                               *)
(***************************************************************************)
EXTENDS NSFSInv

\* The path that leads to entry n.
RECURSIVE PathTo(_, _, _)
PathTo(img, d, n) ==
  IF n = 0 THEN <<d>>
  ELSE Append(PathTo(img, d, img.entry[n].parent), img.entry[n].name)

\* What a program sees at a path.
Node(img_of, path) ==
  LET e == img_of[DiskOf(path)].entry[fs_get_entry(img_of, path)]
      read == fs_read_file(img_of, path, 0, e.size)
  IN  [dir |-> e.flags = T_DIR, bytes |-> read.data]

Tree(img_of) ==
  LET Reached(img) == {n \in Heads(img) \ {0} : 0 \in Ancestors(img, n, NEntries)}
      paths == UNION {{PathTo(img_of[d], d, n) : n \in Reached(img_of[d])} : d \in Disks}
  IN  [path \in {p \in paths : ~Failed(fs_get_entry(img_of, p))} |-> Node(img_of, path)]

\* The tree is a function of the disks.  It is kept in a variable so that it
\* is worked out once for a step.
VARIABLE tree

InitStore == Init /\ tree = Tree(disk)
NextStore == Next /\ tree' = Tree(disk')
SpecStore == InitStore /\ [][NextStore]_<<vars, tree>>

Store == INSTANCE FileStore WITH
           store <- tree, AnyByte <- Bytes \cup {Zero, System}, Missing <- System

\* Every call does to the tree what fs.h says or fails and leaves all of the
\* tree but its target alone (fs.h:96-191), and returns what FileStore
\* says: for a delete that is done NO_ERROR, not the index of fs.h:191.
ImplementsFileStore == Store!Spec

\* A call on a disk that was sound, whatever write of it fails, harms nothing
\* but the files and directories it was given (fs.c returns at the first error,
\* with the writes before it done).
Given(r) == IF r.op \in {"move", "copy"} THEN {r.path, Sanitised(r.to)} ELSE {r.path}
OthersKept == \A p \in DOMAIN tree :
                \/ \E q \in Given(call') : IsPrefix(q, p)
                \/ p \in DOMAIN tree' /\ tree'[p] = tree[p]
FaultsStayLocal == [][OthersKept \/ ~Sound]_<<vars, tree>>
=============================================================================
