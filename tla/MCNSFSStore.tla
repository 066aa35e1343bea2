---------------------------- MODULE MCNSFSStore ----------------------------
(* Two disks; a program writes a byte of its own to every path. *)
EXTENDS MCNSFS, NSFSStore

Disk2 == "hd0"
StorePaths == {<<Disk0, "a">>, <<Disk0, "b">>, <<Disk0, "a", "b">>, <<Disk2, "b">>}
Ends == StorePaths \cup {<<Disk2, "B">>}
MCBytes == {"x", "y"}
ByteOf(path) == IF Head(path) = Disk0 THEN "x" ELSE "y"
StoreRequests ==
  {r \in [op : {"write"}, path : StorePaths, offset : 0 .. 2, data : {<<c>> : c \in MCBytes},
          create : {TRUE}, truncate : BOOLEAN] :
     r.data = <<ByteOf(r.path)>> /\ (r.truncate => r.offset < 2)}
  \cup [op : {"delete"}, path : StorePaths] \cup [op : {"mkdir"}, path : Ends]
  \cup {r \in [op : {"move", "copy"}, path : StorePaths, to : Ends] : r.path # r.to}

\* What the next step depends on: every growth here is by the byte written, so
\* nothing reads what is left in a free block.
UsedParts == [d \in Disks |->
  [entry |-> disk[d].entry,
   block |-> [b \in UsedBlocks(disk[d]) \ {0} |-> disk[d].block[b]]]]
=============================================================================
