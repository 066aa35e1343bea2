------------------------------- MODULE MCNSFS -------------------------------
(* The file system for TLC: two names, one of them with a second spelling. *)
EXTENDS NSFSInv

Disk0 == "fd0"
MCNames == {"a", "b", "B"}
MCStoredName == [n \in MCNames |-> IF n = "B" THEN "b" ELSE n]
Paths == {<<Disk0, "a">>, <<Disk0, "b">>, <<Disk0, "a", "b">>}
NewPaths == Paths \cup {<<Disk0, "B">>}

Writes(data) == [op : {"write"}, path : Paths, offset : 0 .. 2, data : data,
                 create : {TRUE}, truncate : BOOLEAN]
Data1 == {<<>>, <<Zero>>}
Tree1 == [op : {"delete"}, path : Paths] \cup [op : {"mkdir"}, path : NewPaths]
Tree2 == {r \in [op : {"move", "copy"}, path : Paths, to : NewPaths] : r.path # r.to}
\* A write that truncates and puts a byte is left to the other two instances.
MCRequests == {r \in Writes(Data1) : r.truncate => r.data = <<>>} \cup Tree1 \cup Tree2

\* No write fails.
Unlimited == {-1}

\* What the next step depends on.
Images == disk
=============================================================================
