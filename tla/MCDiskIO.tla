------------------------------ MODULE MCDiskIO ------------------------------
(* Two disks of two sectors of two bytes, one of them an ATA disk; a part of a *)
(* sector, an entire one, and both in one call.                              *)
EXTENDS DiskIO

FloppyRanges == {<<0, 2>>, <<1, 1>>, <<1, 2>>, <<1, 3>>, <<0, 3>>}
HardDiskRanges == {<<0, 3>>}
RequestsOn(d, ranges) == {[op |-> op, disk |-> d, start |-> r[1], size |-> r[2], byte |-> "new"] :
                            op \in {"read", "write"}, r \in ranges}
MCRequests == RequestsOn("fd0", FloppyRanges) \cup RequestsOn("hd0", HardDiskRanges)
=============================================================================
