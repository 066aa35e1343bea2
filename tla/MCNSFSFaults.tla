---------------------------- MODULE MCNSFSFaults ----------------------------
(* Any write of a call may be the first that fails: no call makes more than *)
(* seven before its last.                                                   *)
EXTENDS MCNSFS, NSFSStore

FaultRequests ==
  {r \in Writes({<<Zero>>}) : r.truncate => r.offset = 0}
  \cup [op : {"delete", "mkdir"}, path : Paths]
  \cup {r \in [op : {"move", "copy"}, path : Paths, to : Paths] :
            r.path # r.to /\ (r.op = "copy" => Len(r.path) = 2)}
=============================================================================
