----------------------------- MODULE FileStore -----------------------------
(***************************************************************************)
(* What the file system promises to a program that takes care: a tree of   *)
(* directories and of files that are sequences of bytes.  A call does to    *)
(* the tree what its comment in source/fs.h says, or fails and harms        *)
(* nothing but the file or directory it was to write.  Two results are the  *)
(* code's where the comments promise others: a delete that is done returns  *)
(* NO_ERROR (source/fs.c:985, 996), not the index of the deleted entry      *)
(* (fs.h:191); a write that fails returns the error it met, not             *)
(* ERROR_NOT_FOUND (fs.h:168).                                             *)
(***************************************************************************)
EXTENDS Integers, SequencesExt

CONSTANTS
  Disks,       \* disk identifiers
  Names,       \* names a caller may write in a path
  StoredName,  \* the name that such a name becomes in the tree
  AnyByte,     \* the values a byte nobody has written may have
  Missing,     \* what reads of a byte that found no room return
  NO_ERROR, ERROR_NOT_FOUND, ERROR_EXISTS, ERROR_IO, ERROR_NO_SPACE

VARIABLES store,   \* the tree: from its paths to what is there
          ret,     \* the result of the last call
          call     \* the last call

vars == <<store, ret, call>>

-----------------------------------------------------------------------------
Directory == [dir |-> TRUE, bytes |-> <<>>]
File(bytes) == [dir |-> FALSE, bytes |-> bytes]

Roots == {<<d>> : d \in Disks}
Exists(p) == p \in Roots \cup DOMAIN store
IsDir(p)  == p \in Roots \/ (p \in DOMAIN store /\ store[p].dir)
Target(p) == Front(p) \o <<StoredName[Last(p)]>>

Under(p)  == {q \in DOMAIN store : IsPrefix(p, q)}
\* Every path but p and those below it is as it was.
OnlyUnder(p) == LET Others(f) == {q \in DOMAIN f : ~IsPrefix(p, q)}
                IN  /\ Others(store') = Others(store)
                    /\ \A q \in Others(store) : store'[q] = store[q]

\* The tree with what is under p also, or instead, under q.
Moved(from, p, q) == q \o SubSeq(from, Len(p) + 1, Len(from))
WithCopy(keep, p, q) ==
  LET copies == {Moved(from, p, q) : from \in Under(p)}
  IN  [x \in keep \cup copies |->
         IF x \in copies THEN store[CHOOSE from \in Under(p) : Moved(from, p, q) = x]
         ELSE store[x]]

Fails(res) == ret' = res /\ UNCHANGED store

-----------------------------------------------------------------------------
(* Writing. *)

Content(p) == IF p \in DOMAIN store THEN store[p].bytes ELSE <<>>

\* The bytes of p after all of data, or its first n bytes, were written.
Written(node, p, offset, data, n, size) ==
  /\ node = File(node.bytes)
  /\ Len(node.bytes) = size
  /\ \A i \in 1 .. size :
       IF i \in offset + 1 .. offset + n THEN node.bytes[i] = data[i - offset]
       ELSE IF i <= Len(Content(p)) THEN node.bytes[i] = Content(p)[i]
       ELSE node.bytes[i] \in AnyByte

EndOf(r) == r.offset + Len(r.data)
Longer(a, b) == IF a > b THEN a ELSE b

WriteDone(r) ==
  /\ ret' = Len(r.data)
  /\ r.path \in DOMAIN store'
  /\ Written(store'[r.path], r.path, r.offset, r.data, Len(r.data),
             IF r.truncate THEN EndOf(r) ELSE Longer(Len(Content(r.path)), EndOf(r)))

\* Out of space: the file is as before, perhaps made longer or, if it was not
\* there, perhaps made.
WriteNoSpace(r) ==
  /\ ret' = ERROR_NO_SPACE
  /\ ~Exists(r.path) \/ EndOf(r) > Len(Content(r.path))
  /\ Exists(r.path) => r.path \in DOMAIN store'
  /\ r.path \in DOMAIN store' =>
       \E size \in {Len(Content(r.path)), EndOf(r)} :
         Written(store'[r.path], r.path, r.offset, r.data, 0, size)

\* A byte within the range of the write found no room when the file grew.
WriteIOError(r) ==
  /\ ret' = ERROR_IO
  /\ \E i \in r.offset + 1 .. Len(Content(r.path)) : Content(r.path)[i] = Missing
  /\ \E n \in 0 .. Len(r.data) - 1 :
       Written(store'[r.path], r.path, r.offset, r.data, n,
               IF r.truncate THEN EndOf(r) ELSE Longer(Len(Content(r.path)), EndOf(r)))

Write(r) ==
  /\ r.op = "write"
  /\ IF IsDir(r.path) \/ ~IsDir(Front(r.path)) \/ ~(Exists(r.path) \/ r.create)
     THEN Fails(ERROR_NOT_FOUND)
     ELSE /\ OnlyUnder(r.path)
          /\ WriteDone(r) \/ WriteNoSpace(r) \/ WriteIOError(r)

-----------------------------------------------------------------------------
(* The tree. *)

\* A delete that is done returns NO_ERROR (see above).
Delete(r) ==
  /\ r.op = "delete"
  /\ IF ~Exists(r.path) THEN Fails(ERROR_NOT_FOUND)
     ELSE /\ ret' = NO_ERROR
          /\ store' = [p \in DOMAIN store \ Under(r.path) |-> store[p]]

CreateDirectory(r) ==
  /\ r.op = "mkdir"
  /\ IF ~IsDir(Front(r.path)) THEN Fails(ERROR_NOT_FOUND)
     ELSE IF Exists(Target(r.path)) THEN Fails(ERROR_EXISTS)
     ELSE \/ Fails(ERROR_NO_SPACE)
          \/ /\ ret' > NO_ERROR
             /\ store' = [p \in DOMAIN store \cup {Target(r.path)} |->
                            IF p = Target(r.path) THEN Directory ELSE store[p]]

Move(r) ==
  /\ r.op = "move"
  /\ IF ~IsDir(Front(r.to)) THEN Fails(ERROR_NOT_FOUND)
     ELSE IF Exists(Target(r.to)) THEN Fails(ERROR_EXISTS)
     ELSE IF ~Exists(r.path) THEN Fails(ERROR_NOT_FOUND)
     ELSE \/ /\ ret' > NO_ERROR
             /\ store' = WithCopy(DOMAIN store \ Under(r.path), r.path, Target(r.to))
          \/ /\ Head(r.path) # Head(r.to)
             /\ ret' = ERROR_NO_SPACE
             /\ OnlyUnder(Target(r.to))

Copy(r) ==
  /\ r.op = "copy"
  /\ IF ~IsDir(Front(r.to)) THEN Fails(ERROR_NOT_FOUND)
     ELSE IF Exists(Target(r.to)) THEN Fails(ERROR_EXISTS)
     ELSE IF ~Exists(r.path) THEN Fails(ERROR_NOT_FOUND)
     ELSE \/ /\ ret' = NO_ERROR
             /\ store' = WithCopy(DOMAIN store, r.path, Target(r.to))
          \/ /\ ret' = ERROR_NO_SPACE
             /\ OnlyUnder(Target(r.to))

Init == /\ store = << >>
        /\ ret = NO_ERROR
        /\ call \in {[op |-> "none"]}

Next == /\ call' # [op |-> "none"]
        /\ \/ Write(call')
           \/ Delete(call')
           \/ CreateDirectory(call')
           \/ Move(call')
           \/ Copy(call')

Spec == Init /\ [][Next]_vars
=============================================================================
