---------------------------- MODULE DiskIOProofs ----------------------------
(***************************************************************************)
(* For any disks, sectors, calls and number of nested interrupts, under a  *)
(* BIOS that returns with interrupts off, as it was called: first that no  *)
(* level that holds the interrupt lock is ever interrupted, then what the  *)
(* calls of io_disk_read and io_disk_write return and leave on the disks,  *)
(* however many transfers fail.                                            *)
(***************************************************************************)
EXTENDS DiskIO, TLAPS

PCs == Unlocked \cup InSound \cup InIO \cup InInt32

\* The part of the state that the lock depends on.
LockType ==
  /\ interrupt_locks \in Nat
  /\ top \in Levels
  /\ who \in [Levels -> Handlers \cup {"main"}]
  /\ pc \in [Levels -> PCs]
  /\ back \in [Levels -> {"start", "close"}]

\* The interrupt controller is held back exactly in a BIOS service, and an
\* interrupted level goes on where it holds no lock.  Level 0 is no handler.
WhereItIs ==
  /\ inhibited <=> pc[top] \in {"bios", "deinhibit"}
  /\ \A l \in 0 .. top - 1 : pc[l] \in Unlocked
  /\ who[0] = "main" /\ pc[0] \notin {"leave", "iret"}

LockInv == LockType /\ WhereItIs /\ LocksKeepInterruptsOff

-----------------------------------------------------------------------------
\* Interrupts are on and nothing is locked when the kernel begins.
LEMMA InitLock == Init => LockInv
  <1> SUFFICES ASSUME Init PROVE LockInv
    OBVIOUS
  <1>1. LockType
    BY LevelAssumption DEF Init, LockType, Levels, PCs, Unlocked, INT_NO_LOCK
  <1>2. WhereItIs
    BY LevelAssumption DEF Init, WhereItIs, Levels
  <1>0. top = 0 /\ pc[0] = "start" /\ interrupt_locks = INT_NO_LOCK
    BY LevelAssumption DEF Init, Levels
  <1>3. Held(0) = 0
    BY <1>0 DEF Held, HeldAt, Unlocked, InSound, InIO, InInt32
  <1>4. ~inhibited
    BY DEF Init
  <1>5. LocksKeepInterruptsOff
    BY <1>0, <1>3, <1>4 DEF LocksKeepInterruptsOff, INT_NO_LOCK
  <1> QED BY <1>1, <1>2, <1>5 DEF LockInv
\* What enable_interrupts does to a lock that is held.
LEMMA Unlock ==
  ASSUME interrupt_locks \in Nat, interrupt_locks > INT_NO_LOCK, ~int_flag, enable_interrupts
  PROVE  /\ interrupt_locks' = interrupt_locks - 1
         /\ int_flag' => interrupt_locks' = INT_NO_LOCK
  BY DEF enable_interrupts, INT_NO_LOCK

\* The top level goes on to a place where the count of locks is right.
Goes(where, return) ==
  /\ where \in PCs /\ return \in {"start", "close"}
  /\ pc' = [pc EXCEPT ![top] = where] /\ back' = [back EXCEPT ![top] = return]
  /\ UNCHANGED <<top, who>>
  /\ top = 0 => where \notin {"leave", "iret"}
  /\ inhibited' <=> where \in {"bios", "deinhibit"}
  /\ interrupt_locks' = INT_NO_LOCK + HeldAt(where, return)
  /\ int_flag' => HeldAt(where, return) = 0 /\ ~inhibited'

\* A step of the top level alone keeps what holds of the levels below it.
LEMMA StepOnTop ==
  ASSUME LockInv, NEW where, NEW return, Goes(where, return) PROVE LockInv'
  <1> USE LevelAssumption DEF LockInv, LockType, WhereItIs, Levels
  <1>1. /\ pc' \in [Levels -> PCs] /\ pc'[top] = where
        /\ back' \in [Levels -> {"start", "close"}] /\ back'[top] = return
        /\ top' = top /\ who' = who
        /\ \A l \in 0 .. top - 1 : l \in Levels /\ pc'[l] = pc[l] /\ back'[l] = back[l]
    BY DEF Goes
  <1>2. HeldAt(where, return) \in Nat
    BY DEF Goes, PCs, HeldAt, Unlocked, InSound, InIO, InInt32
  <1>3. interrupt_locks' \in Nat
    BY <1>2 DEF Goes, INT_NO_LOCK
  <1>4. LockType'
    BY <1>1, <1>3
  <1>5. WhereItIs'
    BY <1>1 DEF Goes
  <1>6. Held(top)' = HeldAt(where, return) /\ \A l \in 0 .. top - 1 : Held(l)' = Held(l)
    BY <1>1 DEF Held
  <1>7. LocksKeepInterruptsOff'
    BY <1>1, <1>6 DEF Goes, LocksKeepInterruptsOff
  <1> QED BY <1>4, <1>5, <1>7

\* A step of the code under way or of a new call, by what it does to the lock.
LEMMA NextLock ==
  ASSUME BiosFlags = {FALSE}, LockInv, [Next]_vars PROVE LockInv'
  <1> USE LevelAssumption DEF LockInv, LockType, WhereItIs, LocksKeepInterruptsOff, Levels, PCs,
        Unlocked, InSound, InIO, InInt32, Held, HeldAt, INT_NO_LOCK, GoTo, data, lock, lapic
  <1>1. ASSUME NEW r \in Requests, IOBegins(r) PROVE LockInv'
    BY <1>1 DEF IOBegins, disable_interrupts
  <1>2. ASSUME NextPiece PROVE LockInv'
    BY <1>2 DEF NextPiece
  <1>3. ASSUME TryATA PROVE LockInv'
    BY <1>3 DEF TryATA
  <1>4. ASSUME Int32Begins PROVE LockInv'
    BY <1>4 DEF Int32Begins, disable_interrupts
  <1>5. ASSUME Bios PROVE LockInv'
    BY <1>5 DEF Bios
  <1>6. ASSUME lapic_deinhibit PROVE LockInv'
    BY <1>6 DEF lapic_deinhibit
  <1>7. ASSUME Popfd PROVE LockInv'
    BY <1>7 DEF Popfd
  <1>8. ASSUME Int32Ends PROVE LockInv'
    <2>1. Held(top) \in {2, 3} /\ ~int_flag /\ enable_interrupts
      BY <1>8 DEF Int32Ends
    <2>2. interrupt_locks' = interrupt_locks - 1 /\ ~int_flag'
      BY <2>1, Unlock
    <2> QED BY <1>8, <2>1, <2>2 DEF Int32Ends
  <1>9. ASSUME Tried PROVE LockInv'
    <2>1. PICK where \in {"moved", "try"} : pc' = [pc EXCEPT ![top] = where]
      BY <1>9 DEF Tried
    <2>2. pc[top] = "tried" /\ UNCHANGED <<interrupt_locks, int_flag, inhibited, top, who, back>>
      BY <1>9 DEF Tried
    <2> QED BY <2>1, <2>2
  <1>10. ASSUME PieceRead \/ Merge \/ PieceWritten PROVE LockInv'
    <2>1. PICK where \in {"next", "try"} : pc' = [pc EXCEPT ![top] = where]
      BY <1>10 DEF PieceRead, Merge, PieceWritten
    <2>2. pc[top] = "moved" /\ UNCHANGED <<interrupt_locks, int_flag, inhibited, top, who, back>>
      BY <1>10 DEF PieceRead, Merge, PieceWritten
    <2> QED BY <2>1, <2>2
  <1>11. ASSUME IOEnds PROVE LockInv'
    <2>1. pc[top] = "next" /\ ~int_flag /\ ~inhibited /\ enable_interrupts /\ UNCHANGED <<inhibited, top, who>>
      BY <1>11 DEF IOEnds
    <2>2. interrupt_locks = INT_NO_LOCK + (IF back[top] = "start" THEN 1 ELSE 2)
      BY <2>1
    <2>3. interrupt_locks' = interrupt_locks - 1 /\ (int_flag' => interrupt_locks' = INT_NO_LOCK)
      BY <2>1, <2>2, Unlock
    <2>4. pc' = [pc EXCEPT ![top] = back[top]] /\ back' = [back EXCEPT ![top] = "start"]
      BY <1>11 DEF IOEnds
    <2>5. Goes(back[top], "start")
      BY <2>1, <2>2, <2>3, <2>4 DEF Goes
    <2> QED BY <2>5, StepOnTop
  <1>12. ASSUME NothingToRead PROVE LockInv'
    BY <1>12 DEF NothingToRead
  <1>13. ASSUME PlayEnds \/ SoundLeaves PROVE LockInv'
    <2>1. Held(top) = 1 /\ ~int_flag /\ enable_interrupts
      BY <1>13 DEF PlayEnds, SoundLeaves
    <2>2. interrupt_locks' = 1
      BY <2>1, Unlock
    <2>3. PICK where \in {"start", "iret"} : /\ pc' = [pc EXCEPT ![top] = where]
                                           /\ (top = 0 => where = "start")
      BY <1>13 DEF PlayEnds, SoundLeaves
    <2>4. pc[top] \in InSound /\ UNCHANGED <<inhibited, top, who, back>>
      BY <1>13 DEF PlayEnds, SoundLeaves
    <2>5. HeldAt(where, back[top]) = 0 /\ ~inhibited /\ back' = [back EXCEPT ![top] = back[top]]
      BY <2>3, <2>4
    <2>6. where \in PCs /\ where \notin {"bios", "deinhibit", "leave"}
      BY <2>3
    <2>7. /\ top = 0 => where \notin {"leave", "iret"}
          /\ inhibited' <=> where \in {"bios", "deinhibit"}
      BY <2>3, <2>4, <2>5, <2>6
    <2>8. back[top] \in {"start", "close"}
      OBVIOUS
    <2>9. /\ interrupt_locks' = INT_NO_LOCK + HeldAt(where, back[top])
          /\ int_flag' => HeldAt(where, back[top]) = 0 /\ ~inhibited'
      <3> HIDE DEF HeldAt
      <3> QED BY <2>2, <2>4, <2>5
    <2>10. Goes(where, back[top])
      <3> HIDE DEF HeldAt, PCs, LockInv
      <3> QED BY <2>3, <2>4, <2>5, <2>6, <2>7, <2>8, <2>9 DEF Goes
    <2> QED BY <2>10, StepOnTop
  <1>14. ASSUME lapic_eoi PROVE LockInv'
    <2>1. PICK where \in {"iret", "leave"} :
            /\ pc' = [pc EXCEPT ![top] = where] /\ top # 0
            /\ HeldAt(where, back[top]) = Held(top) /\ pc[top] \in {"start", "close"}
      BY <1>14 DEF lapic_eoi
    <2>2. UNCHANGED <<interrupt_locks, int_flag, inhibited, top, who, back>>
      BY <1>14 DEF lapic_eoi
    <2>3. Goes(where, back[top])
      BY <2>1, <2>2 DEF Goes
    <2> QED BY <2>3, StepOnTop
  <1>15. ASSUME SoundBegins PROVE LockInv'
    BY <1>15 DEF SoundBegins, disable_interrupts
  <1>16. ASSUME Iret PROVE LockInv'
    <2>1. top - 1 \in Levels /\ top # 0 /\ pc[top - 1] \in Unlocked /\ pc[top] = "iret"
      BY <1>16 DEF Iret
    <2>2. /\ top' = top - 1 /\ int_flag' = TRUE
          /\ UNCHANGED <<interrupt_locks, inhibited, back>>
          /\ who' = [who EXCEPT ![top] = "main"] /\ pc' = [pc EXCEPT ![top] = "start"]
      BY <1>16 DEF Iret
    <2>3. LockType' /\ WhereItIs'
      BY <2>1, <2>2
    <2>4. Held(top) = 0 /\ Held(top)' = 0 /\ interrupt_locks' = INT_NO_LOCK /\ ~inhibited'
      BY <2>1, <2>2
    <2>5. LocksKeepInterruptsOff'
      BY <2>1, <2>2, <2>3, <2>4
    <2> QED BY <2>3, <2>5
  <1>17. ASSUME NEW h \in Handlers, Interrupt(h) PROVE LockInv'
    BY <1>17 DEF Interrupt
  <1>18. CASE UNCHANGED vars
    BY <1>18 DEF vars
  <1> QED BY <1>1, <1>2, <1>3, <1>4, <1>5, <1>6, <1>7, <1>8, <1>9, <1>10, <1>11, <1>12, <1>13,
             <1>14, <1>15, <1>16, <1>17, <1>18 DEF Next, Continue, Begin

\* hwio.c:1378 "Only enabled when there are no locks": whatever interrupts what,
\* nothing runs on top of a level that holds the interrupt lock, so that
\* io_disk_read and io_disk_write have disk_buff, and int32 its stack and its
\* saved stack pointer, for themselves.
THEOREM LocksExclude == BiosFlags = {FALSE} => (Spec => []LocksKeepInterruptsOff)
  <1> SUFFICES ASSUME BiosFlags = {FALSE} PROVE Spec => []LocksKeepInterruptsOff
    OBVIOUS
  <1>1. Init => LockInv
    BY InitLock
  <1>2. LockInv /\ [Next]_vars => LockInv'
    BY NextLock
  <1>3. LockInv => LocksKeepInterruptsOff
    BY DEF LockInv
  <1> QED BY <1>1, <1>2, <1>3, PTL DEF Spec

-----------------------------------------------------------------------------
(* Sectors. *)

\* A quotient and a remainder, and that there is no other.
LEMMA Remainder ==
  ASSUME NEW n \in Nat, NEW s \in Nat \ {0}
  PROVE  n % s \in 0 .. s - 1 /\ n \div s \in Nat /\ n = s * (n \div s) + (n % s)
OBVIOUS

LEMMA OnlyRemainder ==
  ASSUME NEW q \in Nat, NEW s \in Nat \ {0}, NEW r \in 0 .. s - 1
  PROVE  (s * q + r) % s = r
OBVIOUS

LEMMA Ahead ==
  ASSUME NEW n \in Nat, NEW s \in Nat \ {0}, NEW j \in Nat, (n % s) + j < s
  PROVE  (n + j) % s = (n % s) + j
<1> DEFINE q == n \div s
           r == n % s
<1>1. r \in 0 .. s - 1 /\ q \in Nat /\ n = s * q + r
  BY Remainder
<1> HIDE DEF q, r
<1>2. r + j \in 0 .. s - 1
  BY <1>1 DEF r
<1>3. (s * q + (r + j)) % s = r + j
  BY <1>1, <1>2, OnlyRemainder
<1>4. n + j = s * q + (r + j)
  BY <1>1
<1> QED BY <1>3, <1>4 DEF r

LEMMA WholeSectors ==
  ASSUME NEW n \in Nat, NEW s \in Nat \ {0}, NEW b \in Nat, n < b, b % s = 0
  PROVE  n - (n % s) + s <= b
<1>1. /\ n % s \in 0 .. s - 1 /\ n \div s \in Nat
      /\ n = s * (n \div s) + (n % s)
  BY Remainder
<1>2. b \div s \in Nat /\ b = s * (b \div s)
  BY Remainder
<1>3. (n \div s) + 1 <= b \div s
  BY <1>1, <1>2
<1>4. s * ((n \div s) + 1) <= s * (b \div s)
  BY <1>1, <1>2, <1>3
<1>5. s * ((n \div s) + 1) = s * (n \div s) + s
  BY <1>1
<1> QED BY <1>1, <1>2, <1>4, <1>5

-----------------------------------------------------------------------------
(* A call and what it has done so far. *)

Values == Bytes \cup {Junk}
Images == [Disks -> [0 .. NBytes - 1 -> Values]]
Memories == UNION {[0 .. n - 1 -> Values] : n \in Nat}
Calls == [op : {"read", "write"}, disk : Disks, start : Nat, size : Nat, byte : Bytes,
          done : Nat, error : BOOLEAN, stale : SUBSET Int, xfer : {"read", "write"},
          bios : {"transfer", "reset"}, attempt : Int, ok : BOOLEAN,
          buff : Memories, before : Images]

\* The state of a call is right in itself; from the choice of a piece on there is one.
Shape(p, c) ==
  /\ c \in Calls /\ c.buff \in [0 .. c.size - 1 -> Values]
  /\ c.done <= c.size /\ c.start + c.size <= NBytes
  /\ p # "next" =>
       /\ Left(c) > 0
       /\ c.xfer = "write" => c.op = "write"
       /\ c.op = "write" /\ c.xfer = "read" => InPart(c)

\* When an error is known, and what is stale then.
Erring(p, c) ==
  /\ p = "moved" /\ c.xfer = "read" => (c.error <=> ~c.ok)
  /\ p \notin {"next", "moved"} /\ c.error =>
       c.xfer = "write" /\ c.stale = {Sector(c) + i : i \in SectorBytes}

\* A byte of a disk when n bytes of the call are done, and the disks then.
After(c, n, d, x) ==
  IF c.op = "write" /\ d = c.disk /\ x \in c.start .. c.start + n - 1 THEN c.byte
  ELSE c.before[d][x]
IsAfter(c, n, image) ==
  \A d \in Disks, x \in 0 .. NBytes - 1 : image[d][x] = After(c, n, d, x)
\* While a piece is written the disks are as before it or as after it, byte by byte.
IsBetween(c, image) ==
  \A d \in Disks, x \in 0 .. NBytes - 1 :
    \/ image[d][x] = After(c, c.done, d, x)
    \/ image[d][x] = After(c, c.done + Piece(c), d, x)

\* What a call that has not failed has read and written, and the sector it writes next.
Done(p, c, image, buffer) ==
  /\ c.op = "read" => \A i \in 0 .. c.done - 1 : c.buff[i] = image[c.disk][c.start + i]
  /\ p = "next" \/ c.xfer = "read" => IsAfter(c, c.done, image)
  /\ p # "next" /\ c.xfer = "write" =>
       /\ IsBetween(c, image)
       /\ \A i \in SectorBytes :
            (IF Buffered(c) THEN buffer[i] ELSE c.byte) = After(c, c.done + Piece(c), c.disk, Sector(c) + i)

\* A transfer that succeeded read or wrote the sector.
Succeeded(p, c) ==
  \/ p = "moved"
  \/ p \in {"deinhibit", "popfd", "enable", "tried"} /\ c.ok /\ c.bios = "transfer"
Transferred(c, image, buffer) ==
  /\ c.xfer = "read" /\ Buffered(c) => \A i \in SectorBytes : buffer[i] = image[c.disk][Sector(c) + i]
  /\ c.xfer = "write" => IsAfter(c, c.done + Piece(c), image)

\* What changed is in the call's range or in a sector that could not be read.
Keeps(c, image) ==
  \A d \in Disks, x \in 0 .. NBytes - 1 :
    image[d][x] # c.before[d][x] =>
      /\ d = c.disk /\ c.op = "write"
      /\ x \in c.start .. c.start + c.size - 1 \/ x \in c.stale

\* While a piece is read nothing changes, also when that fails.
Untouched(p, c, image) == p # "next" /\ c.xfer = "read" => IsAfter(c, c.done, image)

Right(p, c, image, buffer) ==
  /\ Shape(p, c) /\ Erring(p, c) /\ Keeps(c, image) /\ Untouched(p, c, image)
  /\ ~c.error => /\ Done(p, c, image, buffer)
                 /\ Succeeded(p, c) => Transferred(c, image, buffer)

Active == pc[top] \in InIO \cup InInt32
ResultInv ==
  /\ disk \in Images /\ disk_buff \in [SectorBytes -> Values]
  /\ Active => Right(pc[top], call[top], disk, disk_buff)
  /\ DOMAIN call = Levels

-----------------------------------------------------------------------------
(* Pieces. *)

\* A piece is within its sector, its sector within the disk, and an entire one is all
\* of its sector.
LEMMA Pieces ==
  ASSUME NEW c, NEW p, Shape(p, c), Left(c) > 0
  PROVE  /\ Here(c) \in Nat /\ Here(c) = c.start + c.done
         /\ Offset(c) \in SectorBytes /\ Sector(c) = Here(c) - Offset(c) /\ Sector(c) \in Nat
         /\ Sector(c) + DISK_SECTOR_SIZE <= NBytes
         /\ Piece(c) \in 1 .. DISK_SECTOR_SIZE - Offset(c) /\ Piece(c) <= Left(c)
         /\ c.done + Piece(c) <= c.size
         /\ ~InPart(c) => Offset(c) = 0 /\ Piece(c) = DISK_SECTOR_SIZE
<1>1. /\ c.start \in Nat /\ c.done \in Nat /\ c.size \in Nat /\ c.start + c.size <= NBytes
      /\ c.done < c.size /\ Left(c) = c.size - c.done
  BY DEF Shape, Left, Calls
<1>2. NBytes \in Nat /\ DISK_SECTOR_SIZE \in Nat \ {0} /\ NBytes % DISK_SECTOR_SIZE = 0
  BY DiskIOAssumption
<1>3. Here(c) \in Nat /\ Here(c) = c.start + c.done /\ Here(c) < NBytes
  BY <1>1, <1>2 DEF Here
<1>4. Offset(c) \in 0 .. DISK_SECTOR_SIZE - 1 /\ Sector(c) = Here(c) - Offset(c)
  BY <1>2, <1>3, Remainder DEF Offset, Sector
<1>5. Here(c) - Offset(c) + DISK_SECTOR_SIZE <= NBytes
  BY <1>2, <1>3, WholeSectors DEF Offset
<1>6. Here(c) - Offset(c) \in Nat
  <2>1. Here(c) \div DISK_SECTOR_SIZE \in Nat
        /\ Here(c) = DISK_SECTOR_SIZE * (Here(c) \div DISK_SECTOR_SIZE) + Offset(c)
    BY <1>2, <1>3, Remainder DEF Offset
  <2> QED BY <1>2, <1>4, <2>1
<1>7. Piece(c) \in 1 .. DISK_SECTOR_SIZE - Offset(c) /\ Piece(c) <= Left(c)
  BY <1>1, <1>2, <1>4 DEF Piece, Least
<1>8. ~InPart(c) => Offset(c) = 0 /\ Piece(c) = DISK_SECTOR_SIZE
  BY <1>2, <1>4, <1>7 DEF InPart
<1> QED BY <1>1, <1>2, <1>3, <1>4, <1>5, <1>6, <1>7, <1>8 DEF SectorBytes

\* Where a byte of a piece is in its sector and on the disk.
LEMMA ByteOfPiece ==
  ASSUME NEW c, NEW p, Shape(p, c), Left(c) > 0, NEW i \in c.done .. c.done + Piece(c) - 1
  PROVE  /\ (c.start + i) % DISK_SECTOR_SIZE \in SectorBytes
         /\ c.start + i = Sector(c) + ((c.start + i) % DISK_SECTOR_SIZE)
         /\ c.start + i \in 0 .. NBytes - 1
<1>1. /\ c.start \in Nat /\ c.done \in Nat /\ DISK_SECTOR_SIZE \in Nat \ {0} /\ NBytes \in Nat
  BY DiskIOAssumption DEF Shape, Calls
<1>2. /\ Here(c) \in Nat /\ Here(c) = c.start + c.done
      /\ Offset(c) \in 0 .. DISK_SECTOR_SIZE - 1 /\ Sector(c) = Here(c) - Offset(c)
      /\ Sector(c) \in Nat /\ Sector(c) + DISK_SECTOR_SIZE <= NBytes
      /\ Piece(c) \in 1 .. DISK_SECTOR_SIZE - Offset(c)
  BY Pieces DEF SectorBytes
<1> DEFINE j == i - c.done
<1>3. j \in Nat /\ Offset(c) + j < DISK_SECTOR_SIZE /\ Here(c) + j = c.start + i
  BY <1>1, <1>2
<1> HIDE DEF j
<1>4. (c.start + i) % DISK_SECTOR_SIZE = Offset(c) + j
  BY <1>1, <1>2, <1>3, Ahead DEF Offset
<1>5. Offset(c) + j \in 0 .. DISK_SECTOR_SIZE - 1 /\ c.start + i = Sector(c) + (Offset(c) + j)
  BY <1>1, <1>2, <1>3
<1>6. c.start + i \in 0 .. NBytes - 1
  BY <1>1, <1>2, <1>5
<1> QED BY <1>4, <1>5, <1>6 DEF SectorBytes

\* A piece depends on the place of a call alone.
LEMMA SamePiece ==
  ASSUME NEW c, NEW e, e.disk = c.disk, e.start = c.start, e.size = c.size, e.done = c.done
  PROVE  /\ Left(e) = Left(c) /\ Here(e) = Here(c) /\ Piece(e) = Piece(c) /\ Sector(e) = Sector(c)
         /\ Offset(e) = Offset(c) /\ InPart(e) = InPart(c) /\ Buffered(e) = Buffered(c)
         /\ ViaBIOS(e) = ViaBIOS(c)
BY DEF Left, Here, Piece, Sector, Offset, InPart, Buffered, ViaBIOS

\* The bytes of a piece are those in which the disks differ before and after it.
LEMMA PieceIsNew ==
  ASSUME NEW c, NEW p, Shape(p, c), Left(c) > 0, c.op = "write", NEW i \in SectorBytes
  PROVE  After(c, c.done + Piece(c), c.disk, Sector(c) + i) =
           IF i \in Offset(c) .. Offset(c) + Piece(c) - 1 THEN c.byte
           ELSE After(c, c.done, c.disk, Sector(c) + i)
<1>1. c.start \in Nat /\ c.done \in Nat /\ DISK_SECTOR_SIZE \in Nat
  BY DiskIOAssumption DEF Shape, Calls
<1>2. /\ Sector(c) = c.start + c.done - Offset(c) /\ Sector(c) \in Nat
      /\ Offset(c) \in 0 .. DISK_SECTOR_SIZE - 1 /\ Piece(c) \in Nat
  BY <1>1, Pieces DEF SectorBytes
<1>3. i \in Int
  BY <1>1 DEF SectorBytes
<1> QED BY <1>1, <1>2, <1>3 DEF After

LEMMA PieceAfter ==
  ASSUME NEW c, NEW p, Shape(p, c), Left(c) > 0, c.op = "write",
         NEW d \in Disks, NEW x \in 0 .. NBytes - 1
  PROVE  /\ x - Sector(c) \notin SectorBytes \/ d # c.disk =>
              After(c, c.done + Piece(c), d, x) = After(c, c.done, d, x)
         /\ (\/ After(c, c.done, d, x) # c.before[d][x]
             \/ After(c, c.done + Piece(c), d, x) # c.before[d][x]) =>
              d = c.disk /\ x \in c.start .. c.start + c.size - 1
<1>1. /\ c.start \in Nat /\ c.done \in Nat /\ c.size \in Nat /\ c.done <= c.size
      /\ DISK_SECTOR_SIZE \in Nat /\ NBytes \in Nat
  BY DiskIOAssumption DEF Shape, Calls
<1>2. /\ Sector(c) = c.start + c.done - Offset(c) /\ Sector(c) \in Nat
      /\ Offset(c) \in 0 .. DISK_SECTOR_SIZE - 1
      /\ Piece(c) \in 1 .. DISK_SECTOR_SIZE - Offset(c) /\ c.done + Piece(c) <= c.size
  BY <1>1, Pieces DEF SectorBytes
<1> QED BY <1>1, <1>2 DEF After, SectorBytes

-----------------------------------------------------------------------------
(* Transfers. *)

\* What a disk holds when a sector was written.
LEMMA SectorWritten ==
  ASSUME disk \in Images, NEW d \in Disks, NEW first \in Nat, NEW bytes \in [SectorBytes -> Values]
  PROVE  /\ WithSector(d, first, bytes) \in Images
         /\ \A e \in Disks, x \in 0 .. NBytes - 1 :
              WithSector(d, first, bytes)[e][x] =
                IF e = d /\ x - first \in SectorBytes THEN bytes[x - first] ELSE disk[e][x]
<1> DEFINE image == [x \in DOMAIN disk[d] |->
                      IF x - first \in SectorBytes THEN bytes[x - first] ELSE disk[d][x]]
<1>1. WithSector(d, first, bytes) = [disk EXCEPT ![d] = image]
  BY DEF WithSector
<1>2. disk[d] \in [0 .. NBytes - 1 -> Values]
  BY DEF Images
<1>3. image \in [0 .. NBytes - 1 -> Values]
  BY <1>2
<1>4. \A x \in 0 .. NBytes - 1 :
        image[x] = IF x - first \in SectorBytes THEN bytes[x - first] ELSE disk[d][x]
  BY <1>2
<1> HIDE DEF image
<1> QED BY <1>1, <1>3, <1>4 DEF Images

\* A transfer that fails leaves the disks between, and one that succeeds after, what they
\* were and what they become; a sector that is read in part is read as it is.
LEMMA TransferIsRight ==
  ASSUME disk \in Images, disk_buff \in [SectorBytes -> Values],
         NEW p \in {"try", "bios"}, NEW c, Right(p, c, disk, disk_buff),
         NEW ok \in BOOLEAN, Transfer(c, ok)
  PROVE  /\ disk' \in Images /\ disk_buff' \in [SectorBytes -> Values]
         /\ Keeps(c, disk') /\ Untouched(p, c, disk')
         /\ ~c.error => /\ Done(p, c, disk', disk_buff')
                        /\ ok => Transferred(c, disk', disk_buff')
<1>1. /\ Shape(p, c) /\ Left(c) > 0 /\ c.disk \in Disks /\ c.byte \in Bytes
      /\ c.xfer \in {"read", "write"} /\ (c.xfer = "write" => c.op = "write")
  BY DEF Right, Shape, Calls
<1>2. /\ Sector(c) \in Nat /\ DISK_SECTOR_SIZE \in Nat /\ NBytes \in Nat
      /\ \A i \in SectorBytes : i \in Nat /\ Sector(c) + i \in 0 .. NBytes - 1
  <2>1. /\ Sector(c) \in Nat /\ Sector(c) + DISK_SECTOR_SIZE <= NBytes
    BY <1>1, Pieces
  <2> QED BY <2>1, DiskIOAssumption DEF SectorBytes
<1>3. CASE c.xfer = "read" /\ Buffered(c)
  <2>1. disk' = disk /\ (ok => disk_buff' = SectorOf(c.disk, Sector(c)))
        /\ disk_buff' \in {SectorOf(c.disk, Sector(c)), disk_buff, AllBytes(Junk)}
    BY <1>3 DEF Transfer
  <2>2. SectorOf(c.disk, Sector(c)) \in [SectorBytes -> Values] /\ AllBytes(Junk) \in [SectorBytes -> Values]
    BY <1>1, <1>2 DEF SectorOf, AllBytes, Images, Values
  <2>3. disk_buff' \in [SectorBytes -> Values]
    BY <2>1, <2>2
  <2>4. ok => Transferred(c, disk', disk_buff')
    BY <1>3, <2>1 DEF Transferred, SectorOf
  <2> QED BY <1>3, <2>1, <2>3, <2>4 DEF Right, Done, Untouched
<1>4. CASE c.xfer = "read" /\ ~Buffered(c)
  <2>1. disk' = disk /\ disk_buff' = disk_buff
    BY <1>4 DEF Transfer, data
  <2> QED BY <1>4, <2>1 DEF Right, Done, Transferred, Untouched
<1>5. CASE c.xfer = "write"
  <2> DEFINE bytes == IF Buffered(c) THEN disk_buff ELSE AllBytes(c.byte)
             written == WithSector(c.disk, Sector(c), bytes)
  <2>1. disk_buff' = disk_buff /\ (ok => disk' = written) /\ disk' \in {disk, written}
    BY <1>5 DEF Transfer
  <2>2. bytes \in [SectorBytes -> Values]
    BY <1>1 DEF AllBytes, Values
  <2>3. \A i \in SectorBytes : bytes[i] = IF Buffered(c) THEN disk_buff[i] ELSE c.byte
    BY DEF AllBytes
  <2> HIDE DEF bytes
  <2>4. /\ written \in Images
        /\ \A e \in Disks, x \in 0 .. NBytes - 1 :
             written[e][x] = IF e = c.disk /\ x - Sector(c) \in SectorBytes
                             THEN bytes[x - Sector(c)] ELSE disk[e][x]
    BY <1>1, <1>2, <2>2, SectorWritten
  <2> HIDE DEF written
  <2>5. disk' \in Images /\ disk_buff' \in [SectorBytes -> Values]
    BY <2>1, <2>4
  <2>6. ASSUME ~c.error
        PROVE  IsAfter(c, c.done + Piece(c), written)
    <3>1. IsBetween(c, disk)
      BY <1>1, <1>5, <2>6 DEF Right, Done
    <3>2. \A i \in SectorBytes : bytes[i] = After(c, c.done + Piece(c), c.disk, Sector(c) + i)
      BY <1>1, <1>5, <2>3, <2>6 DEF Right, Done
    <3>3. SUFFICES ASSUME NEW d \in Disks, NEW x \in 0 .. NBytes - 1
                   PROVE  written[d][x] = After(c, c.done + Piece(c), d, x)
      BY DEF IsAfter
    <3>4. CASE d = c.disk /\ x - Sector(c) \in SectorBytes
      <4>1. Sector(c) + (x - Sector(c)) = x
        BY <1>2
      <4> QED BY <2>4, <3>2, <3>4, <4>1
    <3>5. CASE ~(d = c.disk /\ x - Sector(c) \in SectorBytes)
      <4>1. After(c, c.done + Piece(c), d, x) = After(c, c.done, d, x)
        BY <1>1, <1>5, <3>5, PieceAfter
      <4> QED BY <2>4, <3>1, <3>5, <4>1 DEF IsBetween
    <3> QED BY <3>4, <3>5
  <2>7. ASSUME ~c.error PROVE IsBetween(c, disk')
    BY <1>1, <1>5, <2>1, <2>6, <2>7 DEF Right, Done, IsBetween, IsAfter
  <2>8. ~c.error => Done(p, c, disk', disk_buff') /\ (ok => Transferred(c, disk', disk_buff'))
    BY <1>1, <1>5, <2>1, <2>6, <2>7 DEF Right, Done, Transferred
  <2>9. Keeps(c, disk')
    <3>1. CASE ~c.error
      <4>1. \A d \in Disks, x \in 0 .. NBytes - 1 :
              After(c, c.done, d, x) # c.before[d][x] \/ After(c, c.done + Piece(c), d, x) # c.before[d][x] =>
                d = c.disk /\ x \in c.start .. c.start + c.size - 1
        BY <1>1, <1>5, PieceAfter
      <4> QED BY <1>1, <1>5, <2>7, <3>1, <4>1 DEF IsBetween, Keeps
    <3>2. CASE c.error
      <4>1. c.stale = {Sector(c) + i : i \in SectorBytes}
        BY <3>2 DEF Right, Erring
      <4>2. \A x \in 0 .. NBytes - 1 : x - Sector(c) \in SectorBytes => x \in c.stale
        <5>1. \A x \in 0 .. NBytes - 1 : Sector(c) + (x - Sector(c)) = x
          BY <1>2
        <5> QED BY <4>1, <5>1
      <4> QED BY <1>1, <1>5, <2>1, <2>4, <4>2 DEF Right, Keeps
    <3> QED BY <3>1, <3>2
  <2>10. Untouched(p, c, disk')
    BY <1>5 DEF Untouched
  <2> QED BY <2>5, <2>8, <2>9, <2>10
<1> QED BY <1>1, <1>3, <1>4, <1>5

-----------------------------------------------------------------------------
(* The steps of a call. *)

\* A call that goes on, with another result, error or number of attempts.
Like(c, e) ==
  /\ e.op = c.op /\ e.disk = c.disk /\ e.start = c.start /\ e.size = c.size /\ e.byte = c.byte
  /\ e.done = c.done /\ e.buff = c.buff /\ e.before = c.before /\ e.xfer = c.xfer /\ e.stale = c.stale

LEMMA LikeIsRight ==
  ASSUME NEW c, NEW e, Like(c, e), NEW image, NEW buffer, NEW p, NEW q, p # "next", q # "next"
  PROVE  /\ Keeps(c, image) => Keeps(e, image)
         /\ Untouched(p, c, image) => Untouched(q, e, image)
         /\ Done(p, c, image, buffer) => Done(q, e, image, buffer)
         /\ Transferred(c, image, buffer) => Transferred(e, image, buffer)
         /\ Shape(p, c) /\ e \in Calls => Shape(q, e)
<1>1. /\ Piece(e) = Piece(c) /\ Sector(e) = Sector(c) /\ Buffered(e) = Buffered(c)
      /\ Left(e) = Left(c) /\ InPart(e) = InPart(c)
  BY SamePiece DEF Like
<1>2. \A n, d, x : After(e, n, d, x) = After(c, n, d, x)
  BY DEF Like, After
<1>3. \A n : IsAfter(e, n, image) <=> IsAfter(c, n, image)
  BY <1>2 DEF IsAfter
<1>4. IsBetween(e, image) <=> IsBetween(c, image)
  BY <1>1, <1>2 DEF IsBetween, Like
<1>5. Keeps(c, image) => Keeps(e, image)
  BY DEF Keeps, Like
<1>6. Done(p, c, image, buffer) => Done(q, e, image, buffer)
  BY <1>1, <1>2, <1>3, <1>4 DEF Done, Like
<1>7. Transferred(c, image, buffer) => Transferred(e, image, buffer)
  BY <1>1, <1>3 DEF Transferred, Like
<1>8. Shape(p, c) /\ e \in Calls => Shape(q, e)
  BY <1>1 DEF Shape, Like
<1>9. Untouched(p, c, image) => Untouched(q, e, image)
  BY <1>3 DEF Untouched, Like
<1> QED BY <1>5, <1>6, <1>7, <1>8, <1>9

\* A call that goes on without a transfer.
LEMMA GoesOn ==
  ASSUME disk \in Images, disk_buff \in [SectorBytes -> Values],
         NEW c, NEW p \in InIO \cup InInt32, p # "next", Right(p, c, disk, disk_buff),
         NEW e \in Calls, Like(c, e), NEW q \in InIO \cup InInt32, q # "next",
         c.error => e.error,
         Erring(q, e),
         ~e.error /\ Succeeded(q, e) => Succeeded(p, c)
  PROVE  Right(q, e, disk, disk_buff)
<1>1. Shape(q, e) /\ Keeps(e, disk) /\ Untouched(q, e, disk)
  BY LikeIsRight DEF Right
<1>2. ~e.error => Done(q, e, disk, disk_buff)
  BY LikeIsRight DEF Right
<1>3. ~e.error /\ Succeeded(q, e) => Transferred(e, disk, disk_buff)
  BY LikeIsRight DEF Right
<1> QED BY <1>1, <1>2, <1>3 DEF Right

\* The level that runs is in a call.
LEMMA CallIsHere ==
  ASSUME LockInv, ResultInv, Active
  PROVE  /\ top \in Levels /\ call[top] \in Calls /\ Right(pc[top], call[top], disk, disk_buff)
         /\ \A e : Set(e) => call'[top] = e /\ DOMAIN call' = Levels
         /\ \A p : GoTo(p) => pc'[top] = p
BY DEF LockInv, LockType, ResultInv, Right, Shape, Set, GoTo

\* An ATA transfer is an attempt of its own.
LEMMA TryATAKeeps ==
  ASSUME LockInv, ResultInv, TryATA
  PROVE  ResultInv'
<1> DEFINE c == call[top]
<1>1. pc[top] = "try" /\ Active /\ top' = top /\ pc'[top] = "moved"
  BY CallIsHere DEF TryATA, Active, InIO
<1>2. PICK ok \in BOOLEAN : Transfer(c, ok) /\ Set([c EXCEPT !.ok = ok, !.error = @ \/ ~ok])
  BY DEF TryATA
<1> DEFINE e == [c EXCEPT !.ok = ok, !.error = @ \/ ~ok]
<1>3. /\ top \in Levels /\ c \in Calls /\ Right("try", c, disk, disk_buff)
      /\ call'[top] = e /\ DOMAIN call' = Levels
  BY <1>1, <1>2, CallIsHere
<1>4. /\ disk' \in Images /\ disk_buff' \in [SectorBytes -> Values]
      /\ Keeps(c, disk') /\ Untouched("try", c, disk')
      /\ ~c.error => /\ Done("try", c, disk', disk_buff')
                     /\ ok => Transferred(c, disk', disk_buff')
  BY <1>2, <1>3, TransferIsRight DEF ResultInv
<1>5. e \in Calls /\ Like(c, e) /\ e.ok = ok /\ e.error = (c.error \/ ~ok)
  BY <1>3 DEF Calls, Like
<1>6. Erring("moved", e)
  BY <1>3, <1>5 DEF Right, Erring, Like
<1> HIDE DEF e, c
<1>7. Shape("moved", e) /\ Keeps(e, disk') /\ Untouched("moved", e, disk')
  <2>1. Shape("try", c)
    BY <1>3 DEF Right
  <2> QED BY <1>4, <1>5, <2>1, LikeIsRight
<1>8. ~e.error => Done("moved", e, disk', disk_buff') /\ Transferred(e, disk', disk_buff')
  BY <1>3, <1>4, <1>5, LikeIsRight
<1>9. Right("moved", e, disk', disk_buff')
  BY <1>6, <1>7, <1>8 DEF Right
<1> QED BY <1>1, <1>3, <1>4, <1>9 DEF ResultInv, Active

\* The BIOS transfers a sector, or it resets the disk and transfers nothing.
LEMMA BiosKeeps ==
  ASSUME LockInv, ResultInv, Bios
  PROVE  ResultInv'
<1> DEFINE c == call[top]
<1>1. pc[top] = "bios" /\ Active /\ top' = top /\ pc'[top] = "deinhibit"
  BY CallIsHere DEF Bios, Active, InInt32
<1>2. PICK ok \in BOOLEAN : /\ IF c.bios = "transfer" THEN Transfer(c, ok) ELSE UNCHANGED data
                            /\ Set([c EXCEPT !.ok = ok])
  BY DEF Bios
<1> DEFINE e == [c EXCEPT !.ok = ok]
<1>3. /\ top \in Levels /\ c \in Calls /\ Right("bios", c, disk, disk_buff)
      /\ call'[top] = e /\ DOMAIN call' = Levels
  BY <1>1, <1>2, CallIsHere
<1>4. e \in Calls /\ Like(c, e) /\ e.ok = ok /\ e.error = c.error /\ e.bios = c.bios
  BY <1>3 DEF Calls, Like
<1>5. Erring("deinhibit", e)
  <2>1. Sector(e) = Sector(c)
    BY <1>4, SamePiece DEF Like
  <2> QED BY <1>3, <1>4, <2>1 DEF Right, Erring, Like
<1> HIDE DEF e, c
<1>6. CASE c.bios = "transfer"
  <2>1. /\ disk' \in Images /\ disk_buff' \in [SectorBytes -> Values]
        /\ Keeps(c, disk') /\ Untouched("bios", c, disk')
        /\ ~c.error => /\ Done("bios", c, disk', disk_buff')
                       /\ ok => Transferred(c, disk', disk_buff')
    BY <1>2, <1>3, <1>6, TransferIsRight DEF ResultInv
  <2>2. Shape("deinhibit", e) /\ Keeps(e, disk') /\ Untouched("deinhibit", e, disk')
    <3>1. Shape("bios", c)
      BY <1>3 DEF Right
    <3> QED BY <1>4, <2>1, <3>1, LikeIsRight
  <2>3. ~e.error => /\ Done("deinhibit", e, disk', disk_buff')
                    /\ ok => Transferred(e, disk', disk_buff')
    BY <1>3, <1>4, <2>1, LikeIsRight
  <2>4. Succeeded("deinhibit", e) => ok
    <3>1. Succeeded("deinhibit", e) => e.ok
      BY DEF Succeeded
    <3> QED BY <1>4, <3>1, Zenon
  <2>5. Right("deinhibit", e, disk', disk_buff')
    BY <1>5, <2>2, <2>3, <2>4 DEF Right
  <2> QED BY <1>1, <1>3, <2>1, <2>5 DEF ResultInv, Active
<1>7. CASE c.bios # "transfer"
  <2>1. disk' = disk /\ disk_buff' = disk_buff
    BY <1>2, <1>7 DEF data
  <2>2. Right("deinhibit", e, disk, disk_buff)
    BY <1>3, <1>4, <1>5, <1>7, GoesOn DEF ResultInv, Succeeded, InInt32
  <2> QED BY <1>1, <1>3, <2>1, <2>2 DEF ResultInv, Active
<1> QED BY <1>6, <1>7

\* Around the BIOS only the lock changes.
LEMMA Int32Keeps ==
  ASSUME LockInv, ResultInv, Int32Begins \/ lapic_deinhibit \/ Popfd \/ Int32Ends
  PROVE  ResultInv'
<1> DEFINE c == call[top]
<1>1. Active
  BY DEF Int32Begins, lapic_deinhibit, Popfd, Int32Ends, Active, InIO, InInt32
<1>2. UNCHANGED <<disk, disk_buff, call, top>>
  BY DEF Int32Begins, lapic_deinhibit, Popfd, Int32Ends, data
<1>3. PICK q \in {"bios", "popfd", "enable", "tried"} :
        /\ GoTo(q) /\ pc[top] \in {"try", "deinhibit", "popfd", "enable"}
        /\ pc[top] = "try" <=> q = "bios"
  BY DEF Int32Begins, lapic_deinhibit, Popfd, Int32Ends
<1>4. c \in Calls /\ Right(pc[top], c, disk, disk_buff) /\ pc'[top] = q
  BY <1>1, <1>3, CallIsHere
<1>5. Like(c, c) /\ Erring(q, c) /\ (Succeeded(q, c) => Succeeded(pc[top], c))
  BY <1>3, <1>4 DEF Like, Right, Erring, Succeeded
<1> HIDE DEF c
<1>6. Right(q, c, disk, disk_buff)
  BY <1>3, <1>4, <1>5, GoesOn DEF ResultInv, InIO, InInt32
<1> QED BY <1>2, <1>4, <1>6 DEF ResultInv, Active, c

\* A transfer is tried again, or it is the last one.
LEMMA TriedKeeps ==
  ASSUME LockInv, ResultInv, Tried
  PROVE  ResultInv'
<1> DEFINE c == call[top]
<1>1. pc[top] = "tried" /\ Active /\ UNCHANGED <<disk, disk_buff, top>>
  BY DEF Tried, Active, InIO, data
<1>2. c \in Calls /\ Right("tried", c, disk, disk_buff) /\ top \in Levels
  BY <1>1, CallIsHere
<1>3. PICK q, e :
        /\ pc'[top] = q /\ call'[top] = e /\ DOMAIN call' = Levels
        /\ \/ q = "moved" /\ e = c /\ c.ok /\ c.bios = "transfer"
           \/ /\ q = "try"
              /\ \E bios \in {"transfer", "reset"}, attempt \in Int :
                   e = [c EXCEPT !.bios = bios, !.attempt = attempt]
           \/ q = "moved" /\ e = [c EXCEPT !.error = TRUE] /\ ~c.ok
  <2>1. CASE GoTo("moved") /\ UNCHANGED call /\ c.ok /\ c.bios = "transfer"
    BY <1>1, <2>1, CallIsHere DEF ResultInv
  <2>2. ASSUME NEW bios \in {"transfer", "reset"}, NEW attempt \in Int, GoTo("try"),
               Set([c EXCEPT !.bios = bios, !.attempt = attempt])
        PROVE  /\ pc'[top] = "try" /\ DOMAIN call' = Levels
               /\ call'[top] = [c EXCEPT !.bios = bios, !.attempt = attempt]
    BY <1>1, <2>2, CallIsHere
  <2>3. CASE GoTo("moved") /\ Set([c EXCEPT !.error = TRUE]) /\ ~c.ok
    BY <1>1, <2>3, CallIsHere
  <2>4. c.attempt \in Int /\ c.attempt + 1 \in Int
    BY <1>2 DEF Calls
  <2>5. \/ GoTo("moved") /\ UNCHANGED call /\ c.ok /\ c.bios = "transfer"
        \/ \E bios \in {"transfer", "reset"}, attempt \in Int :
             GoTo("try") /\ Set([c EXCEPT !.bios = bios, !.attempt = attempt])
        \/ GoTo("moved") /\ Set([c EXCEPT !.error = TRUE]) /\ ~c.ok
    <3>1. \/ GoTo("moved") /\ UNCHANGED call /\ c.ok /\ c.bios = "transfer"
          \/ GoTo("try") /\ Set([c EXCEPT !.bios = "transfer", !.attempt = c.attempt])
          \/ GoTo("try") /\ Set([c EXCEPT !.bios = "reset", !.attempt = c.attempt + 1])
          \/ GoTo("moved") /\ Set([c EXCEPT !.error = TRUE]) /\ ~c.ok
      BY DEF Tried
    <3> HIDE DEF c
    <3> QED BY <2>4, <3>1
  <2>6. CASE \E bios \in {"transfer", "reset"}, attempt \in Int :
               GoTo("try") /\ Set([c EXCEPT !.bios = bios, !.attempt = attempt])
    <3> HIDE DEF c
    <3>1. PICK bios \in {"transfer", "reset"}, attempt \in Int :
            GoTo("try") /\ Set([c EXCEPT !.bios = bios, !.attempt = attempt])
      BY <2>6
    <3>2. /\ pc'[top] = "try" /\ DOMAIN call' = Levels
          /\ call'[top] = [c EXCEPT !.bios = bios, !.attempt = attempt]
      BY <2>2, <3>1
    <3> QED BY <3>2
  <2> QED BY <2>1, <2>3, <2>5, <2>6
<1> HIDE DEF c
<1>4. CASE q = "moved" /\ e = c /\ c.ok /\ c.bios = "transfer"
  <2>1. Like(c, c) /\ Erring("moved", c) /\ Succeeded("tried", c)
    BY <1>2, <1>4 DEF Like, Right, Erring, Succeeded
  <2>2. Right("moved", e, disk, disk_buff)
    BY <1>2, <1>4, <2>1, GoesOn DEF ResultInv, InIO
  <2> QED BY <1>1, <1>3, <1>4, <2>2 DEF ResultInv, Active
<1>5. CASE /\ q = "try"
           /\ \E bios \in {"transfer", "reset"}, attempt \in Int :
                e = [c EXCEPT !.bios = bios, !.attempt = attempt]
  <2>1. e \in Calls /\ Like(c, e) /\ e.error = c.error
    BY <1>2, <1>5 DEF Calls, Like
  <2>2. Sector(e) = Sector(c)
    BY <2>1, SamePiece DEF Like
  <2>3. Erring("try", e) /\ ~Succeeded("try", e)
    BY <1>2, <2>1, <2>2 DEF Right, Erring, Succeeded, Like
  <2>4. Right("try", e, disk, disk_buff)
    BY <1>2, <2>1, <2>3, GoesOn DEF ResultInv, InIO
  <2> QED BY <1>1, <1>3, <1>5, <2>4 DEF ResultInv, Active
<1>6. CASE q = "moved" /\ e = [c EXCEPT !.error = TRUE] /\ ~c.ok
  <2>1. e \in Calls /\ Like(c, e) /\ e.error /\ ~e.ok
    BY <1>2, <1>6 DEF Calls, Like
  <2>2. Erring("moved", e)
    BY <2>1 DEF Erring
  <2>3. Right("moved", e, disk, disk_buff)
    BY <1>2, <2>1, <2>2, GoesOn DEF ResultInv, InIO
  <2> QED BY <1>1, <1>3, <1>6, <2>3 DEF ResultInv, Active
<1> QED BY <1>3, <1>4, <1>5, <1>6

-----------------------------------------------------------------------------
(* Piece after piece. *)

\* A call that goes on with another transfer.
LEMMA Renewed ==
  ASSUME NEW c \in Calls, NEW x \in {"read", "write"}, NEW s \in SUBSET Int
  PROVE  /\ [c EXCEPT !.xfer = x, !.attempt = 0, !.bios = "transfer"] \in Calls
         /\ [c EXCEPT !.xfer = x, !.attempt = 0, !.bios = "transfer", !.stale = s] \in Calls
<1> DEFINE one   == [c EXCEPT !.xfer = x]
           two   == [one EXCEPT !.attempt = 0]
           three == [two EXCEPT !.bios = "transfer"]
           four  == [three EXCEPT !.stale = s]
<1>1. one \in Calls
  BY DEF Calls
<1>2. two \in Calls
  <2> HIDE DEF one
  <2> QED BY <1>1 DEF Calls
<1>3. three \in Calls
  <2> HIDE DEF two
  <2> QED BY <1>2 DEF Calls
<1>4. four \in Calls
  <2> HIDE DEF three
  <2> QED BY <1>3 DEF Calls
<1>5. [c EXCEPT !.xfer = x, !.attempt = 0, !.bios = "transfer"] = three
  OBVIOUS
<1>6. [c EXCEPT !.xfer = x, !.attempt = 0, !.bios = "transfer", !.stale = s] = four
  OBVIOUS
<1> QED BY <1>3, <1>4, <1>5, <1>6

\* A piece is chosen; its bytes, if it is written in one, are all the call's.
LEMMA NextPieceKeeps ==
  ASSUME LockInv, ResultInv, NextPiece
  PROVE  ResultInv'
<1> DEFINE c == call[top]
           write == c.op = "write" /\ ~InPart(c)
           e == [c EXCEPT !.xfer = IF write THEN "write" ELSE "read", !.attempt = 0, !.bios = "transfer"]
<1>1. /\ pc[top] = "next" /\ Active /\ UNCHANGED <<disk, top>>
      /\ Left(c) > 0 /\ ~c.error /\ Set(e) /\ GoTo("try")
      /\ disk_buff' = IF write /\ ViaBIOS(c) THEN [i \in SectorBytes |-> c.byte] ELSE disk_buff
  BY DEF NextPiece, Active, InIO
<1>2. /\ c \in Calls /\ Right("next", c, disk, disk_buff) /\ top \in Levels
      /\ pc'[top] = "try" /\ call'[top] = e /\ DOMAIN call' = Levels
  BY <1>1, CallIsHere
<1>3. /\ e \in Calls /\ ~e.error /\ e.xfer = IF write THEN "write" ELSE "read"
      /\ e.op = c.op /\ e.disk = c.disk /\ e.start = c.start /\ e.size = c.size /\ e.byte = c.byte
      /\ e.done = c.done /\ e.buff = c.buff /\ e.before = c.before /\ e.stale = c.stale
  <2> DEFINE xfer == IF write THEN "write" ELSE "read"
  <2>1. xfer \in {"read", "write"}
    OBVIOUS
  <2>2. e = [c EXCEPT !.xfer = xfer, !.attempt = 0, !.bios = "transfer"]
    OBVIOUS
  <2> HIDE DEF e, xfer, write
  <2>3. ~c.error /\ c \in Calls
    BY <1>1, <1>2
  <2> HIDE DEF c
  <2>4. /\ e \in Calls /\ ~e.error /\ e.xfer = xfer
        /\ e.op = c.op /\ e.disk = c.disk /\ e.start = c.start /\ e.size = c.size /\ e.byte = c.byte
        /\ e.done = c.done /\ e.buff = c.buff /\ e.before = c.before /\ e.stale = c.stale
    <3>1. e \in Calls
      BY <2>1, <2>2, <2>3, Renewed
    <3>2. /\ ~e.error /\ e.xfer = xfer
          /\ e.op = c.op /\ e.disk = c.disk /\ e.start = c.start /\ e.size = c.size /\ e.byte = c.byte
          /\ e.done = c.done /\ e.buff = c.buff /\ e.before = c.before /\ e.stale = c.stale
      BY <2>2, <2>3 DEF Calls
    <3> QED BY <3>1, <3>2
  <2> QED BY <2>4 DEF xfer
<1> HIDE DEF c, e
<1>4. /\ Piece(e) = Piece(c) /\ Sector(e) = Sector(c) /\ Offset(e) = Offset(c)
      /\ Buffered(e) = Buffered(c) /\ Left(e) = Left(c) /\ InPart(e) = InPart(c) /\ ViaBIOS(e) = ViaBIOS(c)
  BY <1>3, SamePiece
<1>5. Shape("try", e) /\ Left(e) > 0
  BY <1>1, <1>2, <1>3, <1>4 DEF Right, Shape
<1>6. \A n, d, x : After(e, n, d, x) = After(c, n, d, x)
  BY <1>3 DEF After
<1>7. IsAfter(e, e.done, disk)
  BY <1>1, <1>2, <1>3, <1>6 DEF Right, Done, IsAfter
<1>8. disk_buff' \in [SectorBytes -> Values]
  <2>1. c.byte \in Values
    BY <1>2 DEF Calls, Values
  <2> QED BY <1>1, <2>1 DEF ResultInv
<1>9. ASSUME e.xfer = "write", NEW i \in SectorBytes
      PROVE  (IF Buffered(e) THEN disk_buff'[i] ELSE e.byte) = After(e, e.done + Piece(e), e.disk, Sector(e) + i)
  <2>1. write /\ ~InPart(e) /\ e.op = "write"
    BY <1>3, <1>4, <1>9
  <2>2. (IF Buffered(e) THEN disk_buff'[i] ELSE e.byte) = e.byte
    BY <1>1, <1>3, <1>4, <1>9, <2>1 DEF Buffered
  <2>3. Offset(e) = 0 /\ Piece(e) = DISK_SECTOR_SIZE /\ Left(e) > 0
    BY <1>5, <2>1, Pieces
  <2>4. i \in Offset(e) .. Offset(e) + Piece(e) - 1
    BY <2>3, DiskIOAssumption DEF SectorBytes
  <2> QED BY <1>5, <2>1, <2>2, <2>4, PieceIsNew
<1>10. Done("try", e, disk, disk_buff')
  <2>1. e.op = "read" => \A i \in 0 .. e.done - 1 : e.buff[i] = disk[e.disk][e.start + i]
    BY <1>1, <1>2, <1>3 DEF Right, Done
  <2>2. IsBetween(e, disk)
    BY <1>7 DEF IsAfter, IsBetween
  <2> QED BY <1>7, <1>9, <2>1, <2>2 DEF Done
<1>11. Keeps(e, disk)
  BY <1>2, <1>3 DEF Right, Keeps
<1>12. Right("try", e, disk, disk_buff')
  BY <1>3, <1>5, <1>7, <1>10, <1>11 DEF Right, Erring, Succeeded, Untouched
<1> QED BY <1>1, <1>2, <1>8, <1>12 DEF ResultInv, Active

\* A piece that was read is copied from the sector, or it was read in its place.
LEMMA PieceReadKeeps ==
  ASSUME LockInv, ResultInv, PieceRead
  PROVE  ResultInv'
<1> DEFINE c == call[top]
           e == [c EXCEPT !.buff = IF InPart(c) \/ c.ok THEN Got(c) ELSE @, !.done = @ + Piece(c)]
<1>1. /\ pc[top] = "moved" /\ Active /\ UNCHANGED <<disk, disk_buff, top>>
      /\ c.op = "read" /\ Set(e) /\ GoTo("next")
  BY DEF PieceRead, Active, InIO, data
<1>2. /\ c \in Calls /\ Right("moved", c, disk, disk_buff) /\ top \in Levels
      /\ pc'[top] = "next" /\ call'[top] = e /\ DOMAIN call' = Levels
  BY <1>1, CallIsHere
<1>3. /\ Shape("moved", c) /\ Left(c) > 0 /\ c.xfer = "read" /\ c.disk \in Disks
      /\ c.start \in Nat /\ c.done \in Nat /\ c.size \in Nat
      /\ c.done <= c.size /\ c.start + c.size <= NBytes
      /\ c.buff \in [0 .. c.size - 1 -> Values]
  BY <1>1, <1>2 DEF Right, Shape, Calls
<1> HIDE DEF c
<1>4. /\ Here(c) = c.start + c.done /\ Here(c) \in Nat /\ Sector(c) = Here(c) - Offset(c)
      /\ Offset(c) \in Nat /\ DISK_SECTOR_SIZE \in Nat /\ Piece(c) \in 1 .. DISK_SECTOR_SIZE - Offset(c)
      /\ Piece(c) \in Nat /\ c.done + Piece(c) <= c.size
  <2>1. /\ Here(c) = c.start + c.done /\ Here(c) \in Nat /\ Sector(c) = Here(c) - Offset(c)
        /\ Offset(c) \in SectorBytes /\ Piece(c) \in 1 .. DISK_SECTOR_SIZE - Offset(c)
        /\ c.done + Piece(c) <= c.size
    BY <1>3, Pieces
  <2> QED BY <2>1, DiskIOAssumption DEF SectorBytes
<1>5. ASSUME NEW i \in c.done .. c.done + Piece(c) - 1
      PROVE  /\ (c.start + i) % DISK_SECTOR_SIZE \in SectorBytes
             /\ c.start + i = Sector(c) + ((c.start + i) % DISK_SECTOR_SIZE)
             /\ c.start + i \in 0 .. NBytes - 1
  BY <1>3, ByteOfPiece
<1>6. Got(c) \in [0 .. c.size - 1 -> Values]
  <2>1. \A i \in c.done .. c.done + Piece(c) - 1 :
          /\ disk_buff[(c.start + i) % DISK_SECTOR_SIZE] \in Values
          /\ disk[c.disk][c.start + i] \in Values
    BY <1>3, <1>5 DEF ResultInv, Images
  <2> QED BY <1>3, <2>1 DEF Got
<1>7. ASSUME ~c.error, NEW i \in 0 .. c.done + Piece(c) - 1
      PROVE  Got(c)[i] = disk[c.disk][c.start + i]
  <2>1. i \in 0 .. c.size - 1
    <3>1. /\ c.done \in Nat /\ Piece(c) \in Nat /\ c.size \in Nat
          /\ c.done + Piece(c) <= c.size
      BY <1>3, <1>4
    <3> QED BY <3>1
  <2>2. Got(c)[i] = IF i \notin c.done .. c.done + Piece(c) - 1 THEN c.buff[i]
                    ELSE IF Buffered(c) THEN disk_buff[(c.start + i) % DISK_SECTOR_SIZE]
                    ELSE disk[c.disk][c.start + i]
    BY <1>3, <2>1 DEF Got
  <2>3. CASE i \in c.done .. c.done + Piece(c) - 1
    <3>1. Succeeded("moved", c) /\ Transferred(c, disk, disk_buff)
      BY <1>2, <1>7 DEF Right, Succeeded
    <3>2. Buffered(c) => \A k \in SectorBytes : disk_buff[k] = disk[c.disk][Sector(c) + k]
      BY <1>3, <3>1 DEF Transferred
    <3> QED BY <1>5, <2>2, <2>3, <3>2
  <2>4. CASE i \notin c.done .. c.done + Piece(c) - 1
    <3>1. i \in 0 .. c.done - 1
      <4>1. c.done \in Nat /\ Piece(c) \in Nat
        BY <1>3, <1>4
      <4> QED BY <2>4, <4>1
    <3> QED BY <1>1, <1>2, <1>7, <2>2, <2>4, <3>1 DEF Right, Done
  <2> QED BY <2>3, <2>4
<1>8. /\ e \in Calls /\ e.buff = (IF InPart(c) \/ c.ok THEN Got(c) ELSE c.buff) /\ e.done = c.done + Piece(c)
      /\ e.error = c.error /\ e.op = c.op /\ e.disk = c.disk /\ e.start = c.start /\ e.size = c.size
      /\ e.byte = c.byte /\ e.before = c.before /\ e.stale = c.stale
  <2>1. c.done + Piece(c) \in Nat
    BY <1>3, <1>4
  <2>2. Got(c) \in Memories
    BY <1>3, <1>6 DEF Memories
  <2> QED BY <1>2, <2>1, <2>2 DEF Calls
<1> HIDE DEF e
<1>9. Shape("next", e)
  BY <1>3, <1>4, <1>6, <1>8 DEF Shape
<1>10. Keeps(e, disk)
  BY <1>2, <1>8 DEF Right, Keeps
<1>11. ASSUME ~e.error PROVE Done("next", e, disk, disk_buff)
  <2>1. e.buff = Got(c)
    BY <1>2, <1>3, <1>8, <1>11 DEF Right, Erring
  <2>2. \A i \in 0 .. e.done - 1 : e.buff[i] = disk[e.disk][e.start + i]
    <3>1. ~c.error
      BY <1>8, <1>11, Zenon
    <3>2. \A i \in 0 .. c.done + Piece(c) - 1 : Got(c)[i] = disk[c.disk][c.start + i]
      BY <1>7, <3>1
    <3>3. /\ e.done = c.done + Piece(c) /\ e.buff = Got(c) /\ e.disk = c.disk /\ e.start = c.start
          /\ c.done \in Int /\ Piece(c) \in Int /\ e.done \in Int
      BY <1>3, <1>4, <1>8, <2>1
    <3>4. 0 .. e.done - 1 = 0 .. c.done + Piece(c) - 1
      BY <3>3
    <3> QED BY <3>2, <3>3, <3>4, Zenon
  <2>3. IsAfter(e, e.done, disk)
    BY <1>1, <1>2, <1>3, <1>8, <1>11 DEF Right, Done, IsAfter, After
  <2> QED BY <2>2, <2>3 DEF Done
<1>12. Right("next", e, disk, disk_buff)
  BY <1>9, <1>10, <1>11 DEF Right, Erring, Succeeded, Untouched
<1> QED BY <1>1, <1>2, <1>12 DEF ResultInv, Active

\* The sector that a piece is a part of was read, or it is stale.
LEMMA MergeKeeps ==
  ASSUME LockInv, ResultInv, Merge
  PROVE  ResultInv'
<1> DEFINE c == call[top]
           e == [c EXCEPT !.xfer = "write", !.attempt = 0, !.bios = "transfer",
                          !.stale = IF c.ok THEN {} ELSE {Sector(c) + i : i \in SectorBytes}]
<1>1. /\ pc[top] = "moved" /\ Active /\ UNCHANGED <<disk, top>>
      /\ c.op = "write" /\ c.xfer = "read" /\ Set(e) /\ GoTo("try")
      /\ disk_buff' = [i \in SectorBytes |->
                         IF i \in Offset(c) .. Offset(c) + Piece(c) - 1 THEN c.byte ELSE disk_buff[i]]
  BY DEF Merge, Active, InIO
<1>2. /\ c \in Calls /\ Right("moved", c, disk, disk_buff) /\ top \in Levels
      /\ pc'[top] = "try" /\ call'[top] = e /\ DOMAIN call' = Levels
  BY <1>1, CallIsHere
<1>3. /\ Shape("moved", c) /\ Left(c) > 0 /\ InPart(c) /\ c.byte \in Bytes /\ (c.error <=> ~c.ok)
      /\ Buffered(c)
  BY <1>1, <1>2 DEF Right, Shape, Calls, Erring, Buffered
<1>4. disk_buff' \in [SectorBytes -> Values]
  BY <1>1, <1>3 DEF ResultInv, Values
<1>5. /\ e \in Calls /\ e.xfer = "write" /\ e.error = c.error
      /\ e.stale = (IF c.ok THEN {} ELSE {Sector(c) + i : i \in SectorBytes})
      /\ e.op = c.op /\ e.disk = c.disk /\ e.start = c.start /\ e.size = c.size /\ e.byte = c.byte
      /\ e.done = c.done /\ e.buff = c.buff /\ e.before = c.before
  <2>1. {Sector(c) + i : i \in SectorBytes} \in SUBSET Int
    <3>1. Sector(c) \in Nat /\ DISK_SECTOR_SIZE \in Nat
      BY <1>3, Pieces, DiskIOAssumption
    <3> QED BY <3>1 DEF SectorBytes
  <2> DEFINE stale == IF c.ok THEN {} ELSE {Sector(c) + i : i \in SectorBytes}
  <2>2. stale \in SUBSET Int
    BY <2>1
  <2>3. e = [c EXCEPT !.xfer = "write", !.attempt = 0, !.bios = "transfer", !.stale = stale]
    OBVIOUS
  <2>4. c \in Calls
    BY <1>2
  <2> HIDE DEF e, stale, c
  <2>5. /\ e \in Calls /\ e.xfer = "write" /\ e.error = c.error /\ e.stale = stale
        /\ e.op = c.op /\ e.disk = c.disk /\ e.start = c.start /\ e.size = c.size /\ e.byte = c.byte
        /\ e.done = c.done /\ e.buff = c.buff /\ e.before = c.before
    <3>1. e \in Calls
      BY <2>2, <2>3, <2>4, Renewed
    <3>2. /\ e.xfer = "write" /\ e.error = c.error /\ e.stale = stale
          /\ e.op = c.op /\ e.disk = c.disk /\ e.start = c.start /\ e.size = c.size /\ e.byte = c.byte
          /\ e.done = c.done /\ e.buff = c.buff /\ e.before = c.before
      BY <2>3, <2>4 DEF Calls
    <3> QED BY <3>1, <3>2
  <2> QED BY <2>5 DEF stale
<1> HIDE DEF c, e
<1>6. /\ Piece(e) = Piece(c) /\ Sector(e) = Sector(c) /\ Buffered(e) = Buffered(c) /\ Left(e) = Left(c)
      /\ InPart(e) = InPart(c)
  BY <1>5, SamePiece
<1>7. Shape("try", e)
  BY <1>1, <1>3, <1>5, <1>6 DEF Shape
<1>8. Erring("try", e)
  BY <1>3, <1>5, <1>6 DEF Erring
<1>9. ASSUME NEW d \in Disks, NEW x \in 0 .. NBytes - 1, disk[d][x] # c.before[d][x]
      PROVE  d = c.disk /\ x \in c.start .. c.start + c.size - 1
  <2>1. disk[d][x] = After(c, c.done, d, x)
    BY <1>1, <1>2 DEF Right, Untouched, IsAfter
  <2> QED BY <1>1, <1>3, <1>9, <2>1, PieceAfter
<1>10. Keeps(e, disk) /\ Untouched("try", e, disk)
  BY <1>1, <1>5, <1>9 DEF Keeps, Untouched
<1>11. ASSUME ~e.error PROVE Done("try", e, disk, disk_buff')
  <2>1. \A n, d, x : After(e, n, d, x) = After(c, n, d, x)
    BY <1>5 DEF After
  <2>2. IsAfter(c, c.done, disk) /\ Transferred(c, disk, disk_buff)
    BY <1>1, <1>2, <1>5, <1>11 DEF Right, Done, Succeeded
  <2>3. IsBetween(e, disk)
    BY <1>5, <2>1, <2>2 DEF IsAfter, IsBetween
  <2>4. ASSUME NEW i \in SectorBytes
        PROVE  disk_buff'[i] = After(c, c.done + Piece(c), c.disk, Sector(c) + i)
    <3>1. Sector(c) + i \in 0 .. NBytes - 1 /\ c.disk \in Disks
      <4>1. Sector(c) \in Nat /\ Sector(c) + DISK_SECTOR_SIZE <= NBytes
        BY <1>3, Pieces
      <4>2. c.disk \in Disks
        BY <1>2 DEF Calls
      <4> QED BY <4>1, <4>2, DiskIOAssumption DEF SectorBytes
    <3>2. disk_buff[i] = After(c, c.done, c.disk, Sector(c) + i)
      BY <1>1, <1>3, <2>2, <3>1 DEF Transferred, IsAfter
    <3>3. disk_buff'[i] = IF i \in Offset(c) .. Offset(c) + Piece(c) - 1 THEN c.byte ELSE disk_buff[i]
      BY <1>1
    <3> QED BY <1>1, <1>3, <3>2, <3>3, PieceIsNew
  <2> QED BY <1>1, <1>3, <1>5, <1>6, <2>1, <2>3, <2>4 DEF Done
<1>12. Right("try", e, disk, disk_buff')
  BY <1>7, <1>8, <1>10, <1>11 DEF Right, Succeeded
<1> QED BY <1>1, <1>2, <1>4, <1>12 DEF ResultInv, Active

\* A piece that was written is done.
LEMMA PieceWrittenKeeps ==
  ASSUME LockInv, ResultInv, PieceWritten
  PROVE  ResultInv'
<1> DEFINE c == call[top]
           e == [c EXCEPT !.done = @ + Piece(c)]
<1>1. /\ pc[top] = "moved" /\ Active /\ UNCHANGED <<disk, disk_buff, top>>
      /\ c.op = "write" /\ c.xfer = "write" /\ Set(e) /\ GoTo("next")
  BY DEF PieceWritten, Active, InIO, data
<1>2. /\ c \in Calls /\ Right("moved", c, disk, disk_buff) /\ top \in Levels
      /\ pc'[top] = "next" /\ call'[top] = e /\ DOMAIN call' = Levels
  BY <1>1, CallIsHere
<1>3. /\ c.done + Piece(c) \in Nat /\ c.done + Piece(c) <= c.size
  <2>1. Shape("moved", c) /\ Left(c) > 0 /\ c.done \in Nat
    BY <1>2 DEF Right, Shape, Calls
  <2>2. Piece(c) \in 1 .. DISK_SECTOR_SIZE - Offset(c) /\ c.done + Piece(c) <= c.size
    BY <2>1, Pieces
  <2> QED BY <2>1, <2>2
<1>4. /\ e \in Calls /\ e.done = c.done + Piece(c) /\ e.error = c.error
      /\ e.op = c.op /\ e.disk = c.disk /\ e.start = c.start /\ e.size = c.size
      /\ e.byte = c.byte /\ e.buff = c.buff /\ e.before = c.before /\ e.stale = c.stale
  BY <1>2, <1>3 DEF Calls
<1> HIDE DEF c, e
<1>5. Shape("next", e) /\ Keeps(e, disk)
  BY <1>2, <1>3, <1>4 DEF Right, Shape, Keeps
<1>6. ASSUME ~e.error PROVE Done("next", e, disk, disk_buff)
  <2>1. IsAfter(c, c.done + Piece(c), disk)
    BY <1>1, <1>2, <1>4, <1>6 DEF Right, Succeeded, Transferred
  <2>2. IsAfter(e, e.done, disk)
    BY <1>4, <2>1 DEF IsAfter, After
  <2> QED BY <1>1, <1>4, <2>2 DEF Done
<1>7. Right("next", e, disk, disk_buff)
  BY <1>5, <1>6 DEF Right, Erring, Succeeded, Untouched
<1> QED BY <1>1, <1>2, <1>7 DEF ResultInv, Active

-----------------------------------------------------------------------------
(* The beginning and the end of a call, and what runs outside of one. *)

\* Nothing is done yet.
LEMMA IOBeginsKeeps ==
  ASSUME LockInv, ResultInv, NEW r \in Requests, IOBegins(r)
  PROVE  ResultInv'
<1> DEFINE c == NewCall(r)
<1>1. /\ top \in Levels /\ UNCHANGED <<disk, disk_buff, top>>
      /\ pc'[top] = "next" /\ call'[top] = c /\ DOMAIN call' = Levels
  BY DEF IOBegins, LockInv, LockType, ResultInv, data, Set, GoTo
<1>2. /\ r.op \in {"read", "write"} /\ r.disk \in Disks /\ r.byte \in Bytes
      /\ r.start \in Nat /\ r.size \in Nat /\ r.start + r.size <= NBytes
  BY DiskIOAssumption
<1>3. /\ c.op = r.op /\ c.disk = r.disk /\ c.start = r.start /\ c.size = r.size /\ c.byte = r.byte
      /\ c.done = 0 /\ c.error = FALSE /\ c.buff = [i \in 0 .. r.size - 1 |-> r.byte] /\ c.before = disk
  BY DEF NewCall
<1>4. [i \in 0 .. r.size - 1 |-> r.byte] \in [0 .. r.size - 1 -> Values]
  BY <1>2 DEF Values
<1>5. c \in Calls
  <2>1. [i \in 0 .. r.size - 1 |-> r.byte] \in Memories
    BY <1>2, <1>4 DEF Memories
  <2>2. disk \in Images
    BY DEF ResultInv
  <2> QED BY <1>2, <2>1, <2>2 DEF NewCall, Calls
<1> HIDE DEF c
<1>6. Shape("next", c)
  BY <1>2, <1>3, <1>4, <1>5 DEF Shape
<1>7. Keeps(c, disk) /\ IsAfter(c, c.done, disk)
  <2>1. c.start .. c.start + c.done - 1 = {}
    BY <1>2, <1>3
  <2> QED BY <1>3, <2>1 DEF Keeps, IsAfter, After
<1>8. Done("next", c, disk, disk_buff)
  BY <1>3, <1>7 DEF Done
<1>9. Right("next", c, disk, disk_buff)
  BY <1>6, <1>7, <1>8 DEF Right, Erring, Untouched, Succeeded
<1> QED BY <1>1, <1>9 DEF ResultInv, Active

\* Code that is in no call leaves disks and buffer alone.
LEMMA OthersKeep ==
  ASSUME LockInv, ResultInv,
         \/ IOEnds \/ NothingToRead \/ PlayEnds \/ lapic_eoi \/ SoundLeaves \/ SoundBegins \/ Iret
         \/ \E h \in Handlers : Interrupt(h)
  PROVE  ResultInv'
<1>1. disk' = disk /\ disk_buff' = disk_buff /\ DOMAIN call' = Levels
  BY DEF IOEnds, NothingToRead, PlayEnds, lapic_eoi, SoundLeaves, SoundBegins, Iret, Interrupt,
         data, Set, ResultInv
<1>2. top \in Levels /\ pc \in [Levels -> PCs] /\ back \in [Levels -> {"start", "close"}]
  BY DEF LockInv, LockType
<1>3. CASE IOEnds \/ NothingToRead \/ PlayEnds \/ lapic_eoi \/ SoundLeaves \/ SoundBegins
  <2>1. top' = top /\ \E q \in {"start", "close", "iret", "leave", "sound"} : GoTo(q)
    BY <1>2, <1>3 DEF IOEnds, NothingToRead, PlayEnds, lapic_eoi, SoundLeaves, SoundBegins
  <2>2. pc'[top'] \in {"start", "close", "iret", "leave", "sound"}
    BY <1>2, <2>1 DEF GoTo
  <2>3. ~Active'
    BY <2>2 DEF Active, InIO, InInt32
  <2> QED BY <1>1, <2>3 DEF ResultInv
<1>4. CASE Iret
  <2>1. /\ top - 1 \in 0 .. top - 1 /\ top - 1 \in Levels /\ top' = top - 1
        /\ pc' = [pc EXCEPT ![top] = "start"] /\ pc[top - 1] \in Unlocked
    BY <1>2, <1>4, LevelAssumption DEF Iret, GoTo, LockInv, WhereItIs, Levels
  <2>2. pc'[top'] \in Unlocked
    BY <1>2, <2>1, LevelAssumption DEF Levels
  <2>3. ~Active'
    BY <2>2 DEF Active, InIO, InInt32, Unlocked
  <2> QED BY <1>1, <2>3 DEF ResultInv
<1>5. CASE \E h \in Handlers : Interrupt(h)
  <2>1. top' = top + 1 /\ top + 1 \in Levels /\ pc' = [pc EXCEPT ![top + 1] = "start"]
    BY <1>2, <1>5, LevelAssumption DEF Interrupt, Levels
  <2>2. pc'[top'] = "start"
    BY <1>2, <2>1
  <2>3. ~Active'
    BY <2>2 DEF Active, InIO, InInt32
  <2> QED BY <1>1, <2>3 DEF ResultInv
<1> QED BY <1>3, <1>4, <1>5

LEMMA ResultInit == Init => ResultInv
<1> SUFFICES ASSUME Init PROVE ResultInv
  OBVIOUS
<1>1. disk \in Images /\ disk_buff \in [SectorBytes -> Values]
  BY DEF Init, Images, Values, AllBytes
<1>2. pc[top] = "start"
  BY LevelAssumption DEF Init, Levels
<1>3. DOMAIN call = Levels
  BY DEF Init
<1> QED BY <1>1, <1>2, <1>3 DEF ResultInv, Active, InIO, InInt32

LEMMA ResultStep ==
  ASSUME LockInv, ResultInv, [Next]_vars
  PROVE  ResultInv'
<1>1. CASE NextPiece
  BY <1>1, NextPieceKeeps
<1>2. CASE TryATA
  BY <1>2, TryATAKeeps
<1>3. CASE Int32Begins \/ lapic_deinhibit \/ Popfd \/ Int32Ends
  BY <1>3, Int32Keeps
<1>4. CASE Bios
  BY <1>4, BiosKeeps
<1>5. CASE Tried
  BY <1>5, TriedKeeps
<1>6. CASE PieceRead
  BY <1>6, PieceReadKeeps
<1>7. CASE Merge
  BY <1>7, MergeKeeps
<1>8. CASE PieceWritten
  BY <1>8, PieceWrittenKeeps
<1>9. CASE \E r \in Requests : IOBegins(r)
  BY <1>9, IOBeginsKeeps
<1>10. CASE \/ IOEnds \/ NothingToRead \/ PlayEnds \/ lapic_eoi \/ SoundLeaves \/ SoundBegins \/ Iret
            \/ \E h \in Handlers : Interrupt(h)
  BY <1>10, OthersKeep
<1>11. CASE UNCHANGED vars
  BY <1>11 DEF vars, ResultInv, Active
<1> QED
  BY <1>1, <1>2, <1>3, <1>4, <1>5, <1>6, <1>7, <1>8, <1>9, <1>10, <1>11 DEF Next, Continue, Begin

-----------------------------------------------------------------------------
(* The theorems: for a BIOS that returns with interrupts off. *)

LEMMA ResultsHold == BiosFlags = {FALSE} => (Spec => [](LockInv /\ ResultInv))
<1> SUFFICES ASSUME BiosFlags = {FALSE} PROVE Spec => [](LockInv /\ ResultInv)
  OBVIOUS
<1>1. Init => LockInv /\ ResultInv
  BY InitLock, ResultInit
<1>2. LockInv /\ ResultInv /\ [Next]_vars => (LockInv /\ ResultInv)'
  BY NextLock, ResultStep
<1> QED BY <1>1, <1>2, PTL DEF Spec

LEMMA SameEverywhere ==
  ASSUME NEW S, NEW T, NEW f \in [S -> T], NEW g \in [S -> T], \A x \in S : f[x] = g[x]
  PROVE  f = g
OBVIOUS

LEMMA SameImage ==
  ASSUME NEW f \in Images, NEW g \in Images, NEW d \in Disks,
         \A x \in 0 .. NBytes - 1 : f[d][x] = g[d][x]
  PROVE  f[d] = g[d]
<1> DEFINE S == 0 .. NBytes - 1
           a == f[d]
           b == g[d]
<1>1. a \in [S -> Values] /\ b \in [S -> Values] /\ \A x \in S : a[x] = b[x]
  BY DEF Images
<1> HIDE DEF a, b, S
<1>2. a = b
  BY <1>1, SameEverywhere
<1> QED BY <1>2 DEF a, b

\* Below the level that runs no level is in a call.
LEMMA OnlyTheTop ==
  ASSUME LockInv, NEW l \in 0 .. top, pc[l] \in InIO \cup InInt32
  PROVE  l = top
BY DEF LockInv, LockType, WhereItIs, Levels, Unlocked, InIO, InInt32

\* Flags are on or off.
Switches == {int_flag, inhibited, in_service} \subseteq BOOLEAN

LEMMA SwitchesStep == Switches /\ [Next]_vars => Switches'
<1> SUFFICES ASSUME Switches, [Next]_vars PROVE Switches'
  OBVIOUS
<1>1. int_flag' \in BOOLEAN
  BY DiskIOAssumption
     DEF Switches, vars, Next, Continue, Begin, NextPiece, TryATA, Int32Begins, Bios, lapic_deinhibit,
         Popfd, Int32Ends, Tried, PieceRead, Merge, PieceWritten, IOEnds, NothingToRead, PlayEnds,
         lapic_eoi, SoundLeaves, Iret, SoundBegins, IOBegins, Interrupt, lock,
         enable_interrupts, disable_interrupts
<1>2. inhibited' \in BOOLEAN /\ in_service' \in BOOLEAN
  BY DEF Switches, vars, Next, Continue, Begin, NextPiece, TryATA, Int32Begins, Bios, lapic_deinhibit,
         Popfd, Int32Ends, Tried, PieceRead, Merge, PieceWritten, IOEnds, NothingToRead, PlayEnds,
         lapic_eoi, SoundLeaves, Iret, SoundBegins, IOBegins, Interrupt, lapic
<1> QED BY <1>1, <1>2 DEF Switches

\* Disks, buffer, lock, interrupt controller and levels keep their types: in particular
\* no transfer of a sector overruns disk_buff (hwio.c:671) or the disk.
THEOREM DiskTypeCorrect == BiosFlags = {FALSE} => (Spec => []TypeOK)
<1> SUFFICES ASSUME BiosFlags = {FALSE} PROVE Spec => []TypeOK
  OBVIOUS
<1>1. Init => Switches
  BY DEF Init, Switches
<1>2. LockInv /\ ResultInv /\ Switches => TypeOK
  BY DEF LockInv, LockType, ResultInv, Switches, TypeOK, Images, Values, PCs
<1>3. Spec => [](LockInv /\ ResultInv)
  BY ResultsHold
<1> QED BY <1>1, <1>2, <1>3, SwitchesStep, PTL DEF Spec

\* io_disk_read and io_disk_write (hwio.c:1118 and 1258): a call that returns success has
\* read what the disk holds or written what it was given and nothing else, in however many
\* pieces and attempts, and whatever handlers used disk_buff before it.
THEOREM SuccessIsTrue == BiosFlags = {FALSE} => (Spec => []ResultsAreTrue)
<1> SUFFICES ASSUME BiosFlags = {FALSE} PROVE Spec => []ResultsAreTrue
  OBVIOUS
<1>1. ASSUME LockInv, ResultInv PROVE ResultsAreTrue
  <2> SUFFICES ASSUME NEW l \in 0 .. top, pc[l] = "next", AtEnd(call[l]), ~call[l].error
               PROVE  LET c == call[l] IN
                        IF c.op = "read"
                        THEN /\ disk = c.before
                             /\ \A i \in 0 .. c.size - 1 : c.buff[i] = disk[c.disk][c.start + i]
                        ELSE disk = [c.before EXCEPT ![c.disk] = [x \in DOMAIN @ |->
                               IF x \in c.start .. c.start + c.size - 1 THEN c.byte ELSE @[x]]]
    BY DEF ResultsAreTrue
  <2> DEFINE c == call[l]
  <2>1. l = top /\ Active
    BY <1>1, OnlyTheTop DEF Active, InIO
  <2>2. Right("next", c, disk, disk_buff)
    BY <1>1, <2>1 DEF ResultInv
  <2>3. /\ c.op \in {"read", "write"} /\ c.disk \in Disks /\ c.before \in Images /\ disk \in Images
        /\ c.done = c.size
    BY <1>1, <2>2 DEF Right, Shape, Calls, ResultInv, AtEnd, Left
  <2>4. Done("next", c, disk, disk_buff) /\ IsAfter(c, c.size, disk)
    BY <2>2, <2>3 DEF Right, Done
  <2> HIDE DEF c
  <2>5. CASE c.op = "read"
    <3>1. \A d \in Disks, x \in 0 .. NBytes - 1 : disk[d][x] = c.before[d][x]
      BY <2>4, <2>5 DEF IsAfter, After
    <3>2. disk = c.before
      <4>1. \A d \in Disks : disk[d] = c.before[d]
        BY <2>3, <3>1, SameImage
      <4> QED BY <2>3, <4>1, SameEverywhere DEF Images
    <3>3. \A i \in 0 .. c.size - 1 : c.buff[i] = disk[c.disk][c.start + i]
      BY <2>3, <2>4, <2>5 DEF Done
    <3> QED BY <2>5, <3>2, <3>3 DEF c
  <2>6. CASE c.op = "write"
    <3> DEFINE image == [x \in DOMAIN c.before[c.disk] |->
                          IF x \in c.start .. c.start + c.size - 1 THEN c.byte ELSE c.before[c.disk][x]]
    <3>1. c.before[c.disk] \in [0 .. NBytes - 1 -> Values] /\ disk[c.disk] \in [0 .. NBytes - 1 -> Values]
      BY <2>3 DEF Images
    <3>2. \A x \in 0 .. NBytes - 1 :
            disk[c.disk][x] = IF x \in c.start .. c.start + c.size - 1 THEN c.byte ELSE c.before[c.disk][x]
      BY <2>3, <2>4, <2>6 DEF IsAfter, After
    <3>3. image = disk[c.disk]
      BY <3>1, <3>2
    <3> HIDE DEF image
    <3>4. \A d \in Disks : d # c.disk => disk[d] = c.before[d]
      <4> SUFFICES ASSUME NEW d \in Disks, d # c.disk PROVE disk[d] = c.before[d]
        OBVIOUS
      <4>1. \A x \in 0 .. NBytes - 1 : disk[d][x] = c.before[d][x]
        BY <2>4 DEF IsAfter, After
      <4> QED BY <2>3, <4>1, SameImage
    <3>5. disk = [c.before EXCEPT ![c.disk] = image]
      BY <2>3, <3>3, <3>4 DEF Images
    <3> QED BY <2>6, <3>5 DEF c, image
  <2> QED BY <2>3, <2>5, <2>6
<1>2. Spec => [](LockInv /\ ResultInv)
  BY ResultsHold
<1> QED BY <1>1, <1>2, PTL

\* A call that fails keeps every byte outside its range too, unless a sector of which it
\* was to write a part could not be read (hwio.c:1307).
THEOREM FailureKeepsTheRest == BiosFlags = {FALSE} => (Spec => []FailuresKeepTheRest)
<1> SUFFICES ASSUME BiosFlags = {FALSE} PROVE Spec => []FailuresKeepTheRest
  OBVIOUS
<1>1. ASSUME LockInv, ResultInv PROVE FailuresKeepTheRest
  <2> SUFFICES ASSUME NEW l \in 0 .. top, pc[l] \in InIO \cup InInt32
               PROVE  Keeps(call[l], disk)
    BY DEF FailuresKeepTheRest, Keeps
  <2>1. l = top
    BY <1>1, OnlyTheTop
  <2> QED BY <1>1, <2>1 DEF ResultInv, Active, Right
<1>2. Spec => [](LockInv /\ ResultInv)
  BY ResultsHold
<1> QED BY <1>1, <1>2, PTL
=============================================================================
