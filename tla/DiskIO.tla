------------------------------- MODULE DiskIO -------------------------------
(***************************************************************************)
(* io_disk_read and io_disk_write (source/hwio.c) and what keeps them apart *)
(* from the interrupt handlers: the interrupt lock, int32 (source/x86.s)    *)
(* and the local APIC.                                                     *)
(*                                                                         *)
(* An interrupt runs on top of what it interrupted, so control is a stack   *)
(* of levels of which only the top one runs.  Level 0 is the kernel and its *)
(* programs; it reads and writes disks, some reads within sb_play, which    *)
(* holds the lock.  The sound handler reads files too.  All sectors that    *)
(* are not read or written in one piece, and all that the BIOS transfers,   *)
(* go through one buffer, disk_buff.                                       *)
(***************************************************************************)
EXTENDS Integers

CONSTANTS
  Disks,             \* disk identifiers
  ATADisks,          \* those with disk_info[].isATA; the others go through the BIOS
  NBytes,            \* bytes on a disk, which has entire sectors
  DISK_SECTOR_SIZE,  \* bytes in a sector (512)
  Bytes,             \* byte values
  Requests,          \* calls that are made: [op, disk, start, size, byte]
  MaxLevel,          \* bound on nested interrupts
  BiosFlags          \* the interrupt flag that a BIOS service may return with

Junk == "junk"       \* a byte of disk_buff after a read that failed
ASSUME DiskIOAssumption ==
  /\ ATADisks \subseteq Disks
  /\ NBytes \in Nat /\ DISK_SECTOR_SIZE \in Nat \ {0}
  /\ NBytes % DISK_SECTOR_SIZE = 0
  /\ Bytes # {} /\ Junk \notin Bytes
  /\ \A r \in Requests : /\ r.op \in {"read", "write"} /\ r.disk \in Disks /\ r.byte \in Bytes
                         /\ r.start \in Nat /\ r.size \in Nat /\ r.start + r.size <= NBytes
  /\ BiosFlags \in (SUBSET BOOLEAN) \ {{}}
ASSUME LevelAssumption == MaxLevel \in Nat

VARIABLES
  disk,             \* what is on the disks
  disk_buff,        \* the sector buffer
  interrupt_locks,  \* INT_NO_LOCK and one for every lock held
  int_flag,         \* IF in eflags
  inhibited,        \* lapic_inhibit: the task priority holds interrupts back
  in_service,       \* an interrupt was delivered that lapic_eoi has not acknowledged
  top,              \* the level that runs
  who,              \* for every level, what runs there
  pc,               \* for every level, where it is
  back,             \* for every level, where its call of io_disk_read or io_disk_write
                    \* returns to
  call              \* for every level, that call

vars == <<disk, disk_buff, interrupt_locks, int_flag, inhibited, in_service,
          top, who, pc, back, call>>
data == <<disk, disk_buff>>
lock == <<interrupt_locks, int_flag>>
lapic == <<inhibited, in_service>>

-----------------------------------------------------------------------------
INT_NO_LOCK == 1
MaxAttempts == 3
Levels   == 0 .. MaxLevel
Handlers == {"timer", "net", "sound"}
SectorBytes == 0 .. DISK_SECTOR_SIZE - 1

\* Where a level is: at rest or just entered, with the lock of sb_play or of the
\* sound handler, in io_disk_read or io_disk_write, in int32, and on the way out.
Unlocked == {"start", "iret"}
InSound  == {"sound", "close", "leave"}
InIO     == {"next", "try", "tried", "moved"}
InInt32  == {"bios", "deinhibit", "popfd", "enable"}

Least(a, b) == IF a <= b THEN a ELSE b

NewCall(r) ==
  [op |-> r.op, disk |-> r.disk, start |-> r.start, size |-> r.size, byte |-> r.byte,
   done |-> 0, error |-> FALSE, stale |-> {}, xfer |-> "read", bios |-> "transfer",
   attempt |-> 0, ok |-> TRUE, buff |-> [i \in 0 .. r.size - 1 |-> r.byte],
   before |-> disk]
NoCall == <<>>

\* The next piece of a call: the bytes it still wants of one sector.
Here(c)    == c.start + c.done
Left(c)    == c.size - c.done
\* Where it begins in the sector; a mistake is to have it begin at the sector's start.
AtSectorStart(c) == 0
Offset(c)  == Here(c) % DISK_SECTOR_SIZE
Piece(c)   == Least(DISK_SECTOR_SIZE - Offset(c), Left(c))
Sector(c)  == Here(c) - (Here(c) % DISK_SECTOR_SIZE)
InPart(c)  == Piece(c) < DISK_SECTOR_SIZE
ViaBIOS(c) == c.disk \notin ATADisks
\* An ATA disk reads and writes entire sectors in the caller's memory.
Buffered(c) == InPart(c) \/ ViaBIOS(c)

-----------------------------------------------------------------------------
(* The lock. *)

\* A mistake the checks must notice: interrupts are on after the first unlock.
enable_at_once ==
  /\ interrupt_locks' = interrupt_locks - 1
  /\ int_flag' = TRUE

enable_interrupts ==
  LET locks == IF interrupt_locks <= INT_NO_LOCK THEN INT_NO_LOCK ELSE interrupt_locks - 1
  IN  /\ interrupt_locks' = locks
      /\ int_flag' = IF locks = INT_NO_LOCK THEN TRUE ELSE int_flag

\* A mistake: the lock is counted and interrupts are left as they are.
disable_without_cli ==
  /\ interrupt_locks' = interrupt_locks + 1
  /\ UNCHANGED int_flag

disable_interrupts ==
  /\ interrupt_locks' = interrupt_locks + 1
  /\ int_flag' = FALSE

GoTo(where) == pc' = [pc EXCEPT ![top] = where]
Set(c)      == call' = [call EXCEPT ![top] = c]
-----------------------------------------------------------------------------
(* io_disk_read and io_disk_write. *)

\* The kernel calls them when it holds no lock; sb_play and the sound handler
\* read a file while they hold theirs.
IOBegins(r) ==
  /\ \/ pc[top] = "start" /\ who[top] = "main"
     \/ pc[top] = "sound" /\ r.op = "read"
  /\ disable_interrupts
  /\ back' = [back EXCEPT ![top] = IF pc[top] = "start" THEN "start" ELSE "close"]
  /\ Set(NewCall(r))
  /\ GoTo("next")
  /\ UNCHANGED <<data, lapic, top, who>>

\* On to the next piece.  A part of a sector is read before it is written; the
\* bytes of an entire sector for the BIOS are copied to disk_buff.
NextPiece ==
  /\ pc[top] = "next"
  /\ LET c == call[top]
         write == c.op = "write" /\ ~InPart(c)
     IN  /\ Left(c) > 0 /\ ~c.error
         /\ Set([c EXCEPT !.xfer = IF write THEN "write" ELSE "read",
                          !.attempt = 0, !.bios = "transfer"])
         /\ disk_buff' = IF write /\ ViaBIOS(c) THEN [i \in SectorBytes |-> c.byte] ELSE disk_buff
  /\ GoTo("try")
  /\ UNCHANGED <<disk, lock, lapic, top, who, back>>

\* A mistake: a transfer overruns the buffer.
SectorAndOneMore(d, first) == [i \in 0 .. DISK_SECTOR_SIZE |-> disk[d][first + i]]

\* What a transfer leaves behind.  One that fails may have happened, in part.
SectorOf(d, first) == [i \in SectorBytes |-> disk[d][first + i]]
WithSector(d, first, bytes) ==
  [disk EXCEPT ![d] = [x \in DOMAIN @ |-> IF x - first \in SectorBytes THEN bytes[x - first] ELSE @[x]]]
AllBytes(b) == [i \in SectorBytes |-> b]

Transfer(c, ok) ==
  \/ /\ c.xfer = "read" /\ Buffered(c)
     /\ disk_buff' \in IF ok THEN {SectorOf(c.disk, Sector(c))} ELSE {disk_buff, AllBytes(Junk)}
     /\ UNCHANGED disk
  \/ /\ c.xfer = "write"
     /\ LET bytes == IF Buffered(c) THEN disk_buff ELSE AllBytes(c.byte)
            written == WithSector(c.disk, Sector(c), bytes)
        IN  disk' \in IF ok THEN {written} ELSE {disk, written}
     /\ UNCHANGED disk_buff
  \/ /\ c.xfer = "read" /\ ~Buffered(c)
     /\ UNCHANGED data

\* ATA_PIO_readsector and ATA_PIO_writesector: one attempt.
TryATA ==
  /\ pc[top] = "try" /\ ~ViaBIOS(call[top])
  /\ \E ok \in BOOLEAN :
       /\ Transfer(call[top], ok)
       /\ Set([call[top] EXCEPT !.ok = ok, !.error = @ \/ ~ok])
  /\ GoTo("moved")
  /\ UNCHANGED <<lock, lapic, top, who, back>>

\* int32 is called, for the transfer or, after a failure, for a reset.
Int32Begins ==
  /\ pc[top] = "try" /\ ViaBIOS(call[top])
  /\ disable_interrupts
  /\ inhibited' = TRUE
  /\ GoTo("bios")
  /\ UNCHANGED <<data, in_service, top, who, back, call>>

Bios ==
  /\ pc[top] = "bios"
  /\ \E ok \in BOOLEAN :
       /\ IF call[top].bios = "transfer" THEN Transfer(call[top], ok) ELSE UNCHANGED data
       /\ Set([call[top] EXCEPT !.ok = ok])
  /\ int_flag' \in BiosFlags
  /\ GoTo("deinhibit")
  /\ UNCHANGED <<interrupt_locks, lapic, top, who, back>>

lapic_deinhibit ==
  /\ pc[top] = "deinhibit"
  /\ inhibited' = FALSE
  /\ GoTo("popfd")
  /\ UNCHANGED <<data, lock, in_service, top, who, back, call>>

\* The flags that popfd restores were pushed after disable_interrupts.
Popfd ==
  /\ pc[top] = "popfd"
  /\ int_flag' = FALSE
  /\ GoTo("enable")
  /\ UNCHANGED <<data, interrupt_locks, lapic, top, who, back, call>>

Int32Ends ==
  /\ pc[top] = "enable"
  /\ enable_interrupts
  /\ GoTo("tried")
  /\ UNCHANGED <<data, lapic, top, who, back, call>>

\* A mistake: the attempts are not counted.
TriedForEver ==
  /\ pc[top] = "tried"
  /\ LET c == call[top] IN
       IF c.ok /\ c.bios = "transfer" THEN GoTo("moved") /\ UNCHANGED call
       ELSE GoTo("try") /\ Set([c EXCEPT !.bios = IF c.ok THEN "transfer" ELSE "reset"])
  /\ UNCHANGED <<data, lock, lapic, top, who, back>>

\* A transfer is tried again, after a reset, until it was tried often enough.
Tried ==
  /\ pc[top] = "tried"
  /\ LET c == call[top]
         Again(bios, attempt) == /\ Set([c EXCEPT !.bios = bios, !.attempt = attempt])
                                 /\ GoTo("try")
     IN  \/ /\ c.ok /\ c.bios = "transfer"
            /\ GoTo("moved") /\ UNCHANGED call
         \/ /\ c.ok /\ c.bios = "reset"
            /\ Again("transfer", c.attempt)
         \/ /\ ~c.ok /\ c.bios = "transfer" /\ c.attempt + 1 < MaxAttempts
            /\ Again("reset", c.attempt + 1)
         \/ /\ ~c.ok /\ (c.bios = "reset" \/ c.attempt + 1 >= MaxAttempts)
            /\ Set([c EXCEPT !.error = TRUE]) /\ GoTo("moved")
  /\ UNCHANGED <<data, lock, lapic, top, who, back>>

\* A sector was read, or was not, for a call of io_disk_read.
Got(c) == [i \in DOMAIN c.buff |->
             IF i \notin c.done .. c.done + Piece(c) - 1 THEN c.buff[i]
             ELSE IF Buffered(c) THEN disk_buff[(c.start + i) % DISK_SECTOR_SIZE]
             ELSE disk[c.disk][c.start + i]]
PieceRead ==
  /\ pc[top] = "moved" /\ call[top].op = "read"
  /\ LET c == call[top]
     IN  Set([c EXCEPT !.buff = IF InPart(c) \/ c.ok THEN Got(c) ELSE @, !.done = @ + Piece(c)])
  /\ GoTo("next")
  /\ UNCHANGED <<data, lock, lapic, top, who, back>>

\* A sector was read, or was not, of which io_disk_write replaces a part.
Merge ==
  /\ pc[top] = "moved" /\ call[top].op = "write" /\ call[top].xfer = "read"
  /\ LET c == call[top]
         first == Offset(c)
     IN  /\ disk_buff' = [i \in SectorBytes |->
                            IF i \in first .. first + Piece(c) - 1 THEN c.byte ELSE disk_buff[i]]
         /\ Set([c EXCEPT !.xfer = "write", !.attempt = 0, !.bios = "transfer",
                          !.stale = IF c.ok THEN {} ELSE {Sector(c) + i : i \in SectorBytes}])
  /\ GoTo("try")
  /\ UNCHANGED <<disk, lock, lapic, top, who, back>>

PieceWritten ==
  /\ pc[top] = "moved" /\ call[top].op = "write" /\ call[top].xfer = "write"
  /\ Set([call[top] EXCEPT !.done = @ + Piece(call[top])])
  /\ GoTo("next")
  /\ UNCHANGED <<data, lock, lapic, top, who, back>>

AtEnd(c) == Left(c) = 0 \/ c.error
IOEnds ==
  /\ pc[top] = "next" /\ AtEnd(call[top])
  /\ enable_interrupts
  /\ Set(NoCall)
  /\ GoTo(back[top])
  /\ back' = [back EXCEPT ![top] = "start"]
  /\ UNCHANGED <<data, lapic, top, who>>
-----------------------------------------------------------------------------
(* What holds the lock around a read, and the handlers. *)

\* sb_play and sound_handler.
SoundBegins ==
  /\ pc[top] = "start" /\ who[top] \in {"main", "sound"}
  /\ disable_interrupts
  /\ GoTo("sound")
  /\ UNCHANGED <<data, lapic, top, who, back, call>>

\* Nothing is read this time.
NothingToRead ==
  /\ pc[top] = "sound"
  /\ GoTo("close")
  /\ UNCHANGED <<data, lock, lapic, top, who, back, call>>

PlayEnds ==
  /\ pc[top] = "close" /\ who[top] = "main"
  /\ enable_interrupts
  /\ GoTo("start")
  /\ UNCHANGED <<data, lapic, top, who, back, call>>

\* The handlers acknowledge; sound_handler does so while it holds the lock.
lapic_eoi ==
  /\ \/ pc[top] = "start" /\ who[top] \in {"timer", "net"} /\ GoTo("iret")
     \/ pc[top] = "close" /\ who[top] = "sound" /\ GoTo("leave")
  /\ in_service' = FALSE
  /\ UNCHANGED <<data, lock, inhibited, top, who, back, call>>

SoundLeaves ==
  /\ pc[top] = "leave"
  /\ enable_interrupts
  /\ GoTo("iret")
  /\ UNCHANGED <<data, lapic, top, who, back, call>>

\* Interrupts were on when the level below was interrupted.
Iret ==
  /\ pc[top] = "iret"
  /\ top' = top - 1
  /\ int_flag' = TRUE
  /\ who' = [who EXCEPT ![top] = "main"]
  /\ GoTo("start")
  /\ UNCHANGED <<data, interrupt_locks, lapic, back, call>>

\* The timer has an interrupt gate, the network and sound cards have trap gates,
\* which leave interrupts on.  Their vectors are of one priority class, so that
\* none is delivered before the last one is acknowledged.
Interrupt(h) ==
  /\ int_flag /\ ~inhibited /\ ~in_service
  /\ top < MaxLevel
  /\ top' = top + 1
  /\ who' = [who EXCEPT ![top + 1] = h]
  /\ pc' = [pc EXCEPT ![top + 1] = "start"]
  /\ call' = [call EXCEPT ![top + 1] = NoCall]
  /\ in_service' = TRUE
  /\ int_flag' = (h # "timer")
  /\ UNCHANGED <<data, interrupt_locks, inhibited, back>>
-----------------------------------------------------------------------------
Init ==
  /\ disk \in [Disks -> {[x \in 0 .. NBytes - 1 |-> b] : b \in Bytes}]
  /\ disk_buff = AllBytes(Junk)
  /\ interrupt_locks = INT_NO_LOCK
  /\ int_flag = TRUE
  /\ inhibited = FALSE /\ in_service = FALSE
  /\ top = 0
  /\ who = [l \in Levels |-> "main"]
  /\ pc = [l \in Levels |-> "start"]
  /\ back = [l \in Levels |-> "start"]
  /\ call = [l \in Levels |-> NoCall]

\* What the code under way does next, and what is begun.
Continue ==
  \/ NextPiece \/ TryATA \/ Int32Begins \/ Bios \/ lapic_deinhibit \/ Popfd \/ Int32Ends
  \/ Tried \/ PieceRead \/ Merge \/ PieceWritten \/ IOEnds
  \/ NothingToRead \/ PlayEnds \/ lapic_eoi \/ SoundLeaves \/ Iret
  \/ who[top] = "sound" /\ SoundBegins
Begin == \/ \E r \in Requests : IOBegins(r)
         \/ who[top] = "main" /\ SoundBegins
         \/ \E h \in Handlers : Interrupt(h)
Next == Continue \/ Begin

Spec == Init /\ [][Next]_vars

\* A processor goes on with what it has begun; whether the kernel begins anything
\* and interrupts arrive is up to others.
FairSpec == Spec /\ WF_vars(Continue)
-----------------------------------------------------------------------------
\* How many locks a level holds, by where it is and where its call returns to.
HeldAt(where, return) ==
  CASE where \in Unlocked -> 0
    [] where \in InSound -> 1
    [] where \in InIO -> IF return = "start" THEN 1 ELSE 2
    [] where \in InInt32 -> IF return = "start" THEN 2 ELSE 3
Held(l) == HeldAt(pc[l], back[l])

\* The type of the state.
TypeOK ==
  /\ disk \in [Disks -> [0 .. NBytes - 1 -> Bytes \cup {Junk}]]
  /\ disk_buff \in [SectorBytes -> Bytes \cup {Junk}]
  /\ interrupt_locks \in Nat
  /\ {int_flag, inhibited, in_service} \subseteq BOOLEAN
  /\ top \in Levels
  /\ who \in [Levels -> Handlers \cup {"main"}]
  /\ pc \in [Levels -> Unlocked \cup InSound \cup InIO \cup InInt32]
  /\ back \in [Levels -> {"start", "close"}]

\* hwio.c:1378 "Only enabled when there are no locks": every lock is the running
\* level's, the count of them is right wherever it is, no level that holds one
\* is interrupted, and with interrupts on nothing holds them back.
LocksKeepInterruptsOff ==
  /\ interrupt_locks = INT_NO_LOCK + Held(top)
  /\ \A l \in 0 .. top - 1 : Held(l) = 0
  /\ int_flag => Held(top) = 0 /\ ~inhibited

\* A call that says it succeeded did: it returns what the disk holds, or it
\* wrote what it was given and nothing else, whatever else used disk_buff
\* before it, and however many attempts it took.
ResultsAreTrue ==
  \A l \in 0 .. top :
    pc[l] = "next" /\ AtEnd(call[l]) /\ ~call[l].error =>
      LET c == call[l] IN
        IF c.op = "read"
        THEN /\ disk = c.before
             /\ \A i \in 0 .. c.size - 1 : c.buff[i] = disk[c.disk][c.start + i]
        ELSE disk = [c.before EXCEPT ![c.disk] = [x \in DOMAIN @ |->
                       IF x \in c.start .. c.start + c.size - 1 THEN c.byte ELSE @[x]]]

\* A call that fails keeps every byte outside its range too, unless a sector of
\* which it was to write a part could not be read: then the rest of that sector
\* is whatever was in disk_buff.
FailuresKeepTheRest ==
  \A l \in 0 .. top :
    pc[l] \in InIO \cup InInt32 =>
      LET c == call[l] IN
        \A d \in Disks, x \in 0 .. NBytes - 1 :
          disk[d][x] # c.before[d][x] =>
            /\ d = c.disk /\ c.op = "write"
            /\ \/ x \in c.start .. c.start + c.size - 1
               \/ x \in c.stale

\* Interrupts always come on again: every lock is released, every BIOS call and
\* every handler comes to its end, however many attempts fail.
InterruptsComeBack == []<>int_flag
=============================================================================
