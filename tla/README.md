# NANO S32 in TLA+

NANO S32 is a 32-bit, single-tasking operating system: a boot loader, a kernel with a file
system, a heap, drivers and a command line, and a few programs that call it. One thread runs,
the command line or the program it started, and interrupt handlers run on top of it.
This directory is its specification: modules that follow the code, runs of TLC that check
them on small instances, and theorems that TLAPS checks for all of them. `PROJECT.json`
lists components, runs, mutants, the map from definitions to source lines, findings,
hazards and theorems. All paths are relative to the repository; `fs.c`, `hwio.c`, ... are in
`src/source/`.

    tlc -config MCNSFS_careful.cfg MCNSFS      one run (PROJECT.json pairs modules and cfgs)
    tlapm KernelHeapProofs.tla                 one module's proofs

## 1. The system

| part | source | state | operations | who calls, what it shares |
|---|---|---|---|---|
| file system | `fs.c`, `fs.h` | the disks: superblock, table of entries, data blocks | read, write, move, copy, delete, create directory, list, format | programs and the command line by system call; the sound handler reads files from its interrupt |
| disk input and output | `hwio.c` 737-1317, `x86.s` `int32` | sector buffer `disk_buff`, one real-mode stack and saved stack pointer | `io_disk_read`, `io_disk_write`, each with retries and resets; ATA ports or BIOS | called by the file system, from the main thread and from the sound handler |
| interrupt lock, local APIC | `hwio.c` 556-629, 1378-1400, `x86.s` 172-261 | `interrupt_locks`, IF, task priority, in-service bit | disable, enable, inhibit, acknowledge, gates | everything that must not be interrupted |
| clock | `hwio.c` 342-430, 631-667 | `clock_ints`, `ints_per_second`, CMOS index port | `timer_handler` calibrates against CMOS seconds; `io_gettimer`; `wait` | sound, network, programs |
| kernel heap | `kernel.c` 18-91 | table of 32 blocks | `heap_alloc`, `heap_free` | programs, by system call |
| network | `net.c` | NE2000 registers, one-packet receive buffer, send buffer, ARP table | send, receive, set port; `net_handler` | main thread and handler share buffers and the chip's DMA registers without a lock |
| sound | `sound.c` | DMA buffer of two halves, samples left, bytes left | play, stop, is playing; `sound_handler` refills a half | main thread and handler; the handler reads the file system |
| command line | `cli.c` | current line, loaded program | built-in commands, start of programs, clone | calls everything |
| editor | `programs/edit.c` | text buffer, cursor offset, first line shown, copy of the screen | one per key, save, load | a program; one file |
| keyboard, screen, serial line, PCI, disk detection, boot, `mkfs`, programs | `hwio.c`, `pci.c`, `boot/`, `fstools/`, `programs/` | device registers, tables filled at boot | | |

What is hard here: calls that make many disk writes, any of which may fail, on a format
in which an entry's size, chain and references must agree; handlers that interrupt anything
the lock does not cover, nest, and use the file system, the sector buffer and the send buffer
themselves; 16-bit BIOS calls in the middle of 32-bit code; tables and buffers of fixed size;
retries and time limits; counters that wrap.

What makes each part correct:

- file system: a block has one owner; sizes, chains and references agree; every entry is
  below the root; listings and lookups agree; names are unique; what programs see is a tree of
  files and directories; a failing call harms nothing it was not given;
- disk input and output: a call that succeeds did what it says, whatever interrupts it;
  one that fails harms nothing outside its range; nothing that holds the lock is interrupted,
  and interrupts come on again;
- heap: an allocation keeps its blocks until it is freed; nothing is lost; memory that is
  there is found;
- network: what is received is one whole packet for the port set; what is sent is what was
  given; every packet in the chip's ring is taken; every send ends;
- sound: what is played is the file, in order; a sound ends;
- clock: time does not run backwards; a wait ends;
- editor: a key changes what the user sees at the cursor and nothing else; a text that is not
  marked as changed is what is on the disk.

`hazards` in PROJECT.json lists where each is in danger, at its line.

## 2. Modules

    NSFSDisk <- NSFS <- NSFSInv <- NSFSStore  --refines-->  FileStore
                           ^          ^
                        MCNSFS <- MCNSFSStore, MCNSFSFaults <- NSFSFindings
                        NSFSInv <- NSFSTables <- NSFSProofs,  NSFSTables -> LeastElement
    KernelHeap <- MCKernelHeap, KernelHeapProofs
    DiskIO     <- MCDiskIO, DiskIOProofs
    Net        <- MCNet, NetProofs -> LeastElement
    Sound      <- MCSound, SoundProofs
    Editor     <- MCEditor, EditorProofs -> LeastElement

**NSFSDisk** is the format: entries, images, lookup of paths, free entries and blocks, and the
write of one entry or one block. A path is a sequence of a disk and names; `StoredName` is what
`string_to_name` makes of a name. Data is a byte per model value. `smashed` are the entries over
which file data was written, after which nothing is known of a disk and the model stops. Error
codes are negative numbers where the code has the highest unsigned ones.

**NSFS** is `fs.c`. A call runs to its end before the next one begins (only the main thread
makes calls that change a disk), so a call is one action, and its C functions are operators of
the same names that thread a record through the call: the disks, how many writes still
succeed (`fuel`) and the last result. `Then` is the code's `if(result >= ERROR_ANY) return
result`, `AfterSuccess` its `if(result != NO_ERROR)`. So a call that fails at any of its writes leaves exactly the writes before it, in the
code's order. A loop is what `Rounds` reaches from its first values in a number of rounds, and what one round does has a name of its own
(`ExtendOnce`, `ShiftOnce`, `AllocateOnce`, ...); after its last round the loop stays where it is. The number of rounds is one that the code
cannot exceed: no chain has more entries than the table, and every round of a write
takes a byte or an entry. The two recursive functions, `delete_n` and `fs_copy`, are made of one round per depth in the same way
(`DeleteWith`, `CopyWith` say what a call does, given what the calls below it do), and no tree is deeper
than the table has entries. A read that fails ends a call the same way and is not told apart. What is in
memory and what is on the disk are kept apart where the code keeps them apart (`mem`, `te`, `cur`
and `nxt`): that is where its errors are.

**NSFSInv** says what `fs.h` says of a disk, and states the *discipline*: seven rules that
`fs.c` does not check, and without which the promises fail. They are: the parent
in a path is a directory (`directory`); directories stay within one entry (`room`: `add_ref_in_entry`
takes the result of `set_entry_refcount`, 0, as an index); new files are written under the name
that their entry gets (`name`); a write adds one block at most (`growth`); a resize does not end
on or stay in a chain's boundary (`resize`); nothing is moved or copied below itself (`subtree`);
what is copied or moved to another disk has no empty file in it (`empty`).

**FileStore** is what programs are promised: a tree, calls that do what their comments in
`fs.h` say or fail and touch nothing but their target. Two of its results are the code's and not those of
`fs.h`: a delete that is done returns `NO_ERROR` (`fs.c:985`, `996`), where `fs.h:191` has the index of the deleted
entry, and a write that fails returns the error that it met, where `fs.h:168` has `ERROR_NOT_FOUND`. **NSFSStore** maps disks to that tree
(`Tree`) through the code's own lookups and reads, and claims the refinement.

**KernelHeap** is `heap_alloc` step by step, as its loop goes over the blocks, and `heap_free`,
for programs that free what they like but not what earlier programs left.

**DiskIO** is `io_disk_read` and `io_disk_write`, with each sector's transfer, retry, reset and
return a step of its own, and a stack of levels: the main thread and the handlers on top of
it. A level that calls the BIOS goes through the steps of `int32`. The local APIC delivers
no second interrupt before the first is acknowledged; the timer has an interrupt gate, network
and sound have trap gates, as installed (the comment at `hwio.c:496` says otherwise). The
handlers of timer and network do nothing here but acknowledge; the sound handler takes the lock
and may read; so does `sb_play` on level 0. Each makes one read in a hold of the lock: in the code they make several in
a row, between which the lock is held and no other level can run.

**Net** is `net.c` with the NE2000 as far as the code sees it: the ring of pages, where the next
packet goes (`curr`) and how far (`bnry`), the status bits RX, TX and RDC, the command register
(of which the code compares one value, `net.c:397`), whose transfer the one DMA channel is set
up for (`dma`) and where its address points (`remote`). Two levels run: the main thread with its calls, cut where the handler can come between two
accesses of shared state (`snd_buff`, `rcv_buff`, `arp_table`, the card's registers), and the
handler, cut where a packet or the end of a transmission can come between two accesses of the card. In `ne2k_send`
every write that sets the channel up is a step (`SelectPage`, `SetLow`, `SetHigh`, `SetCount`, `StartWrite`), and the first bytes
of the frame and the rest are two; `ne2k_page_select`, which reads a register and writes it back, is one, and so are the
two bytes of a count. `io_net_init` writes broadcast's entry of the table in two steps, with the card's interrupts on.
`eth_send` and `ne2k_send` are written once, for the level that runs them; `pc[l]` says where it
is. A packet is what the rules of reception tell apart: type, addresses, port, the length that it claims and the size
that came, a byte for its payload, and the pages it takes. It may claim any length (one below its own header's underflows, as in
the code) and any address, broadcast's included. A frame is built from the inside out as in the code, so
that what is transmitted is what `snd_buff` holds *when it is loaded*, whoever wrote it.
`disturbed`, `late`, `astray` and `claimed` are history: the handler ran during a send; a packet came behind the handler's last
look; a frame was written over a packet that waits in the ring; a reply claimed broadcast's address, or came while its entry was
written. In these cases the code makes no promise (section 4), and each property names the ones that it excepts, so that
everything else is claimed. A checksum that is written behind `snd_buff` leaves `Junk` in the address of a received packet.

**Sound** is `sound.c`: the DMA buffer holds, for every byte, which byte of the file it is, counted from the data chunk's
header (`HeaderBytes`), from where the code plays, and the
card plays samples from it at its own pace, between any two steps. The handler counts, refills and
programs in steps of its own; the main thread plays, stops and asks. An interrupt that comes before the last one was
acknowledged is lost. A read of a file may fail. The time after which `io_sound_is_playing` ends a sound is not measured: `TimeUp` comes when the
sound has been heard or nothing plays any more, which is how the time is meant (`HeardInFull` is about the countdown of the
samples; its half about the time holds by that guard). Reading itself, and the lock around `sb_play`, is in DiskIO.

**Editor** is `programs/edit.c`: an action per key, each ending with the scroll, the redraw and
the place of the cursor as in the main loop. The memory that malloc returns holds anything (`Memories`), and what is behind the
file's bytes stays as it is; `terminated` says whether the text had its 0 when it was opened. A save succeeds, fails with an
error, or, on a floppy, fails with a BIOS code, which the editor takes for success. A save that
succeeds writes the whole text. The three counts of lines in the code
(`buffer_offset_to_linecol`, `linecol_to_buffer_offset`, `next_line`) are three functions, since that they
agree is what the program depends on and what is not always so.

Operators whose comment begins with "A mistake" are not part of the specifications: each is a
wrong version of the definition below it, and the project keeps one for every property to show that
the property notices it (`mutants`).

## 3. Runs

| run | question | instance | states |
|---|---|---|---|
| `fs_careful` | do calls keep a disk as `fs.h` says? | 1 disk, 4 entries, 3 blocks, 2 references an entry, three paths, a second spelling of one name | 76,226 |
| `fs_store` | do calls implement the tree? | 2 disks of 3 entries and 3 blocks, byte values told apart, moves and copies across | 36,673 |
| `fs_faults` | what if a write fails? | 1 disk of 3 entries and 3 blocks, any write of any call the first to fail | 9,240 |
| `heap` | is memory kept, found, accounted for? | 6 blocks, requests of 0 to 7 blocks | 291,172 |
| `disk_io` | do interrupts and failures stay out of results? | 2 disks of 2 sectors (ATA and BIOS), 2 nested interrupts, parts and whole sectors | about 780,000 |
| `net` | what do shared buffers, table, ring and DMA channel guarantee without a lock? | table of 2 entries, ring of 4 pages, packets of 1 and 2 pages, true and not, 2 arrivals, 2 ports, 1 ARP request a send | 741,448 |
| `sound` | is the file what is heard, and does it end? | halves of 2 bytes; 8 bits: 0, 1, 4, 5, 6, 8 bytes; 16 bits: 1, 4, 5, 6, 7, 8, 10 | 48,485 |
| `edit` | do text, cursor, screen and disk agree after any keys and saves? | 2 columns, 2 rows of text, files of up to 5 characters, a letter and newline, clear and used memory, 3 bytes on the disk | 487,610 |
| `growth`, `subtree`, `truncate`, `waiting` | see findings | 1 disk, 3 or 4 entries; the network with packets of 1 and 2 pages | first violation |

Some configurations are kept beside these runs. `MCNet_odd.cfg` has no sends, nine kinds of packets (addresses of 0, lengths below the
header's, no IP at all), three arrivals and a table of three entries (525,043 states); `MCNet_ring.cfg` three arrivals between sends
(352,719); `MCNet_near.cfg` sends to a neighbour as well (913,140). TLC finishes them without an error. The others show what fails, and
section 4 names them.

*Bounds.* Two references in an entry make chains of two entries with files of three blocks, so
growth, shrinking and clearing across an entry's end happen; three blocks and three or four
entries make both tables run full; one disk more makes copies and moves across. `fs_careful` truncates with writes of no bytes,
the other two with writes of a byte; `fs_faults` copies from the root's two paths only. Blocks hold
one byte: positions within a block do not matter to who owns it. `fs_faults` lets seven writes
succeed at most or all of them: no call of the instance has more before its last. Its
constraint does not explore what follows an unsound image: after a call that failed half-way
further calls may do more harm (`NSFSFindings_retry.cfg`). The disks' `VIEW` drops the result
and the last call, which no guard reads; `fs_store` also drops what is in free blocks, since no
call of that instance reads it. In `disk_io` a transfer has three attempts as in the code, two
nested interrupts suffice for sound over network over main, and requests cover a part at the
start, at the end, on both sides and a whole sector.

In `net` a table of two entries (one of them broadcast's) is full after one answer, so that an entry that a send has looked up is
replaced before it is used; the ring of four pages is filled and wraps with packets of one and two; two
arrivals are enough for one to come while the other is served or copied. Received payloads of three bytes
are longer than `tmp_buff`, which holds two, as 256 are than 213; one packet claims three and brings one, and one reply claims
broadcast's address. A frame of three bytes is cut to `SndRoom`, two, and its checksum (`ETH_CRC_LEN`, one byte of the code's four) goes behind
`snd_buff`, as that of 199 bytes and more does.
In `sound` the files are empty, shorter than a half, one half, around two, three and four halves,
odd and even, the miscounted ones of 16 bits included; which is all that the cases of `read_buffer` and of the countdown tell apart. In `edit` lines are
narrower than the screen, as wide and wider, with and without a newline at the edge, and texts
longer than the screen; a longer text only scrolls further. Memory is all 0 or all letters, so that a file's text has its 0 or has none.

*Fairness.* Three runs have liveness properties. `disk_io` (`InterruptsComeBack`) assumes weak fairness of
`Continue`, the code under way: a processor goes on with what it has begun, and a BIOS call
or an ATA wait (which the code bounds) returns. It assumes nothing of interrupts or of new calls.
`net` (`CallsEnd`, `PacketsAreTaken`) assumes weak fairness of the main thread's call under way, of the
handler, of the delivery of an interrupt whose line is on, and of the end of a transmission, which the card brings
about; nothing of packets and of new calls. `sound` (`SoundEnds`) assumes weak fairness of the code under way, of the card,
of time, and of `io_sound_is_playing`: `play.c:30` asks in a loop while it waits, and that call is what ends a
sound whose interrupt was lost. A program that never asks leaves such a sound
"playing"; the property says nothing of it. No strong fairness is assumed anywhere.

*Deadlock* is checked in every run but `edit`, where ESC ends the program, and those of `Net`, where
`ne2k_send` may wait for ever (section 4): with no more packets coming nothing can
move then, and `CallsEnd` says that an interrupted send is the only call that does not end.

## 4. Findings

Four of them have a run. The first three drop a rule of the discipline that `fs.c` does not check.

- `growth`: a write that adds two or more blocks to a file gives all of them the same block
  (`fs.c:846-880`: `find_free_block` does not see the references that are only in memory). A program that
  writes a block at a time escapes it; `edit.c:292` writes its whole buffer with one call and does not, for a text that is
  more than a block longer than its file. (Editor takes a save that succeeds to have written the text; the two modules are not composed.)
- `truncate`: a file cut to exactly `SFS_ENTRYREFS` blocks loses its last one (`fs.c:569-577`).
- `subtree`: a directory moved below itself is lost with all it holds (`fs.c:1061-1126`).
- `waiting`: a frame is written over a packet that waits in the card's ring. The handler leaves the DMA
  channel's address behind what it read there (`net.c:688-705`); if it comes after the main thread wrote that address
  (`402-403`) and before its count and command (`404-407`), the frame goes into the ring. When the packet's header goes with it,
  the handler then follows a garbage page number (`astray`).

The others have a property and a configuration of their own (`tlc -config <cfg> <module>` shows the trace):

| configuration | property | what the trace shows | what is said |
|---|---|---|---|
| `NSFSFindings_retry.cfg` | `DeletesStayLocal` | `remove_ref_in_entry` clears a reference (`fs.c:757`) and fails before it writes the new size (`761-770`); a delete that comes later goes through as many references as the size says (`961-963`), takes the 0 for the root's index and deletes what is in the root | `fs.h:75`, `187-188` |
| `NSFSFindings_names.cfg` | `ChainedNamesAgree` | a move renames the head of a chain alone (`fs.c:1110-1113`) | `fs.h:82-83` |
| `NSFSFindings_delete.cfg` | `DeleteReturnsIndex` | a delete that is done returns `NO_ERROR` (`fs.c:985`, `996`) | `fs.h:191` |
| `MCNet_send.cfg` | `SentIsMeant` | the handler takes a packet after a send has set its channel up: the frame's bytes are lost, what is transmitted is what the card held before, and the send returns `NO_ERROR` | `net.h:12` |
| `MCNet_hang.cfg` | `CallsAlwaysEnd` | the handler uses the channel while a frame is loaded: the send waits at `net.c:415` for ever | `net.c:414`, `net.h:12` |
| `MCNet_overrun.cfg` | `SenderIsKept` | the checksum of a frame that fills `snd_buff` (`net.c:439-441`, with the clamp of `574-575`) is written behind it, here over a received address; what is there is up to the build | `net.c:571`, `net.h:19-20` |
| `MCNet_broadcast.cfg` | `BroadcastIsFirst` | a reply between the two writes of entry 0 (`net.c:898-899`) leaves its hardware address in it | `net.c:897` |
| `MCSound_header.cfg` | `PlayedIsFile` | the first eight bytes that are played are the data chunk's header (`sound.c:583-586`), and the last eight of the samples are not | `sound.h:12` |
| `MCEditor_end.cfg` | `EndsWithNul` | the 0 behind a file is counted (`edit.c:214-216`) and not written; malloc does not clear | `edit.c:212-213` |
| `MCEditor_floppy.cfg` | `SavedIfUnmarked` | a save that fails on a floppy returns the BIOS's code (`fs.c:924-927`), which `edit.c:296` takes for success | `edit.c:295`, `fs.h:168` |
| `MCEditor_edge.cfg` | `CursorAlwaysOnItsChar` | with a newline right after a line as wide as the screen (`edit.c:64-66`, `102-110`) the cursor is shown a line away from its character | `edit.c:270-271` |

Seen in TLC with other rules dropped, without a configuration of their own: a directory of more than
`SFS_ENTRYREFS` items writes into the root's entry (`fs.c:674-683`); a file as the parent in a path can
lead to data over the entry table (`fs.c:918` refuses blocks 0 and 1 only); an empty file moved to another disk
is deleted (`fs.c:1093-1101`); a write under a name that `string_to_name` changes makes a second
entry. With `BiosFlags = {FALSE, TRUE}` `disk_io` finds `ResultsAreTrue` violated: `int32` calls
`lapic_deinhibit` before `popfd` (`x86.s:150-152`), and a BIOS that returned with interrupts on lets
the sound handler in while `disk_buff` and the saved stack pointer are in use.

Seen while modelling `net.c`, and excepted by the properties where it happens:

- `net.c:397` compares the command register with 0x26 exactly. After the handler used the DMA channel it reads
  otherwise, and a frame in transmission is overwritten by the next. `arp_reply` runs in the handler and builds its answer in the `snd_buff`
  of the main thread: an interrupted send transmits the answer's body under its own header, or the answer twice (`disturbed`).
- A packet that comes between the handler's last look at the ring and `net.c:782` has its bit cleared and stays in
  the ring until another comes (`late`). Clearing before serving would not lose it, but would find the ring empty at times
  (`NeverReadsEmptyRing`).
- A reply may claim any address (`net.c:638-656`): broadcast's, so that entry 0 gets the sender's hardware address, or one
  that begins with 0, which leaves its entry free (`claimed`).
- `net.c:622` takes the length of a datagram from its header. What it says beyond what came is
  filled with what `tmp_buff` held before and what is behind it (`707-709`, `624`), also for a payload of 214 bytes and more; a length below 8
  underflows and fills `rcv_buff`.
- `io_net_recv_set_port` empties the buffer before it changes the port (`net.c:939-940`): a packet for the old port that
  comes between is kept and given to the program as one for the new.
- `ip_send` looks for the entry again and may
  return an error when a reply replaced it; a send to a host on the local network also needs the gate
  to answer (`net.c:563-565`).

Seen in `sound.c`: a last block of 16 bits in the second half plays memory behind the buffer (`LastBlockIsMisplaced`;
`sound.c:365-371` give bytes where `285-288` halve the address); a data chunk shorter than a sample is programmed as 0xFFFF
samples, and 16-bit data of one odd byte more than the buffer starts in automatic mode with no sample left for it (both
`Miscounted`). Seen in `edit.c`: the first line of a text is one character longer for `linecol_to_buffer_offset`, so
that up and down miss by one if it is wider than the screen; without the 0 the cursor goes behind the text and `memcpy` gets a
size below 0 (`Crash`); the buffer's 0xFFFF bytes are not checked when typing (`377`).

## 5. Proofs

**KernelHeapProofs** proves, from `HeapAssumption` alone (any number and size of blocks, any
requests), that every behaviour of `KernelHeap` keeps its type, `AllocationsIntact`, `UsedIsHeld` and
`AllocatesFirstFit`. None is inductive by itself. The invariant `HeapInv` adds
what the loop knows (the `n_found` blocks before `i` are free, and no run of free blocks before
them is long enough), that the block of an address determines it (distinct blocks have
distinct addresses), and that an unused block has no address stored, without which `heap_free` could match
a stale one. A lemma for every action shows it preserved, and the theorems follow.

**DiskIOProofs** proves `LocksExclude`: with a BIOS that returns with interrupts off, nothing that
holds the interrupt lock is interrupted, for any number of nested interrupts, any disks and any
calls. The invariant adds where the levels may be (interrupted levels hold no lock: they
are at rest or on their way out) and when the APIC is inhibited. `StepOnTop` reduces every step of
the running level to the count of locks before and after it.

Its second part proves, with a BIOS that returns with interrupts off (`BiosFlags = {FALSE}`),
that the driver's state keeps its type, `ResultsAreTrue` and `FailuresKeepTheRest`, for any disks of
entire sectors, any calls (of any start and size, aligned or not) and any number of failures. By
`LocksExclude`, only the running level can be in a call, so `ResultInv` speaks of one: what it has
done so far is `After`, its blocks up to `done`. Per place of the code the invariant (`Right`)
says what a successful transfer moved (`Transferred`), what the disks and the program's buffer hold
while no error is known (`Done`), and, whatever failed, what may have changed (`Keeps`, `Untouched`). The arithmetic is apart: the remainder and the pieces of a transfer
(`Remainder`, `Ahead`) and that the last sector is a whole one (`WholeSectors`), without which
reading it to write a part of it could leave the disk.

**LeastElement** has what stands in for induction: a set of numbers up to n has a least one (from the
well-foundedness of the finite sets), so every search that stops at the first hit is a choice of
the least element; what holds at 0 and goes on from k to k + 1 holds up to n (`UpTo`, as no least k fails it);
and a function defined by recursion on 0..n exists (`RecursiveFunction`), without which nothing is known of a
`f[n \in S] == ... f[n - 1] ...` of the model.

**NetProofs** proves, from `AddressAssumption`, `PacketAssumption` and `SizeAssumption` (any
table, ring, buffers, calls, and packets that claim any length and any address), that the driver's state keeps its type,
`NeverReadsEmptyRing`, `ReceivedWhole`, `ArpTableSound`, `FramesAreRight` and `FramesStay`. What they except, they name: the first
holds until a frame was written over the ring (`astray`), the second says of the bytes that came, and of the address unless a checksum went
over it, that they are one packet's, the third leaves out broadcast's address if a reply claimed it (`claimed`), and the last two are about
frames that no interrupt disturbed.
The type comes first (`Types`), with what is known at each place of the code. Then, each by an
invariant of its own:
- the ring, while the card interrupts and no frame went over it (`RingInv`): the boundary is right behind the page that is read
  next and a page at least stays free (`Apart`); every packet's header leads to a packet further
  on or to where the next one will be (`Chained`, with `Distance` round the ring); and the status
  bits and places of the handler say when there is a packet (`SeenIsThere`);
- receiving: while the main thread copies the buffer it is full, so that the handler lets it be
  (`Copying`);
- the table: no entry but the first is broadcast's (`TableInv`); `FreeIsFirst` and `Found` say where
  a search stops;
- sending: what the buffer and the card's memory hold at each place of the handler's answer
  (`AnswerInv`) and of `io_net_send` while no interrupt came between (`BuildInv`, `Undisturbed`);
  and the command register shows a transmission, save one that a packet hid (`TransmitInv`).

**SoundProofs** proves, from `HalfAssumption`, `CountAssumption` and `FileAssumption` (any buffer, any files of any length, also
none or an odd one of 16 bits), that the state keeps its type (`SoundTypes`), also with lost interrupts and reads that fail, that
nothing plays when no sound does (`SilentWhenStopped`), that what is heard is the file from the data chunk's header on, in its
order (`FilesArePlayed`), and that the handler ends no sound early
(`HeardInFull`). The last three are about sounds without `trouble`: an interrupt lost, a read failed, a file that is miscounted. The type needs that the card plays one of the two halves and that a refill stays in the
half that was played. For the file, the invariant says while there was no trouble what each half holds and up to where the file has been
read, and at each place of the handler which half's turn it is (`PlaysHalf`, `ReadUpTo`, `Turn`). For the length, it
counts: the samples heard, those left
of the block that plays and those the code counts are the whole sound, and a half more for the block
whose interrupt has not been served. Which of `Plays`, `Ended` and `IsCounted` holds depends on where the
handler is; a main thread that has stopped the card is not interrupted (`Places`). That a file of more
bytes than the buffer has more samples than its two halves needs that a half has an
even number of bytes (`MoreThanTheBuffer`).

**EditorProofs** proves, from `CharAssumption`, `SizeAssumption`, `FileAssumption` and `MemoryAssumption` (any screen,
buffer, memory, files and keys), that the state keeps its type (`EditorTypes`), that the cursor stays in the text
(`CursorInText`), `BufferFinishes`,
`UnsavedIsMarked` and `OneCharAtATime`. All but the type and `UnsavedIsMarked` are about texts that had their 0 when they were opened (`terminated`),
and that one about disks that are no floppies. `MemoryAssumption` has the last byte of the buffer be 0, since searches of the
code would go on behind it. The searches for a line and a column stop in the text,
whatever is asked for, because the text's 0 stops them; this needs nothing of what the recursive
functions count. `TakenOut` and `PutIn` say what the two uses of `memcpy` do to a text; every key
is then `Moved`, `Edited`, a save or an end.

What the recursive functions compute is proved too: they exist (`RecursiveFunction`) and obey their
equations (`Places`, `ColumnwiseIs`). `PlacesAlwaysAgree` says that the two ways of counting lines agree for a text whose
lines all fit: a character's line starts as many characters before it as its column says
(`AllInTheirLines`), and what follows a line's start counts on from it alone. `CursorIsOnItsChar`
follows: shown from the start of any of its lines, such a text is shown as from its own start, that many lines further up
(`ShownFromItsStart`). The invariant `ScreenInv` is that, between two keys, the screen and the copy that the editor
keeps of it are the same, show the text from the current line on, and have the cursor at its character's place; a
step writes only the cells that differ, so it needs that of the state before.

**NSFSTables** and **NSFSProofs** prove that the calls of `fs.c` keep a disk in order:
`DisksStayInOrder`, and from it, one by one, every invariant that `fs_careful` checks: `TypesAreKept` (`TypeOK`),
`NoBlockIsShared` (`BlocksOwnedOnce`), `NothingIsLeftBehind` (`DeadRefsAreZero`), `ChainsAreWhole`
(`ChainsCarryTheSize`), `ListingsAreLookups` (`ListingsMatchLookups`), `NothingIsLost`
(`EveryEntryUnderRoot`), `PathsNameOneEntry` (`NamesAreUnique`) and `TablesAreNotOverwritten` (`NoDataOverTable`).
They hold for any number of disks, entries, blocks and names, any size of blocks and entries (two references at least), files of any length
and chains of any number of entries, trees of any depth, and any sequence of calls. The assumptions:

- `NSFSDiskAssumption`, `DiskErrorAssumption` and `CallsAssumption`: the constants have the right types, stored names are fixed by
  `string_to_name`, and no program deletes, moves or replaces a whole disk;
- `WritesSucceed`: no write fails (`Fuel` is negative and never used up). What failures do is the subject of `fs_faults`, which checks
  two of the invariants only: a failed call leaves its earlier writes done, and with them chains and listings that do not agree;
- `Disciplined`: every call keeps the rules of the discipline, the one about empty files excepted. Without any of the others an
  invariant fails or, for `resize`, a file loses a block (section 4): they are what the code needs and not what the proof needs. `Careful`,
  the discipline of `fs_careful`, is a case of it.

None of the invariants is inductive. `IInv` says that the table of every disk is `Good`, which is eleven
statements about one table: the promises in a form in which a change of one entry can be
followed, and what they do not say but the calls depend on. A free entry is all zero, as new entries are made
from it; a directory is one entry; names are stored names, so that a lookup under the stored name finds what
is there; the parent of an entry is the directory that lists it or the file that it continues, which ties the two
views of a directory together; a file's references are blocks or 0 (`Refs`), from which no data goes over the
table. `EveryEntryUnderRoot` counts steps; `Rooted` says instead that every set of used entries that is closed under parents
holds the root, which a move to a directory that is not below the moved entry keeps, and
from which the counted form follows (`GoodRooted`: going up visits no entry twice before the root). Within a call the table
is not good, and so `Good` has a parameter: the entries that are in the table but in no directory's
list, as a new one before `add_ref_in_entry`, a moved one between its two directories, and what a recursive deletion has
unlisted above where it is. TLC has checked `IInv` as an invariant of the instance of `fs_careful` too.

NSFSTables goes up to what a call does to one directory or one file. First without the code: which changes of a table keep it good (`Link`,
`Unlink`, `NewUnlisted`, `Reparent`, `Freed`, `CutShorter`, `Extend`), and that a good table keeps
the promises (`GoodPromises`). Then the code's loops, each by induction over its rounds with `UpTo`: the result of each is one of
these changes. The longest are `remove_ref_in_entry`, whose state is a pair of copies in memory;
`delete_n`, by the depth, where the invariant at depth q is that what is still to be deleted is no more than q
entries (`DeleteLevels`), so that the bound on the depth is never met; and the growth of a file by a block, which may append an entry
to the chain (`Grow` to `Sized`). NSFSProofs puts the calls together. A path that finds something is a
walk down from the root through entries that each exist (`Walk`), which is where "not below" comes from when a directory moves: the walk to the
destination does not pass the source unless its path is a prefix. A copy is a sequence of such calls, each of which must find what the
earlier ones left, by its path; `InDirectories` says that a path leads through directories to an entry, and stays true
when other entries appear (`StaysIn`). A copy within a disk reads a tree that grows meanwhile; what was in it stays (`Kept`).

Only model-checked: the refinement of `FileStore` (its tree is read off the disks by a recursive operator, and the proof would need an induction
over trees), what the file system's failures leave alone (`fs_faults`), and liveness, which is out of the prover's reach.

## 6. Not modelled

- *Clock, disk detection, PCI, keyboard, screen, serial line, boot loader*: device registers, conversions and tables filled
  once; the other modules use only that time passes and that a disk is there. `timer_handler`'s race for the CMOS index port
  and the wrap of `io_gettimer` are in the list of hazards without a property: both need the values of
  device registers and counters over hours, and no other part depends on them but waits.
- *Steps of `fs_format`, `mkfs.c`, `fs_get_info`*: the initial image is that of `fs_format` after the kernel's file was
  deleted. *`fs_list`, `fs_print_map`* only read. Times of entries are left out, and with them what `fs.h:82-83` says of the times of chained entries. File names as characters: `string_to_name` is a function
  with `StoredName[StoredName[n]] = StoredName[n]`. A BIOS that reports failure with code 0 counts as success in the code
  (`hwio.c:1099`); the model's BIOS does not do it.
- *The file system under the sound handler's reads*: a read between two writes of a call may see a chain that is being
  changed. NSFS makes a call one action; to cut it at every write would multiply its states beyond
  what TLC can explore, and the handler only reads: Sound has the read fail.
- *Network*: checksums (`net.c:274-279` folds the carry once), the card's CRC, header fields but addresses, ports and sizes; the
  command line's setting of the local addresses. After a frame went over the ring (`astray`) the handler reads one of the ring's pages, where the
  code may follow a page number outside of it. Writes of the page bits of the command register and of the two bytes of a count are not
  cut. How QEMU's NE2000 sets RDC on a write to the command register is taken from how
  the code uses it.
- *Sound*: rates, stereo and the search for the card; 0xD0 is taken to pause 16-bit sounds too; what is heard of a
  sound whose samples are miscounted.
- *Editor*: the line number in the title; what a save that only succeeds in part leaves on the disk; a text that fills the buffer. *`play.c`, `unet.c`*: loops that poll; the liveness of `sound` and `net` is
  about what they poll. *`nas.c`*: an assembler whose parsing and encoding are one pass over text without
  state that outlives it. *Command line*: parsing, and calls that other modules model.
