------------------------------- MODULE Sound -------------------------------
(***************************************************************************)
(* Sounds (source/sound.c).  The Sound Blaster plays the two halves of a    *)
(* DMA buffer in turn and interrupts after each; the handler counts the     *)
(* samples down, refills the half that was played and, before the end,      *)
(* leaves the card's automatic mode and programs the last block by itself.  *)
(* The main thread starts and stops sounds and may ask whether one plays,   *)
(* which stops it when its time is over.                                   *)
(*                                                                         *)
(* The card plays on between any two steps of the code.  An interrupt that  *)
(* comes while the last one is not acknowledged is lost, for its line is    *)
(* on already.                                                              *)
(*                                                                         *)
(* Of a file only the chunk matters that holds its samples, and of that     *)
(* where each byte of the buffer comes from: its bytes are counted from the  *)
(* chunk's header on, which is where sb_play leaves the file's position.    *)
(***************************************************************************)
EXTENDS Integers

CONSTANTS
  HalfBytes,      \* DMA_buffer_size / 2 (0x1000)
  HeaderBytes,    \* bytes of the header of a chunk (8)
  MaxBlock,       \* samples of the longest block that the card counts (0x10000)
  Files           \* what is played: [bits, bytes], where bytes is the length of the samples

SoundUnits(f) == f.bits \div 8
ASSUME HalfAssumption == HalfBytes \in Nat \ {0} /\ HalfBytes % 2 = 0
ASSUME CountAssumption == HeaderBytes \in Nat /\ MaxBlock \in Nat \ {0}
ASSUME FileAssumption == \A f \in Files : f.bits \in {8, 16} /\ f.bytes \in Nat

VARIABLES
  enabled,              \* device.enabled
  playing_file,         \* bits, bytes and pos
  remaining_samples, read_remaining_bytes, is_playing, read_buffer_half,   \* play_state
  DMA_buffer,           \* for every byte, which byte of the chunk it is
  mode,                 \* what the card does: "idle", "auto", "exiting" (auto for this
                        \* block only) or "single"
  address, left,        \* where it plays, in bytes, and how many samples of the block are left
  pending,              \* its interrupt: on until the handler acknowledges it
  overtime,             \* more time has passed than length_seconds
  pc, then, handler,    \* where the main thread is, what follows a stop, where the handler is
  heard, faithful,      \* history: samples played, and whether they were the chunk's in order
  trouble               \* history, of this sound: an interrupt was lost, a read failed, or
                        \* it is of a length that the driver miscounts

play_state == <<remaining_samples, read_remaining_bytes, is_playing, read_buffer_half>>
block == <<mode, address, left>>
control == <<pc, then, handler>>
history == <<heard, faithful, trouble>>
vars == <<enabled, playing_file, play_state, DMA_buffer, block, pending, overtime, control, history>>
-----------------------------------------------------------------------------
DMA_buffer_size == 2 * HalfBytes
Zero == -1       \* sb_play clears the buffer
Silence == -2
Outside == -3    \* memory behind the buffer

bytes_per_sample == SoundUnits(playing_file)
bytes_to_samples(bytes) == bytes \div bytes_per_sample
HalfSamples == bytes_to_samples(DMA_buffer_size) \div 2
Samples == bytes_to_samples(playing_file.bytes)
Least(a, b) == IF a <= b THEN a ELSE b
-----------------------------------------------------------------------------
(* Filling the buffer. *)

\* What half a buffer holds after n bytes were read from pos: when it is not filled, the
\* rest is silent; when the read fails, so is all of it, or what was there stays.
Filled(buffer, half, pos, n, ok) ==
  LET At(i) == i - half * HalfBytes
  IN  [i \in DOMAIN buffer |->
         IF At(i) \notin 0 .. HalfBytes - 1 THEN buffer[i]
         ELSE IF ok /\ At(i) < n THEN pos + At(i)
         ELSE IF n < HalfBytes THEN Silence ELSE buffer[i]]

\* A mistake: a half is read whole, also behind the end of the sound.
Portion_whole(remaining) == HalfBytes
\* The bytes that one call of read_buffer reads.
Portion(remaining) == Least(remaining, HalfBytes)

\* read_buffer, in the handler.
read_buffer(half, ok) ==
  LET n == Portion(read_remaining_bytes) IN
    \/ /\ n = 0
       /\ UNCHANGED <<DMA_buffer, playing_file, read_remaining_bytes, trouble>>
    \/ /\ n > 0
       /\ DMA_buffer' = Filled(DMA_buffer, half, playing_file.pos, n, ok)
       /\ playing_file' = [playing_file EXCEPT !.pos = @ + n]
       /\ read_remaining_bytes' = read_remaining_bytes - n
       /\ trouble' = (trouble \/ ~ok)
-----------------------------------------------------------------------------
(* Programming the card. *)

\* sb_auto_init_playback.
sb_auto_init_playback ==
  /\ mode' = "auto" /\ address' = 0
  /\ left' = HalfSamples

\* The address of the last block.  A channel of 16 bits counts words, and the offset
\* is given in bytes.
BlockAddress(half) ==
  CASE playing_file.bits = 8 -> half * HalfBytes
    [] playing_file.bits = 16 -> 2 * (half * HalfBytes)

\* sb_single_cycle_playback; what it writes to DMA and card is one less, in 16 bits.
sb_single_cycle_playback(samples, half) ==
  /\ mode' = "single" /\ address' = BlockAddress(half)
  /\ left' = IF samples = 0 THEN MaxBlock ELSE samples
-----------------------------------------------------------------------------
(* The main thread. *)

\* Code runs when the handler does not, and an interrupt is taken before it goes on.
MainRuns == handler = "out" /\ ~pending
Main(from, to) == pc = from /\ pc' = to /\ MainRuns

\* io_sound_play and io_sound_stop of a program, and io_sound_is_playing when the time
\* is over.
Unavailable == /\ Main("idle", "idle") /\ ~enabled
               /\ UNCHANGED vars
io_sound_play ==
  /\ Main("idle", "pause") /\ enabled
  /\ then' = "open"
  /\ UNCHANGED <<enabled, playing_file, play_state, DMA_buffer, block, pending, overtime, handler, history>>
StopBegins ==
  /\ then' = "idle"
  /\ UNCHANGED <<enabled, playing_file, play_state, DMA_buffer, block, pending, overtime, handler, history>>
io_sound_stop == Main("idle", "pause") /\ StopBegins

\* A mistake: a sound is never stopped for its time.
is_playing_only == Main("idle", "idle") /\ is_playing /\ overtime /\ UNCHANGED vars
io_sound_is_playing == Main("idle", "pause") /\ is_playing /\ overtime /\ StopBegins

\* A mistake: a sound is stopped without the card.
PauseNothing ==
  /\ Main("pause", "stop")
  /\ UNCHANGED <<enabled, playing_file, play_state, DMA_buffer, block, pending, overtime, then,
                 handler, history>>

\* A stop pauses the card, and then says so.
Pause ==
  /\ Main("pause", "stop")
  /\ mode' = "idle"
  /\ UNCHANGED <<enabled, playing_file, play_state, DMA_buffer, address, left, pending, overtime,
                 then, handler, history>>
Stop ==
  /\ Main("stop", then)
  /\ is_playing' = FALSE
  /\ UNCHANGED <<enabled, playing_file, remaining_samples, read_remaining_bytes, read_buffer_half,
                 DMA_buffer, block, pending, overtime, then, handler, history>>

\* sb_play reads the file's chunks, or fails.  Behind the header of the chunk that holds the
\* samples it does not go.
Open(f) ==
  /\ Main("open", "start")
  /\ playing_file' = [bits |-> f.bits, bytes |-> f.bytes, pos |-> 0]
  /\ remaining_samples' = f.bytes \div SoundUnits(f)
  /\ read_remaining_bytes' = f.bytes
  /\ read_buffer_half' = 0
  /\ DMA_buffer' = [i \in DOMAIN DMA_buffer |-> Zero]
  /\ heard' = 0 /\ faithful' = TRUE /\ trouble' = FALSE
  /\ UNCHANGED <<enabled, is_playing, block, pending, overtime, then, handler>>
OpenFails ==
  /\ Main("open", "idle")
  /\ read_buffer_half' = 0
  /\ DMA_buffer' = [i \in DOMAIN DMA_buffer |-> Zero]
  /\ UNCHANGED <<enabled, playing_file, remaining_samples, read_remaining_bytes, is_playing, block,
                 pending, overtime, then, handler, history>>

\* A file without a sample is played as the longest block there is.  One of 16 bits that
\* has an odd byte more than the buffer is played in automatic mode as it does not fit in,
\* and its last sample is counted to be in the buffer: that mode is not left in time.
Miscounted ==
  \/ Samples = 0
  \/ playing_file.bytes > DMA_buffer_size /\ Samples * bytes_per_sample <= DMA_buffer_size

\* Its locked part: both halves are read, and the card starts if its DMA channel does.
Start(ok) ==
  LET first == Portion(read_remaining_bytes)
      second == Portion(read_remaining_bytes - first)
      rest == read_remaining_bytes - first - second
      one == IF first = 0 THEN DMA_buffer ELSE Filled(DMA_buffer, 0, 0, first, ok)
  IN  /\ Main("start", "check")
      /\ DMA_buffer' = IF second = 0 THEN one ELSE Filled(one, 1, first, second, ok)
      /\ playing_file' = [playing_file EXCEPT !.pos = first + second]
      /\ read_remaining_bytes' = rest
      /\ IF rest > 0
         THEN sb_auto_init_playback /\ UNCHANGED remaining_samples
         ELSE sb_single_cycle_playback(remaining_samples, 0) /\ remaining_samples' = 0
      /\ trouble' = (~ok \/ Miscounted) /\ overtime' = FALSE
      /\ UNCHANGED <<heard, faithful, enabled, is_playing, read_buffer_half, pending, then, handler>>

\* It plays if the DMA channel is busy, and is stopped if it is not.
Check(busy) ==
  /\ pc = "check" /\ pc' = "idle"
  /\ is_playing' = busy
  /\ mode' = IF busy THEN mode ELSE "idle"
  /\ UNCHANGED <<enabled, playing_file, remaining_samples, read_remaining_bytes, read_buffer_half,
                 DMA_buffer, address, left, pending, overtime, then, handler, history>>
-----------------------------------------------------------------------------
(* The handler: it counts, refills the half that was played and programs    *)
(* what comes after the half that plays now, and acknowledges.  The main    *)
(* thread keeps it out from the first buffer to the check.                  *)

Step(from, to) == handler = from /\ handler' = to
handler_keeps == <<enabled, pc, then, overtime, heard, faithful>>

\* A mistake: the samples of a half that was played are counted as a buffer's.
Counted_buffers(remaining) == remaining - 2 * HalfSamples
\* What is left to play after the interrupt of a half.
Counted(remaining) == remaining - HalfSamples

HandlerBegins ==
  LET remaining == Counted(remaining_samples) IN
    /\ pending /\ pc # "check"
    /\ IF is_playing
       THEN /\ remaining_samples' = remaining
            /\ is_playing' = (remaining > 0)
            /\ Step("out", IF remaining > 0 THEN "refill" ELSE "ack")
       ELSE Step("out", "ack") /\ UNCHANGED <<remaining_samples, is_playing>>
    /\ UNCHANGED <<handler_keeps, playing_file, read_remaining_bytes, read_buffer_half, DMA_buffer,
                   block, pending, trouble>>

Refill(ok) ==
  /\ Step("refill", "program")
  /\ read_buffer(read_buffer_half, ok)
  /\ UNCHANGED <<handler_keeps, remaining_samples, is_playing, read_buffer_half, block, pending>>

\* A mistake: the card stays in its automatic mode until the last half.
ProgramLate ==
  /\ Step("program", "ack")
  /\ IF remaining_samples <= HalfSamples
     THEN /\ sb_single_cycle_playback(remaining_samples, 1 - read_buffer_half)
          /\ remaining_samples' = 0
          /\ UNCHANGED read_buffer_half
     ELSE read_buffer_half' = 1 - read_buffer_half /\ UNCHANGED <<block, remaining_samples>>
  /\ UNCHANGED <<handler_keeps, playing_file, read_remaining_bytes, is_playing, DMA_buffer, pending,
                 trouble>>

Program ==
  /\ Step("program", "ack")
  /\ IF remaining_samples <= HalfSamples
     THEN /\ sb_single_cycle_playback(remaining_samples, 1 - read_buffer_half)
          /\ remaining_samples' = 0
          /\ UNCHANGED read_buffer_half
     ELSE /\ mode' = IF remaining_samples <= 2 * HalfSamples /\ mode = "auto" THEN "exiting" ELSE mode
          /\ read_buffer_half' = 1 - read_buffer_half
          /\ UNCHANGED <<address, left, remaining_samples>>
  /\ UNCHANGED <<handler_keeps, playing_file, read_remaining_bytes, is_playing, DMA_buffer, pending,
                 trouble>>

Acknowledge ==
  /\ Step("ack", "out")
  /\ pending' = FALSE
  /\ UNCHANGED <<handler_keeps, playing_file, play_state, DMA_buffer, block, trouble>>
-----------------------------------------------------------------------------
(* The card and the time. *)

\* What the card plays at an address, as a sample of the chunk.
IsSample(n, at) ==
  IF n >= Samples THEN TRUE
  ELSE at < DMA_buffer_size /\ DMA_buffer[at] = n * bytes_per_sample

PlaySample ==
  /\ mode # "idle" /\ left > 0
  /\ left' = left - 1
  /\ address' = IF mode = "single" THEN address + bytes_per_sample
                ELSE (address + bytes_per_sample) % DMA_buffer_size
  /\ heard' = Least(heard + 1, Samples + 1)
  /\ faithful' = (faithful /\ IsSample(heard, address))
  /\ UNCHANGED <<enabled, playing_file, play_state, DMA_buffer, mode, pending, overtime, control, trouble>>

BlockEnds ==
  /\ mode # "idle" /\ left = 0
  /\ IF mode = "auto" THEN left' = HalfSamples /\ UNCHANGED mode
     ELSE mode' = "idle" /\ UNCHANGED left
  /\ pending' = TRUE
  /\ trouble' = (trouble \/ pending)
  /\ UNCHANGED <<enabled, playing_file, play_state, DMA_buffer, address, overtime, control, heard, faithful>>

\* length_seconds are over: not before the file could be played.  Calls and handlers
\* take no time of the order of seconds.
TimeUp ==
  /\ is_playing /\ ~overtime
  /\ heard >= Samples \/ (mode = "idle" /\ pc = "idle" /\ handler = "out" /\ ~pending)
  /\ overtime' = TRUE
  /\ UNCHANGED <<enabled, playing_file, play_state, DMA_buffer, block, pending, control, history>>
-----------------------------------------------------------------------------
\* io_sound_init finds a card, or leaves the driver disabled.
Init ==
  /\ enabled \in BOOLEAN
  /\ playing_file = [bits |-> 8, bytes |-> 0, pos |-> 0]
  /\ remaining_samples = 0 /\ read_remaining_bytes = 0
  /\ is_playing = FALSE /\ read_buffer_half = 0
  /\ DMA_buffer = [i \in 0 .. DMA_buffer_size - 1 |-> Zero]
  /\ mode = "idle" /\ address = 0 /\ left = 0
  /\ pending = FALSE /\ overtime = FALSE
  /\ pc = "idle" /\ then = "idle" /\ handler = "out"
  /\ heard = 0 /\ faithful = TRUE /\ trouble = FALSE

Continues ==
  \/ Pause \/ Stop
  \/ \E f \in Files : Open(f)
  \/ OpenFails
  \/ \E ok \in BOOLEAN : Start(ok)
  \/ \E busy \in BOOLEAN : Check(busy)
Handler ==
  \/ HandlerBegins
  \/ \E ok \in BOOLEAN : Refill(ok)
  \/ Program
  \/ Acknowledge
Card == PlaySample \/ BlockEnds

Next ==
  \/ Unavailable \/ io_sound_play \/ io_sound_stop \/ io_sound_is_playing
  \/ Continues \/ Handler \/ Card \/ TimeUp

Spec == Init /\ [][Next]_vars

\* A program that waits for a sound asks in a loop whether it plays; code that has
\* begun goes on, the card plays and time passes.
FairSpec ==
  /\ Spec
  /\ WF_vars(Continues) /\ WF_vars(Handler) /\ WF_vars(Card) /\ WF_vars(TimeUp)
  /\ WF_vars(io_sound_is_playing)
-----------------------------------------------------------------------------
(* What should hold. *)

TypeOK ==
  /\ enabled \in BOOLEAN /\ is_playing \in BOOLEAN /\ read_buffer_half \in 0 .. 1
  /\ playing_file.bits \in {8, 16} /\ playing_file.pos \in 0 .. playing_file.bytes
  /\ remaining_samples \in -HalfSamples .. Samples
  /\ read_remaining_bytes \in 0 .. playing_file.bytes
  /\ DMA_buffer \in [0 .. DMA_buffer_size - 1 -> {Zero, Silence} \cup 0 .. playing_file.bytes - 1]
  /\ mode \in {"idle", "auto", "exiting", "single"}
  /\ address \in 0 .. 2 * (DMA_buffer_size + MaxBlock) /\ left \in 0 .. DMA_buffer_size + MaxBlock
  /\ pending \in BOOLEAN /\ overtime \in BOOLEAN
  /\ pc \in {"idle", "pause", "stop", "open", "start", "check"} /\ then \in {"idle", "open"}
  /\ handler \in {"out", "refill", "program", "ack"}

\* The last block of this file is played from the second half, with 16 bits.
LastBlockIsMisplaced ==
  /\ playing_file.bits = 16
  /\ playing_file.bytes > DMA_buffer_size
  /\ ((Samples * bytes_per_sample + HalfBytes - 1) \div HalfBytes) % 2 = 0

\* What is heard is the chunk from its header on, sample by sample and as many as it has
\* behind the header: a half is never played before it was read or overwritten before it
\* was played.  Otherwise an interrupt was lost, a read failed, the length is miscounted,
\* or the last block is one of 16 bits in the second half.  The header is played with the
\* rest, and as many bytes at the end are not (PlayedIsFile).
PlayedInOrder == trouble \/ LastBlockIsMisplaced \/ faithful

\* sound.h:12 "Play wav file": what is heard of a sound without trouble is the file's
\* samples.  It is not: sb_play goes behind the headers of the chunks that it skips, and
\* not behind that of the samples' (MCSound_header.cfg finds it violated).
PlayedIsFile ==
  [][heard' = heard + 1 /\ heard < Samples /\ ~trouble /\ ~LastBlockIsMisplaced =>
       DMA_buffer[address] = HeaderBytes + heard * bytes_per_sample]_vars

\* A sound that is over has been heard to its end, unless a program stopped it: neither
\* does the handler end it early nor does it run out of time, but in trouble.  (That it does
\* not run out of time is what TimeUp takes for granted of the card's pace.)
HeardInFull ==
  [][is_playing /\ ~is_playing' /\ ~trouble =>
       \/ heard = Samples
       \/ handler' = "out" /\ ~overtime]_vars

\* Nothing plays when no sound is playing and no call is under way.
SilentWhenStopped ==
  ~is_playing /\ ~trouble /\ pc = "idle" /\ handler = "out" => mode = "idle"

\* Every sound ends, also one that waits for an interrupt that was lost.
SoundEnds == is_playing ~> ~is_playing
=============================================================================
