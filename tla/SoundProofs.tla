---------------------------- MODULE SoundProofs ----------------------------
(***************************************************************************)
(* For any buffer and any files: a sound that met no trouble is played to   *)
(* its end unless a program stops it, and nothing plays when none does.  The *)
(* proof counts samples: those that were heard, those left of the block      *)
(* that plays, and those the code still counts make the whole sound.  What   *)
(* is heard are the bytes from the chunk's header on, in order: on top of    *)
(* the count, the proof keeps which samples each half of the buffer holds    *)
(* while the card plays the one and the handler fills the other.            *)
(***************************************************************************)
EXTENDS Sound, TLAPS

-----------------------------------------------------------------------------
(* The invariant. *)

\* What the rest needs of types.
Kinds ==
  /\ playing_file \in [bits : {8, 16}, bytes : Nat, pos : Int]
  /\ remaining_samples \in Int /\ read_remaining_bytes \in Int
  /\ mode \in {"idle", "auto", "exiting", "single"}
  /\ left \in Nat /\ heard \in Nat
  /\ pc \in {"idle", "pause", "stop", "open", "start", "check"} /\ then \in {"idle", "open"}
  /\ handler \in {"out", "refill", "program", "ack"}

\* Where the main thread is: from the pause to the start the card is at rest, and no
\* sound plays from the stop to the check.
Places ==
  /\ pc \in {"stop", "open", "start"} => mode = "idle" /\ ~pending /\ handler = "out"
  /\ pc \in {"open", "start", "check"} => ~is_playing /\ handler = "out"
  /\ pc = "check" => ~overtime
  /\ pc = "start" =>
       /\ heard = 0 /\ remaining_samples = Samples
       /\ read_remaining_bytes = playing_file.bytes

\* The handler counts and programs only for a sound that plays and a block that ended.
HandlerPlaces ==
  /\ handler # "out" => pending
  /\ handler \in {"refill", "program"} => is_playing /\ remaining_samples > 0

\* The card plays a block, whose samples the code still counts among the remaining
\* ones, unless it is the last: they are taken off at its interrupt.
Plays ==
  \/ /\ mode = "auto" /\ remaining_samples > 2 * HalfSamples
     /\ heard + left + remaining_samples = Samples + HalfSamples
  \/ /\ mode = "exiting" /\ HalfSamples < remaining_samples
     /\ remaining_samples <= 2 * HalfSamples
     /\ heard + left + remaining_samples = Samples + HalfSamples
  \/ mode = "single" /\ remaining_samples = 0 /\ heard + left = Samples

\* A block has ended, and the handler has not begun.
Ended ==
  \/ /\ mode = "auto" /\ remaining_samples > 2 * HalfSamples
     /\ heard + left + remaining_samples = Samples + 2 * HalfSamples
  \/ /\ mode = "idle" /\ HalfSamples < remaining_samples
     /\ remaining_samples <= 2 * HalfSamples
     /\ heard + remaining_samples = Samples + HalfSamples
  \/ mode = "idle" /\ remaining_samples = 0 /\ heard = Samples

\* The handler has counted the block.
IsCounted ==
  \/ /\ mode = "auto" /\ remaining_samples > HalfSamples
     /\ heard + left + remaining_samples = Samples + HalfSamples
  \/ /\ mode = "idle" /\ 0 < remaining_samples /\ remaining_samples <= HalfSamples
     /\ heard + remaining_samples = Samples

Sounding == pc # "stop" /\ (is_playing \/ pc = "check")

\* Without trouble.
Balance ==
  /\ heard <= Samples
  /\ ~is_playing /\ pc # "check" => mode = "idle"
  /\ is_playing /\ overtime => heard = Samples
  /\ Sounding =>
       /\ handler = "ack" \/ (handler = "out" /\ ~pending) => Plays
       /\ handler = "out" /\ pending => Ended
       /\ handler \in {"refill", "program"} => IsCounted

SoundInv == Kinds /\ Places /\ HandlerPlaces /\ (~trouble => Balance)
-----------------------------------------------------------------------------
(* Samples and halves. *)

LEMMA Sizes ==
  ASSUME Kinds
  PROVE  HalfSamples \in Nat \ {0} /\ Samples \in Nat
<1>1. HalfBytes \in Nat \ {0} /\ HalfBytes % 2 = 0 /\ playing_file.bytes \in Nat
  BY HalfAssumption DEF Kinds
<1>2. CASE playing_file.bits = 8
  <2>1. bytes_per_sample = 1
    BY <1>2 DEF bytes_per_sample, SoundUnits
  <2> QED BY <1>1, <2>1 DEF HalfSamples, Samples, bytes_to_samples, DMA_buffer_size
<1>3. CASE playing_file.bits = 16
  <2>1. bytes_per_sample = 2
    BY <1>3 DEF bytes_per_sample, SoundUnits
  <2> QED BY <1>1, <2>1 DEF HalfSamples, Samples, bytes_to_samples, DMA_buffer_size
<1> QED BY <1>2, <1>3 DEF Kinds

\* A step that leaves the file's kind and size alone changes neither.
LEMMA SizesStay ==
  ASSUME playing_file'.bits = playing_file.bits, playing_file'.bytes = playing_file.bytes
  PROVE  HalfSamples' = HalfSamples /\ Samples' = Samples /\ bytes_per_sample' = bytes_per_sample
BY DEF HalfSamples, Samples, bytes_to_samples, bytes_per_sample, SoundUnits, DMA_buffer_size

\* A file with more bytes than the buffer has more samples, unless it is miscounted.
LEMMA MoreThanTheBuffer ==
  ASSUME Kinds, playing_file.bytes > 2 * HalfBytes, ~Miscounted
  PROVE  Samples > 2 * HalfSamples
<1>1. HalfBytes \in Nat \ {0} /\ HalfBytes % 2 = 0 /\ playing_file.bytes \in Nat
  BY HalfAssumption DEF Kinds
<1>0. Samples \in Nat /\ Samples * bytes_per_sample > 2 * HalfBytes
  <2>1. ~(Samples * bytes_per_sample <= 2 * HalfBytes)
    BY <1>1 DEF Miscounted, DMA_buffer_size
  <2>2. bytes_per_sample \in {1, 2}
    BY DEF Kinds, bytes_per_sample, SoundUnits
  <2> QED BY <1>1, <2>1, <2>2, Sizes
<1>2. CASE playing_file.bits = 8
  <2>1. bytes_per_sample = 1
    BY <1>2 DEF bytes_per_sample, SoundUnits
  <2> QED BY <1>0, <1>1, <2>1 DEF HalfSamples, bytes_to_samples, DMA_buffer_size
<1>3. CASE playing_file.bits = 16
  <2>1. bytes_per_sample = 2
    BY <1>3 DEF bytes_per_sample, SoundUnits
  <2> QED BY <1>0, <1>1, <2>1 DEF HalfSamples, bytes_to_samples, DMA_buffer_size
<1> QED BY <1>2, <1>3 DEF Kinds

-----------------------------------------------------------------------------
(* Types and places. *)

LEMMA PortionIsInt ==
  ASSUME NEW n \in Int
  PROVE  Portion(n) \in Int /\ (n > 0 => n - Portion(n) >= 0)
BY HalfAssumption DEF Portion, Least

LEMMA KindsStep ==
  ASSUME Kinds, Places, HandlerPlaces, Next
  PROVE  Kinds'
<1> USE DEF Kinds, Main, Step, MainRuns, control, history, block, play_state, handler_keeps
<1>1. CASE Unavailable \/ io_sound_play \/ io_sound_stop \/ io_sound_is_playing
  BY <1>1 DEF Unavailable, io_sound_play, io_sound_stop, io_sound_is_playing, StopBegins, vars
<1>2. CASE Pause \/ Stop \/ OpenFails
  BY <1>2 DEF Pause, Stop, OpenFails
<1>3. ASSUME NEW f \in Files, Open(f) PROVE Kinds'
  <2>1. f.bits \in {8, 16} /\ f.bytes \in Nat /\ SoundUnits(f) \in Nat \ {0}
    BY FileAssumption DEF SoundUnits
  <2>2. f.bytes \div SoundUnits(f) \in Int
    BY <2>1
  <2>3. playing_file' \in [bits : {8, 16}, bytes : Nat, pos : Int]
    <3>1. playing_file' = [bits |-> f.bits, bytes |-> f.bytes, pos |-> 0]
      BY <1>3 DEF Open
    <3> QED BY <2>1, <3>1
  <2> QED BY <1>3, <2>2, <2>3 DEF Open
<1>4. ASSUME NEW ok \in BOOLEAN, Start(ok) PROVE Kinds'
  <2> DEFINE first == Portion(read_remaining_bytes)
             second == Portion(read_remaining_bytes - first)
             rest == read_remaining_bytes - first - second
  <2>1. first \in Int /\ second \in Int
    BY PortionIsInt
  <2> HIDE DEF first, second
  <2>2. /\ playing_file' = [playing_file EXCEPT !.pos = first + second]
        /\ read_remaining_bytes' = rest
        /\ IF rest > 0
           THEN sb_auto_init_playback /\ UNCHANGED remaining_samples
           ELSE sb_single_cycle_playback(remaining_samples, 0) /\ remaining_samples' = 0
        /\ overtime' = FALSE /\ pc' = "check"
        /\ UNCHANGED <<heard, is_playing, pending, then, handler>>
    BY <1>4 DEF Start, first, second
  <2>3. remaining_samples = Samples
    BY <1>4 DEF Start, Places
  <2>4. left' \in Nat /\ mode' \in {"auto", "single"} /\ remaining_samples' \in Int
    BY <2>2, <2>3, Sizes, CountAssumption DEF sb_auto_init_playback, sb_single_cycle_playback
  <2>5. playing_file' \in [bits : {8, 16}, bytes : Nat, pos : Int]
    BY <2>1, <2>2
  <2> QED BY <2>1, <2>2, <2>4, <2>5
<1>5. ASSUME NEW busy \in BOOLEAN, Check(busy) PROVE Kinds'
  BY <1>5 DEF Check
<1>6. CASE HandlerBegins
  <2>1. Counted(remaining_samples) \in Int
    BY Sizes DEF Counted
  <2> QED BY <1>6, <2>1 DEF HandlerBegins
<1>7. ASSUME NEW ok \in BOOLEAN, Refill(ok) PROVE Kinds'
  <2>1. Portion(read_remaining_bytes) \in Int
    BY PortionIsInt
  <2>2. playing_file' \in [bits : {8, 16}, bytes : Nat, pos : Int]
    BY <1>7, <2>1 DEF Refill, read_buffer
  <2>3. read_remaining_bytes' \in Int
    BY <1>7, <2>1 DEF Refill, read_buffer
  <2> QED BY <1>7, <2>2, <2>3 DEF Refill
<1>8. CASE Program
  BY <1>8, Sizes, CountAssumption DEF HandlerPlaces, Program, sb_single_cycle_playback
<1>9. CASE Acknowledge
  BY <1>9 DEF Acknowledge
<1>10. CASE PlaySample
  <2>1. heard' \in Nat
    BY <1>10, Sizes DEF PlaySample, Least
  <2> QED BY <1>10, <2>1 DEF PlaySample
<1>11. CASE BlockEnds
  BY <1>11, Sizes DEF BlockEnds
<1>12. CASE TimeUp
  BY <1>12 DEF TimeUp
<1> QED
  BY <1>1, <1>2, <1>3, <1>4, <1>5, <1>6, <1>7, <1>8, <1>9, <1>10, <1>11, <1>12
     DEF Next, Continues, Handler, Card
LEMMA PlacesStep ==
  ASSUME Kinds, Places, HandlerPlaces, Next
  PROVE  Places' /\ HandlerPlaces'
<1> USE DEF Places, HandlerPlaces, Main, Step, MainRuns, control, history, block, play_state,
        handler_keeps
<1>1. CASE Unavailable
  BY <1>1, SizesStay DEF Unavailable, vars
<1>2. CASE io_sound_play \/ io_sound_stop \/ io_sound_is_playing \/ Pause \/ Stop \/ OpenFails
  BY <1>2 DEF io_sound_play, io_sound_stop, io_sound_is_playing, StopBegins, Pause, Stop, OpenFails,
              Kinds
<1>3. ASSUME NEW f \in Files, Open(f) PROVE Places' /\ HandlerPlaces'
  <2>2. playing_file' = [bits |-> f.bits, bytes |-> f.bytes, pos |-> 0]
    BY <1>3 DEF Open
  <2>3. Samples' = f.bytes \div SoundUnits(f) /\ playing_file'.bytes = f.bytes
    BY <2>2 DEF Samples, bytes_to_samples, bytes_per_sample, SoundUnits
  <2> QED BY <1>3, <2>3 DEF Open
<1>4. ASSUME NEW ok \in BOOLEAN, Start(ok) PROVE Places' /\ HandlerPlaces'
  BY <1>4 DEF Start
<1>5. ASSUME NEW busy \in BOOLEAN, Check(busy) PROVE Places' /\ HandlerPlaces'
  BY <1>5 DEF Check
<1>6. CASE Handler
  <2>1. pc \notin {"open", "start"}
    BY <1>6 DEF Handler, HandlerBegins, Refill, Program, Acknowledge
  <2>2. CASE HandlerBegins
    BY <2>1, <2>2, Sizes DEF HandlerBegins, Counted, Kinds
  <2>3. CASE (\E ok \in BOOLEAN : Refill(ok)) \/ Program \/ Acknowledge
    BY <2>1, <2>3 DEF Refill, Program, Acknowledge
  <2> QED BY <1>6, <2>2, <2>3 DEF Handler
<1>7. CASE Card \/ TimeUp
  BY <1>7, SizesStay DEF Card, PlaySample, BlockEnds, TimeUp
<1> QED
  BY <1>1, <1>2, <1>3, <1>4, <1>5, <1>6, <1>7 DEF Next, Continues

-----------------------------------------------------------------------------
(* The samples. *)

\* The code's steps.
LEMMA BalanceOfCode ==
  ASSUME Kinds, Places, HandlerPlaces, ~trouble => Balance, Next, ~(Card \/ TimeUp)
  PROVE  ~trouble' => Balance'
<1> USE DEF Balance, Sounding, Places, HandlerPlaces, Main, Step, MainRuns, control, history, block,
        play_state, handler_keeps
<1>0. HalfSamples \in Nat \ {0} /\ Samples \in Nat
  BY Sizes
<1>1. CASE Unavailable \/ io_sound_play \/ io_sound_stop \/ io_sound_is_playing \/ Pause \/ Stop
           \/ OpenFails
  <2>1. /\ playing_file' = playing_file /\ heard' = heard /\ left' = left
        /\ remaining_samples' = remaining_samples
    BY <1>1 DEF Unavailable, vars, io_sound_play, io_sound_stop, io_sound_is_playing, StopBegins,
                Pause, Stop, OpenFails
  <2>2. HalfSamples' = HalfSamples /\ Samples' = Samples
    BY <2>1, SizesStay
  <2> QED
    BY <1>1, <2>1, <2>2
       DEF Unavailable, vars, io_sound_play, io_sound_stop, io_sound_is_playing, StopBegins, Pause,
           Stop, OpenFails, Plays, Ended, IsCounted, Kinds
<1>3. ASSUME NEW f \in Files, Open(f) PROVE Balance'
  <2>1. Samples' \in Nat
    <3>1. f.bits \in {8, 16} /\ f.bytes \in Nat /\ SoundUnits(f) \in Nat \ {0}
      BY FileAssumption DEF SoundUnits
    <3>2. playing_file' = [bits |-> f.bits, bytes |-> f.bytes, pos |-> 0]
      BY <1>3 DEF Open
    <3>3. Samples' = f.bytes \div SoundUnits(f)
      BY <3>2 DEF Samples, bytes_to_samples, bytes_per_sample, SoundUnits
    <3> QED BY <3>1, <3>3
  <2> QED BY <1>3, <2>1 DEF Open, Kinds
<1>4. ASSUME NEW ok \in BOOLEAN, Start(ok), ~trouble' PROVE Balance'
  <2> DEFINE first == Portion(read_remaining_bytes)
             second == Portion(read_remaining_bytes - first)
             rest == read_remaining_bytes - first - second
  <2>1. /\ playing_file' = [playing_file EXCEPT !.pos = first + second]
        /\ IF rest > 0
           THEN sb_auto_init_playback /\ UNCHANGED remaining_samples
           ELSE sb_single_cycle_playback(remaining_samples, 0) /\ remaining_samples' = 0
        /\ pc = "start" /\ pc' = "check" /\ heard' = heard /\ is_playing' = is_playing
        /\ pending' = pending /\ handler' = handler /\ ~Miscounted
    BY <1>4 DEF Start
  <2>2. HalfSamples' = HalfSamples /\ Samples' = Samples
    BY <2>1, SizesStay DEF Kinds
  <2>3. ~is_playing /\ ~pending /\ handler = "out" /\ heard = 0 /\ remaining_samples = Samples
    BY <2>1
  <2>4. Plays'
    <3>1. CASE rest > 0
      <4>1. read_remaining_bytes > 2 * HalfBytes
        <5>1. read_remaining_bytes \in Int /\ HalfBytes \in Nat
          BY HalfAssumption DEF Kinds
        <5> QED BY <3>1, <5>1 DEF Portion, Least
      <4>2. Samples > 2 * HalfSamples
        BY <2>1, <4>1, MoreThanTheBuffer
      <4>3. mode' = "auto" /\ left' = HalfSamples /\ remaining_samples' = remaining_samples
        BY <2>1, <3>1 DEF sb_auto_init_playback
      <4> QED BY <1>0, <2>1, <2>2, <2>3, <4>2, <4>3 DEF Plays
    <3>2. CASE ~(rest > 0)
      <4>1. mode' = "single" /\ left' = remaining_samples /\ remaining_samples' = 0
        BY <2>1, <2>3, <3>2 DEF sb_single_cycle_playback, Miscounted
      <4> QED BY <1>0, <2>1, <2>2, <2>3, <4>1 DEF Plays
    <3> QED BY <3>1, <3>2
  <2> QED BY <1>0, <2>1, <2>2, <2>3, <2>4
<1>5. ASSUME NEW busy \in BOOLEAN, Check(busy), ~trouble' PROVE Balance'
  <2>1. /\ playing_file' = playing_file /\ heard' = heard /\ left' = left /\ pc = "check"
        /\ remaining_samples' = remaining_samples /\ pc' = "idle" /\ overtime' = overtime
        /\ is_playing' = busy /\ mode' = IF busy THEN mode ELSE "idle"
        /\ handler' = handler /\ pending' = pending /\ ~trouble
    BY <1>5 DEF Check
  <2>2. HalfSamples' = HalfSamples /\ Samples' = Samples
    BY <2>1, SizesStay
  <2>3. CASE busy
    <3>1. mode' = mode
      BY <2>1, <2>3
    <3> QED BY <2>1, <2>2, <2>3, <3>1 DEF Plays, Ended, IsCounted
  <2>4. CASE ~busy
    BY <2>1, <2>2, <2>4
  <2> QED BY <2>3, <2>4
<1>6. CASE HandlerBegins
  <2> DEFINE remaining == remaining_samples - HalfSamples
  <2>1. /\ playing_file' = playing_file /\ heard' = heard /\ left' = left /\ mode' = mode
        /\ pc' = pc /\ pc # "check" /\ overtime' = overtime /\ pending' = pending /\ pending
        /\ handler = "out" /\ trouble' = trouble
        /\ IF is_playing
           THEN /\ remaining_samples' = remaining /\ is_playing' = (remaining > 0)
                /\ handler' = IF remaining > 0 THEN "refill" ELSE "ack"
           ELSE /\ handler' = "ack" /\ remaining_samples' = remaining_samples
                /\ is_playing' = is_playing
    BY <1>6 DEF HandlerBegins, Counted
  <2>2. HalfSamples' = HalfSamples /\ Samples' = Samples
    BY <2>1, SizesStay
  <2>3. CASE ~is_playing
    BY <2>1, <2>2, <2>3
  <2>4. CASE is_playing /\ ~trouble
    <3>1. Ended
      BY <2>1, <2>4
    <3>2. CASE remaining > 0
      <4>1. is_playing' /\ handler' = "refill" /\ remaining_samples' = remaining
        BY <2>1, <2>4, <3>2
      <4>2. IsCounted'
        BY <1>0, <2>1, <2>2, <3>1, <3>2, <4>1 DEF Ended, IsCounted, Kinds
      <4> QED BY <2>1, <2>2, <2>4, <4>1, <4>2
    <3>3. CASE ~(remaining > 0)
      <4>1. ~is_playing' /\ handler' = "ack"
        BY <2>1, <2>4, <3>3
      <4>2. mode = "idle"
        BY <1>0, <3>1, <3>3 DEF Ended, Kinds
      <4> QED BY <2>1, <2>2, <2>4, <4>1, <4>2
    <3> QED BY <3>2, <3>3
  <2> QED BY <2>1, <2>3, <2>4
<1>7. ASSUME NEW ok \in BOOLEAN, Refill(ok), ~trouble' PROVE Balance'
  <2>1. /\ playing_file'.bits = playing_file.bits /\ playing_file'.bytes = playing_file.bytes
        /\ ~trouble
    <3>1. PICK n : playing_file' = playing_file \/ playing_file' = [playing_file EXCEPT !.pos = n]
      BY <1>7 DEF Refill, read_buffer
    <3>2. trouble => trouble'
      BY <1>7 DEF Refill, read_buffer
    <3>3. playing_file'.bits = playing_file.bits /\ playing_file'.bytes = playing_file.bytes
      BY <3>1 DEF Kinds
    <3> QED BY <1>7, <3>2, <3>3
  <2>2. /\ heard' = heard /\ left' = left /\ mode' = mode /\ pc' = pc /\ overtime' = overtime
        /\ pending' = pending /\ remaining_samples' = remaining_samples
        /\ is_playing' = is_playing /\ handler = "refill" /\ handler' = "program"
    BY <1>7 DEF Refill
  <2>3. HalfSamples' = HalfSamples /\ Samples' = Samples
    BY <2>1, SizesStay
  <2> QED BY <2>1, <2>2, <2>3 DEF IsCounted
<1>8. CASE Program
  <2>1. /\ playing_file' = playing_file /\ heard' = heard /\ pc' = pc /\ overtime' = overtime
        /\ pending' = pending /\ is_playing' = is_playing /\ trouble' = trouble
        /\ handler = "program" /\ handler' = "ack" /\ is_playing
    BY <1>8 DEF Program
  <2>2. HalfSamples' = HalfSamples /\ Samples' = Samples
    BY <2>1, SizesStay
  <2>3. ASSUME IsCounted PROVE Plays'
    <3>1. CASE remaining_samples <= HalfSamples
      <4>1. mode' = "single" /\ left' = remaining_samples /\ remaining_samples' = 0
        BY <1>8, <3>1 DEF Program, sb_single_cycle_playback
      <4> QED BY <1>0, <2>1, <2>2, <2>3, <3>1, <4>1 DEF IsCounted, Plays, Kinds
    <3>2. CASE ~(remaining_samples <= HalfSamples)
      <4>1. /\ mode' = IF remaining_samples <= 2 * HalfSamples /\ mode = "auto" THEN "exiting"
                       ELSE mode
            /\ left' = left /\ remaining_samples' = remaining_samples
        BY <1>8, <3>2 DEF Program
      <4> QED BY <1>0, <2>1, <2>2, <2>3, <3>2, <4>1 DEF IsCounted, Plays, Kinds
    <3> QED BY <3>1, <3>2
  <2> QED BY <2>1, <2>2, <2>3
<1>9. CASE Acknowledge
  <2>1. /\ playing_file' = playing_file /\ heard' = heard /\ left' = left /\ mode' = mode
        /\ pc' = pc /\ overtime' = overtime /\ ~pending' /\ is_playing' = is_playing
        /\ remaining_samples' = remaining_samples /\ trouble' = trouble
        /\ handler = "ack" /\ handler' = "out"
    BY <1>9 DEF Acknowledge
  <2>2. HalfSamples' = HalfSamples /\ Samples' = Samples
    BY <2>1, SizesStay
  <2> QED BY <2>1, <2>2 DEF Plays
<1> QED
  BY <1>1, <1>3, <1>4, <1>5, <1>6, <1>7, <1>8, <1>9 DEF Next, Continues, Handler

\* The card's steps, and the time's.
LEMMA BalanceOfCard ==
  ASSUME Kinds, Places, HandlerPlaces, ~trouble => Balance, Card \/ TimeUp
  PROVE  ~trouble' => Balance'
<1> USE DEF Balance, Sounding, Places, HandlerPlaces, control, history, play_state
<1>1. HalfSamples \in Nat \ {0} /\ Samples \in Nat
  BY Sizes
<1>2. /\ playing_file' = playing_file /\ remaining_samples' = remaining_samples /\ pc' = pc
      /\ is_playing' = is_playing /\ handler' = handler
  BY DEF Card, PlaySample, BlockEnds, TimeUp
<1>3. HalfSamples' = HalfSamples /\ Samples' = Samples
  BY <1>2, SizesStay
<1>4. ASSUME PlaySample, ~trouble' PROVE Balance'
  <2>1. /\ mode # "idle" /\ left > 0 /\ left' = left - 1 /\ mode' = mode /\ pending' = pending
        /\ overtime' = overtime /\ heard' = Least(heard + 1, Samples + 1) /\ ~trouble
    BY <1>4 DEF PlaySample
  <2>2. Sounding
    BY <2>1
  <2>3. heard < Samples
    BY <1>1, <2>1, <2>2 DEF Plays, Ended, IsCounted, Kinds
  <2>4. heard' = heard + 1
    BY <1>1, <2>1, <2>3 DEF Least, Kinds
  <2>5. (Plays => Plays') /\ (Ended => Ended') /\ (IsCounted => IsCounted')
    BY <1>1, <1>2, <1>3, <2>1, <2>4 DEF Plays, Ended, IsCounted, Kinds
  <2> QED BY <1>1, <1>2, <1>3, <2>1, <2>3, <2>4, <2>5 DEF Kinds
<1>5. ASSUME BlockEnds, ~trouble' PROVE Balance'
  <2>1. /\ mode # "idle" /\ left = 0 /\ pending' /\ ~pending /\ ~trouble
        /\ heard' = heard /\ overtime' = overtime
        /\ IF mode = "auto" THEN left' = HalfSamples /\ mode' = mode
           ELSE mode' = "idle" /\ left' = left
    BY <1>5 DEF BlockEnds
  <2>2. Sounding /\ handler = "out" /\ Plays
    BY <2>1
  <2>3. Ended'
    BY <1>1, <1>2, <1>3, <2>1, <2>2 DEF Plays, Ended, Kinds
  <2> QED BY <1>1, <1>2, <1>3, <2>1, <2>2, <2>3
<1>6. ASSUME TimeUp, ~trouble' PROVE Balance'
  <2>1. /\ is_playing /\ mode' = mode /\ left' = left /\ heard' = heard /\ pending' = pending
        /\ heard >= Samples \/ (mode = "idle" /\ pc = "idle" /\ handler = "out" /\ ~pending)
        /\ ~trouble
    BY <1>6 DEF TimeUp, block
  <2>2. heard >= Samples
    BY <2>1 DEF Plays
  <2>3. heard = Samples
    BY <1>1, <2>1, <2>2 DEF Kinds
  <2> QED BY <1>2, <1>3, <2>1, <2>3 DEF Plays, Ended, IsCounted
<1> QED BY <1>4, <1>5, <1>6 DEF Card

-----------------------------------------------------------------------------
(* The theorems. *)

LEMMA SoundHolds == Spec => []SoundInv
<1>1. Init => SoundInv
  <2> SUFFICES ASSUME Init PROVE SoundInv
    OBVIOUS
  <2>1. Kinds
    BY DEF Init, Kinds
  <2>2. Samples \in Nat
    BY <2>1, Sizes
  <2> QED
    BY <2>1, <2>2 DEF Init, SoundInv, Places, HandlerPlaces, Balance, Sounding
<1>2. SoundInv /\ [Next]_vars => SoundInv'
  <2>1. SoundInv /\ Next => SoundInv'
    BY KindsStep, PlacesStep, BalanceOfCode, BalanceOfCard DEF SoundInv
  <2>2. SoundInv /\ UNCHANGED vars => SoundInv'
    <3> SUFFICES ASSUME SoundInv, UNCHANGED vars PROVE SoundInv'
      OBVIOUS
    <3>1. /\ HalfSamples' = HalfSamples /\ Samples' = Samples
          /\ bytes_per_sample' = bytes_per_sample
      BY SizesStay DEF vars
    <3> QED
      BY <3>1 DEF SoundInv, Kinds, Places, HandlerPlaces, Balance, Sounding, Plays, Ended, IsCounted,
                  vars, control, history, block, play_state
  <2> QED BY <2>1, <2>2
<1> QED BY <1>1, <1>2, PTL DEF Spec

\* Nothing plays when no sound is playing and no call or handler is under way.
THEOREM SilenceStays == Spec => []SilentWhenStopped
<1>1. SoundInv => SilentWhenStopped
  BY DEF SoundInv, Balance, SilentWhenStopped
<1> QED BY <1>1, SoundHolds, PTL

\* The handler ends a sound only when all its samples were heard, and its time is not
\* over before.
THEOREM SoundsAreHeard == Spec => HeardInFull
<1>1. SoundInv /\ [Next]_vars =>
        [is_playing /\ ~is_playing' /\ ~trouble =>
           \/ heard = Samples
           \/ handler' = "out" /\ ~overtime]_vars
  <2> SUFFICES ASSUME SoundInv, Next, is_playing, ~is_playing', ~trouble
               PROVE  heard = Samples \/ (handler' = "out" /\ ~overtime)
    OBVIOUS
  <2>1. Balance /\ Kinds /\ Places
    BY DEF SoundInv
  <2>2. Stop \/ HandlerBegins \/ \E busy \in BOOLEAN : Check(busy)
    BY DEF Next, Unavailable, io_sound_play, io_sound_stop, io_sound_is_playing, StopBegins,
           Continues, Pause, Open, OpenFails, Start, Handler, Refill, Program, Acknowledge, Card,
           PlaySample, BlockEnds, TimeUp, vars, play_state, handler_keeps
  <2>3. CASE Stop
    BY <2>1, <2>3 DEF Balance, Stop, Main, MainRuns
  <2>4. CASE HandlerBegins
    <3>1. remaining_samples <= HalfSamples /\ pending /\ handler = "out" /\ pc # "check"
      <4>1. /\ is_playing' = (remaining_samples - HalfSamples > 0)
            /\ pending /\ handler = "out" /\ pc # "check"
        BY <2>4 DEF HandlerBegins, Counted, Step
      <4>2. ~(remaining_samples - HalfSamples > 0)
        BY <4>1
      <4> QED BY <2>1, <4>1, <4>2, Sizes DEF Kinds
    <3>2. Ended
      BY <2>1, <3>1 DEF Balance, Sounding, Places
    <3> QED BY <2>1, <3>1, <3>2, Sizes DEF Ended, Kinds
  <2>5. CASE \E busy \in BOOLEAN : Check(busy)
    BY <2>1, <2>5 DEF Check, Places
  <2> QED BY <2>2, <2>3, <2>4, <2>5
<1> QED BY <1>1, SoundHolds, PTL DEF Spec, HeardInFull

-----------------------------------------------------------------------------
(* Bounds.  They hold in trouble too. *)

\* What the driver keeps: what was read of the file and what was not make the file, and
\* a sound that plays never has fewer than no samples left.
Ranges ==
  /\ read_buffer_half \in 0 .. 1
  /\ playing_file.pos \in Nat /\ read_remaining_bytes \in Nat
  /\ playing_file.pos + read_remaining_bytes = playing_file.bytes
  /\ DMA_buffer \in [0 .. DMA_buffer_size - 1 -> {Zero, Silence} \cup 0 .. playing_file.bytes - 1]
  /\ remaining_samples \in -HalfSamples .. Samples
  /\ is_playing \/ pc \in {"start", "check"} => remaining_samples >= 0

\* The address stays near the buffer: in it in automatic mode, and a last block that
\* starts in it ends at most one buffer, or the longest block, behind it.
Addresses ==
  /\ address \in 0 .. 2 * (DMA_buffer_size + MaxBlock) /\ left \in 0 .. DMA_buffer_size + MaxBlock
  /\ mode \in {"auto", "exiting"} => address < DMA_buffer_size
  /\ mode = "single" =>
       address + left * bytes_per_sample <= 2 * (DMA_buffer_size + MaxBlock)

\* The flags.
Booleans ==
  /\ enabled \in BOOLEAN /\ is_playing \in BOOLEAN
  /\ pending \in BOOLEAN /\ overtime \in BOOLEAN

-----------------------------------------------------------------------------
(* Samples and bytes. *)

\* A half is a whole number of samples, and a file may have a byte more than its samples.
LEMMA Bytes ==
  ASSUME Kinds
  PROVE  /\ bytes_per_sample \in {1, 2}
         /\ (playing_file.bits = 16) <=> (bytes_per_sample = 2)
         /\ (playing_file.bits = 8) <=> (bytes_per_sample = 1)
         /\ HalfBytes = HalfSamples * bytes_per_sample
         /\ Samples * bytes_per_sample <= playing_file.bytes
         /\ playing_file.bytes < Samples * bytes_per_sample + bytes_per_sample
<1>1. HalfBytes \in Nat \ {0} /\ HalfBytes % 2 = 0 /\ playing_file.bytes \in Nat
  BY HalfAssumption DEF Kinds
<1>2. CASE playing_file.bits = 8
  <2>1. bytes_per_sample = 1
    BY <1>2 DEF bytes_per_sample, SoundUnits
  <2> QED BY <1>1, <1>2, <2>1 DEF HalfSamples, Samples, bytes_to_samples, DMA_buffer_size
<1>3. CASE playing_file.bits = 16
  <2>1. bytes_per_sample = 2
    BY <1>3 DEF bytes_per_sample, SoundUnits
  <2>2. HalfSamples = HalfBytes \div 2
    BY <1>1, <2>1 DEF HalfSamples, bytes_to_samples, DMA_buffer_size
  <2>3. Samples = playing_file.bytes \div 2
    BY <2>1 DEF Samples, bytes_to_samples
  <2> QED BY <1>1, <1>3, <2>1, <2>2, <2>3
<1> QED BY <1>2, <1>3 DEF Kinds

\* All of the sizes.
LEMMA Measures ==
  ASSUME Kinds, Ranges
  PROVE  /\ HalfSamples \in Nat \ {0} /\ Samples \in Nat
         /\ bytes_per_sample \in {1, 2} /\ HalfBytes = HalfSamples * bytes_per_sample
         /\ DMA_buffer_size = 2 * HalfBytes /\ HalfBytes \in Nat \ {0}
         /\ playing_file.bytes \in Nat /\ Samples * bytes_per_sample <= playing_file.bytes
         /\ playing_file.bytes < Samples * bytes_per_sample + bytes_per_sample
         /\ (playing_file.bits = 16) <=> (bytes_per_sample = 2)
         /\ (playing_file.bits = 8) <=> (bytes_per_sample = 1)
BY Sizes, Bytes, HalfAssumption DEF Kinds, DMA_buffer_size

\* A buffer that is filled holds bytes of the file, if it did and they are read from it.
LEMMA FilledHasType ==
  ASSUME NEW bytes \in Nat, NEW half \in 0 .. 1, NEW pos \in Nat, NEW n \in Nat, NEW ok,
         NEW buffer \in [0 .. DMA_buffer_size - 1 -> {Zero, Silence} \cup 0 .. bytes - 1],
         pos + n <= bytes
  PROVE  Filled(buffer, half, pos, n, ok)
           \in [0 .. DMA_buffer_size - 1 -> {Zero, Silence} \cup 0 .. bytes - 1]
<1> DEFINE At(i) == i - half * HalfBytes
           V == {Zero, Silence} \cup 0 .. bytes - 1
           b == Filled(buffer, half, pos, n, ok)
<1>1. b = [i \in 0 .. DMA_buffer_size - 1 |->
             IF At(i) \notin 0 .. HalfBytes - 1 THEN buffer[i]
             ELSE IF ok /\ At(i) < n THEN pos + At(i)
             ELSE IF n < HalfBytes THEN Silence ELSE buffer[i]]
  BY DEF Filled
<1>2. ASSUME NEW i \in 0 .. DMA_buffer_size - 1 PROVE b[i] \in V
  <2>1. i \in Int /\ half * HalfBytes \in Int
    BY HalfAssumption DEF DMA_buffer_size
  <2>2. buffer[i] \in V
    OBVIOUS
  <2>3. At(i) \in 0 .. HalfBytes - 1 /\ At(i) < n => pos + At(i) \in V
    BY <2>1, HalfAssumption
  <2>4. Silence \in V
    OBVIOUS
  <2>5. b[i] = IF At(i) \notin 0 .. HalfBytes - 1 THEN buffer[i]
               ELSE IF ok /\ At(i) < n THEN pos + At(i)
               ELSE IF n < HalfBytes THEN Silence ELSE buffer[i]
    BY <1>1
  <2> HIDE DEF At, V, b
  <2> QED BY <2>2, <2>3, <2>4, <2>5
<1> HIDE DEF V
<1> QED BY <1>1, <1>2

\* A read takes what is left, but at most half a buffer.
LEMMA PortionReads ==
  ASSUME NEW n \in Nat
  PROVE  Portion(n) \in Nat /\ Portion(n) <= n /\ Portion(n) <= HalfBytes
         /\ (n > 0 => Portion(n) > 0) /\ (n > HalfBytes => Portion(n) = HalfBytes)
         /\ (n <= HalfBytes => Portion(n) = n)
BY HalfAssumption DEF Portion, Least
-----------------------------------------------------------------------------
(* Bounds, step by step. *)

\* Every step keeps what the driver keeps in its bounds.
LEMMA RangesStep ==
  ASSUME Kinds, Places, HandlerPlaces, Ranges, Next
  PROVE  Ranges'
<1> USE DEF Main, Step, MainRuns, control, history, block, play_state, handler_keeps
<1>0. HalfSamples \in Nat \ {0} /\ Samples \in Nat
  BY Sizes
<1>1. CASE \/ Unavailable \/ io_sound_play \/ io_sound_stop \/ io_sound_is_playing \/ Pause \/ Stop
           \/ Acknowledge \/ Card \/ TimeUp
  <2>1. /\ playing_file' = playing_file /\ read_remaining_bytes' = read_remaining_bytes
        /\ remaining_samples' = remaining_samples /\ DMA_buffer' = DMA_buffer
        /\ read_buffer_half' = read_buffer_half
    BY <1>1 DEF Unavailable, vars, io_sound_play, io_sound_stop, io_sound_is_playing, StopBegins,
                Pause, Stop, Acknowledge, Card, PlaySample, BlockEnds, TimeUp
  <2>2. HalfSamples' = HalfSamples /\ Samples' = Samples /\ bytes_per_sample' = bytes_per_sample
    BY <2>1, SizesStay
  <2>3. is_playing' \/ pc' \in {"start", "check"} => is_playing \/ pc \in {"start", "check"}
    BY <1>1 DEF Unavailable, vars, io_sound_play, io_sound_stop, io_sound_is_playing, StopBegins,
                Pause, Stop, Acknowledge, Card, PlaySample, BlockEnds, TimeUp, Kinds
  <2> QED BY <2>1, <2>2, <2>3 DEF Ranges, DMA_buffer_size
<1>2. ASSUME NEW f \in Files, Open(f) PROVE Ranges'
  <2>1. /\ f.bits \in {8, 16} /\ f.bytes \in Nat /\ SoundUnits(f) \in Nat \ {0}
    BY FileAssumption DEF SoundUnits
  <2>2. /\ playing_file' = [bits |-> f.bits, bytes |-> f.bytes, pos |-> 0]
        /\ read_remaining_bytes' = f.bytes /\ remaining_samples' = f.bytes \div SoundUnits(f)
        /\ read_buffer_half' = 0 /\ DMA_buffer' = [i \in DOMAIN DMA_buffer |-> Zero]
    BY <1>2 DEF Open
  <2>3. bytes_per_sample' = SoundUnits(f) /\ Samples' = f.bytes \div SoundUnits(f)
    BY <2>2 DEF bytes_per_sample, SoundUnits, Samples, bytes_to_samples
  <2>4. Samples' \in Nat /\ HalfSamples' \in Nat
    <3>1. bytes_per_sample' \in {1, 2}
      BY <2>1, <2>3 DEF SoundUnits
    <3>2. HalfSamples' = ((2 * HalfBytes) \div bytes_per_sample') \div 2
      BY DEF HalfSamples, bytes_to_samples, DMA_buffer_size
    <3>3. HalfSamples' \in Nat
      <4>1. HalfBytes \in Nat
        BY HalfAssumption
      <4>2. CASE bytes_per_sample' = 1
        BY <3>2, <4>1, <4>2
      <4>3. CASE bytes_per_sample' = 2
        BY <3>2, <4>1, <4>3
      <4> QED BY <3>1, <4>2, <4>3
    <3> QED BY <2>1, <2>3, <3>3
  <2> QED BY <2>1, <2>2, <2>3, <2>4 DEF Ranges, DMA_buffer_size
<1>3. CASE OpenFails
  <2>1. /\ playing_file' = playing_file /\ read_remaining_bytes' = read_remaining_bytes
        /\ remaining_samples' = remaining_samples /\ is_playing' = is_playing /\ pc' = "idle"
        /\ DMA_buffer' = [i \in DOMAIN DMA_buffer |-> Zero] /\ read_buffer_half' = 0
    BY <1>3 DEF OpenFails
  <2>2. HalfSamples' = HalfSamples /\ Samples' = Samples /\ bytes_per_sample' = bytes_per_sample
    BY <2>1, SizesStay
  <2> QED BY <2>1, <2>2 DEF Ranges, DMA_buffer_size
<1>4. ASSUME NEW ok \in BOOLEAN, Start(ok) PROVE Ranges'
  <2> DEFINE first == Portion(read_remaining_bytes)
             second == Portion(read_remaining_bytes - first)
             rest == read_remaining_bytes - first - second
             one == IF first = 0 THEN DMA_buffer ELSE Filled(DMA_buffer, 0, 0, first, ok)
  <2>1. /\ DMA_buffer' = IF second = 0 THEN one ELSE Filled(one, 1, first, second, ok)
        /\ playing_file' = [playing_file EXCEPT !.pos = first + second]
        /\ read_remaining_bytes' = rest
        /\ remaining_samples' = remaining_samples \/ remaining_samples' = 0
        /\ read_buffer_half' = read_buffer_half
    BY <1>4 DEF Start
  <2>2. /\ first \in Nat /\ second \in Nat /\ rest \in Nat
        /\ first + second <= playing_file.bytes
        /\ first + second + rest = playing_file.bytes
        /\ playing_file.bytes \in Nat /\ remaining_samples = Samples
    <3>1. read_remaining_bytes = playing_file.bytes /\ remaining_samples = Samples
      BY <1>4 DEF Start, Places
    <3>2. first \in Nat /\ read_remaining_bytes - first \in Nat
      BY PortionReads DEF Ranges
    <3> HIDE DEF first
    <3>3. second \in Nat /\ second <= read_remaining_bytes - first
      BY <3>2, PortionReads
    <3> HIDE DEF second
    <3> QED BY <3>1, <3>2, <3>3 DEF Kinds
  <2> HIDE DEF first, second
  <2>3. one \in [0 .. DMA_buffer_size - 1 -> {Zero, Silence} \cup 0 .. playing_file.bytes - 1]
    <3>1. DMA_buffer \in [0 .. DMA_buffer_size - 1 -> {Zero, Silence} \cup 0 .. playing_file.bytes - 1]
      BY DEF Ranges
    <3>2. 0 + first <= playing_file.bytes /\ 0 \in 0 .. 1
      BY <2>2
    <3> QED BY <2>2, <3>1, <3>2, FilledHasType
  <2> HIDE DEF one
  <2>4. Filled(one, 1, first, second, ok)
          \in [0 .. DMA_buffer_size - 1 -> {Zero, Silence} \cup 0 .. playing_file.bytes - 1]
    <3>1. first + second <= playing_file.bytes /\ 1 \in 0 .. 1
      BY <2>2
    <3> QED BY <2>2, <2>3, <3>1, FilledHasType
  <2>5. DMA_buffer' \in [0 .. DMA_buffer_size - 1 -> {Zero, Silence} \cup 0 .. playing_file.bytes - 1]
    BY <2>1, <2>3, <2>4
  <2>6. /\ playing_file'.bits = playing_file.bits /\ playing_file'.bytes = playing_file.bytes
        /\ playing_file'.pos = first + second
    BY <2>1 DEF Kinds
  <2>7. HalfSamples' = HalfSamples /\ Samples' = Samples /\ bytes_per_sample' = bytes_per_sample
    BY <2>6, SizesStay
  <2>8. remaining_samples' \in 0 .. Samples
    BY <1>0, <2>1, <2>2
  <2>9. HalfSamples' \in Nat /\ -HalfSamples' <= 0 /\ remaining_samples' >= 0
    BY <1>0, <2>7, <2>8
  <2>10. remaining_samples' \in -HalfSamples' .. Samples'
    BY <1>0, <2>7, <2>8
  <2>11. read_buffer_half' \in 0 .. 1
    BY <2>1 DEF Ranges
  <2>12. /\ playing_file'.pos \in Nat /\ read_remaining_bytes' \in Nat
         /\ playing_file'.pos + read_remaining_bytes' = playing_file'.bytes
    BY <2>1, <2>2, <2>6
  <2>13. DMA_buffer' \in [0 .. DMA_buffer_size - 1 -> {Zero, Silence} \cup 0 .. playing_file'.bytes - 1]
    BY <2>5, <2>6
  <2> HIDE DEF rest
  <2> QED BY <2>9, <2>10, <2>11, <2>12, <2>13 DEF Ranges, DMA_buffer_size
<1>5. ASSUME NEW busy \in BOOLEAN, Check(busy) PROVE Ranges'
  <2>1. /\ playing_file' = playing_file /\ read_remaining_bytes' = read_remaining_bytes
        /\ remaining_samples' = remaining_samples /\ pc = "check"
        /\ DMA_buffer' = DMA_buffer /\ read_buffer_half' = read_buffer_half
    BY <1>5 DEF Check
  <2>2. HalfSamples' = HalfSamples /\ Samples' = Samples /\ bytes_per_sample' = bytes_per_sample
    BY <2>1, SizesStay
  <2> QED BY <2>1, <2>2 DEF Ranges, DMA_buffer_size
<1>6. CASE HandlerBegins
  <2>1. /\ playing_file' = playing_file /\ read_remaining_bytes' = read_remaining_bytes
        /\ DMA_buffer' = DMA_buffer /\ read_buffer_half' = read_buffer_half
        /\ pending /\ pc # "check" /\ pc' = pc
        /\ IF is_playing THEN /\ remaining_samples' = remaining_samples - HalfSamples
                              /\ is_playing' = (remaining_samples' > 0)
           ELSE remaining_samples' = remaining_samples /\ is_playing' = is_playing
    BY <1>6 DEF HandlerBegins, Counted
  <2>2. HalfSamples' = HalfSamples /\ Samples' = Samples /\ bytes_per_sample' = bytes_per_sample
    BY <2>1, SizesStay
  <2>3. pc' \notin {"start", "check"}
    BY <2>1 DEF Places
  <2>4. remaining_samples' \in -HalfSamples .. Samples
    BY <1>0, <2>1 DEF Ranges
  <2>5. is_playing' => remaining_samples' >= 0
    <3>1. CASE is_playing
      <4>1. is_playing' => remaining_samples' > 0
        BY <2>1, <3>1
      <4> QED BY <1>0, <2>4, <4>1
    <3>2. CASE ~is_playing
      BY <2>1, <3>2
    <3> QED BY <3>1, <3>2
  <2> QED BY <2>1, <2>2, <2>3, <2>4, <2>5 DEF Ranges, DMA_buffer_size
<1>7. ASSUME NEW ok \in BOOLEAN, Refill(ok) PROVE Ranges'
  <2> DEFINE n == Portion(read_remaining_bytes)
  <2>1. n \in Nat /\ n <= read_remaining_bytes
    BY PortionReads DEF Ranges
  <2>2. /\ remaining_samples' = remaining_samples /\ read_buffer_half' = read_buffer_half
        /\ is_playing' = is_playing /\ pc' = pc
        /\ \/ UNCHANGED <<DMA_buffer, playing_file, read_remaining_bytes>>
           \/ /\ DMA_buffer' = Filled(DMA_buffer, read_buffer_half, playing_file.pos, n, ok)
              /\ playing_file' = [playing_file EXCEPT !.pos = @ + n]
              /\ read_remaining_bytes' = read_remaining_bytes - n
    BY <1>7 DEF Refill, read_buffer
  <2> HIDE DEF n
  <2>3. Filled(DMA_buffer, read_buffer_half, playing_file.pos, n, ok)
          \in [0 .. DMA_buffer_size - 1 -> {Zero, Silence} \cup 0 .. playing_file.bytes - 1]
    <3>1. /\ playing_file.bytes \in Nat /\ playing_file.pos \in Nat /\ read_buffer_half \in 0 .. 1
          /\ playing_file.pos + n <= playing_file.bytes
      BY <2>1 DEF Ranges, Kinds
    <3> QED BY <2>1, <3>1, FilledHasType DEF Ranges
  <2>4. /\ playing_file'.bits = playing_file.bits /\ playing_file'.bytes = playing_file.bytes
        /\ \/ playing_file'.pos = playing_file.pos /\ read_remaining_bytes' = read_remaining_bytes
           \/ /\ playing_file'.pos = playing_file.pos + n
              /\ read_remaining_bytes' = read_remaining_bytes - n
    BY <2>2 DEF Kinds
  <2>5. HalfSamples' = HalfSamples /\ Samples' = Samples /\ bytes_per_sample' = bytes_per_sample
    BY <2>4, SizesStay
  <2>6. DMA_buffer' \in [0 .. DMA_buffer_size - 1 -> {Zero, Silence} \cup 0 .. playing_file.bytes - 1]
    BY <2>2, <2>3 DEF Ranges
  <2> QED BY <2>1, <2>2, <2>4, <2>5, <2>6 DEF Ranges, DMA_buffer_size
<1>8. CASE Program
  <2>1. /\ playing_file' = playing_file /\ read_remaining_bytes' = read_remaining_bytes
        /\ DMA_buffer' = DMA_buffer /\ pc' = pc /\ is_playing' = is_playing
        /\ remaining_samples' = remaining_samples \/ remaining_samples' = 0
        /\ read_buffer_half' = read_buffer_half \/ read_buffer_half' = 1 - read_buffer_half
    BY <1>8 DEF Program
  <2>2. HalfSamples' = HalfSamples /\ Samples' = Samples /\ bytes_per_sample' = bytes_per_sample
    BY <2>1, SizesStay
  <2> QED BY <1>0, <2>1, <2>2 DEF Ranges, DMA_buffer_size
<1> QED
  BY <1>1, <1>2, <1>3, <1>4, <1>5, <1>6, <1>7, <1>8 DEF Next, Continues, Handler
\* An address that runs past the end of the buffer goes on at its start.
LEMMA WrapsAround ==
  ASSUME NEW d \in Nat \ {0}, NEW a \in Nat
  PROVE  a % d \in 0 .. d - 1 /\ (a < d => a % d = a) /\ (a = d => a % d = 0)
<1>1. a % d \in 0 .. d - 1
  OBVIOUS
<1>2. a < d => a % d = a
  OBVIOUS
<1>3. d % d = 0
  <2>1. d = (d * (d \div d)) + (d % d) /\ d % d \in 0 .. d - 1 /\ d \div d \in Int
    OBVIOUS
  <2> QED BY <2>1, SMTT(20)
<1> QED BY <1>1, <1>2, <1>3

\* Every step keeps the card near the buffer.
LEMMA AddressesStep ==
  ASSUME Kinds, Places, HandlerPlaces, Ranges, Addresses, Next
  PROVE  Addresses'
<1> USE DEF Main, Step, MainRuns, control, history, block, play_state, handler_keeps
<1>0. /\ HalfSamples \in Nat \ {0} /\ Samples \in Nat
      /\ bytes_per_sample \in {1, 2} /\ HalfBytes = HalfSamples * bytes_per_sample
      /\ DMA_buffer_size = 2 * HalfBytes /\ HalfBytes \in Nat \ {0}
      /\ playing_file.bytes \in Nat /\ Samples * bytes_per_sample <= playing_file.bytes
      /\ playing_file.bytes < Samples * bytes_per_sample + bytes_per_sample
      /\ (playing_file.bits = 16) <=> (bytes_per_sample = 2)
      /\ (playing_file.bits = 8) <=> (bytes_per_sample = 1)
  BY Measures
<1>1. /\ address \in 0 .. 2 * (DMA_buffer_size + MaxBlock) /\ left \in 0 .. DMA_buffer_size + MaxBlock
      /\ mode \in {"auto", "exiting"} => address < DMA_buffer_size
      /\ mode = "single" =>
           address + left * bytes_per_sample <= 2 * (DMA_buffer_size + MaxBlock)
      /\ MaxBlock \in Nat \ {0}
  BY CountAssumption DEF Addresses
<1>2. CASE /\ address' = address /\ left' = left /\ mode' \in {mode, "idle"}
           /\ playing_file'.bits = playing_file.bits /\ playing_file'.bytes = playing_file.bytes
  BY <1>1, <1>2, SizesStay DEF Addresses, DMA_buffer_size
<1>3. CASE \/ Unavailable \/ io_sound_play \/ io_sound_stop \/ io_sound_is_playing \/ Pause \/ Stop
           \/ OpenFails \/ Acknowledge \/ TimeUp \/ HandlerBegins
  BY <1>2, <1>3 DEF Unavailable, vars, io_sound_play, io_sound_stop, io_sound_is_playing, StopBegins,
                    Pause, Stop, OpenFails, Acknowledge, TimeUp, HandlerBegins
<1>4. CASE \E busy \in BOOLEAN : Check(busy)
  BY <1>2, <1>4 DEF Check
<1>5. CASE \E ok \in BOOLEAN : Refill(ok)
  <2>1. PICK ok \in BOOLEAN : Refill(ok)
    BY <1>5
  <2>2. PICK n : playing_file' = playing_file \/ playing_file' = [playing_file EXCEPT !.pos = n]
    BY <2>1 DEF Refill, read_buffer
  <2>3. playing_file'.bits = playing_file.bits /\ playing_file'.bytes = playing_file.bytes
    BY <2>2 DEF Kinds
  <2> QED BY <1>2, <2>1, <2>3 DEF Refill
<1>6. CASE \E f \in Files : Open(f)
  <2>1. mode' = "idle" /\ address' = address /\ left' = left
    BY <1>6 DEF Open, Places
  <2> QED BY <1>1, <2>1 DEF Addresses, DMA_buffer_size
<1>7. ASSUME NEW ok \in BOOLEAN, Start(ok) PROVE Addresses'
  <2> DEFINE first == Portion(read_remaining_bytes)
             second == Portion(read_remaining_bytes - first)
             rest == read_remaining_bytes - first - second
  <2>1. /\ playing_file' = [playing_file EXCEPT !.pos = first + second]
        /\ IF rest > 0
           THEN sb_auto_init_playback
           ELSE sb_single_cycle_playback(remaining_samples, 0)
        /\ remaining_samples = Samples /\ read_remaining_bytes = playing_file.bytes
    BY <1>7 DEF Start, Places
  <2>2. first \in Nat /\ second \in Nat /\ first <= HalfBytes /\ second <= HalfBytes
        /\ read_remaining_bytes \in Nat
    <3>1. first \in Nat /\ read_remaining_bytes - first \in Nat /\ first <= HalfBytes
      BY PortionReads DEF Ranges
    <3> HIDE DEF first
    <3> QED BY <3>1, PortionReads DEF Ranges
  <2> HIDE DEF first, second
  <2>3. playing_file'.bits = playing_file.bits /\ playing_file'.bytes = playing_file.bytes
    BY <2>1 DEF Kinds
  <2>4. bytes_per_sample' = bytes_per_sample
    BY <2>3, SizesStay
  <2>5. CASE rest > 0
    <3>1. mode' = "auto" /\ address' = 0 /\ left' = HalfSamples
      BY <2>1, <2>5 DEF sb_auto_init_playback
    <3> QED BY <1>0, <1>1, <2>4, <3>1 DEF Addresses, DMA_buffer_size
  <2>6. CASE ~(rest > 0)
    <3>1. /\ mode' = "single" /\ address' = BlockAddress(0)
          /\ left' = IF Samples = 0 THEN MaxBlock ELSE Samples
      BY <2>1, <2>6 DEF sb_single_cycle_playback
    <3>2. BlockAddress(0) = 0
      <4>1. 0 * HalfBytes = 0
        BY <1>0
      <4> QED BY <4>1 DEF BlockAddress, Kinds
    <3>3. Samples * bytes_per_sample <= 2 * HalfBytes
      BY <1>0, <2>1, <2>2, <2>6
    <3>4. Samples <= 2 * HalfBytes
      BY <1>0, <3>3
    <3>5. left' \in 0 .. 2 * HalfBytes + MaxBlock
          /\ left' * bytes_per_sample <= 2 * (2 * HalfBytes + MaxBlock)
      BY <1>0, <1>1, <3>1, <3>3, <3>4
    <3> QED BY <1>0, <1>1, <2>4, <3>1, <3>2, <3>5 DEF Addresses, DMA_buffer_size
  <2> QED BY <2>5, <2>6
<1>8. CASE Program
  <2>1. playing_file' = playing_file
    BY <1>8 DEF Program
  <2>2. bytes_per_sample' = bytes_per_sample
    BY <2>1, SizesStay
  <2>3. CASE remaining_samples <= HalfSamples
    <3>1. /\ mode' = "single" /\ left' = remaining_samples
          /\ address' = BlockAddress(1 - read_buffer_half) /\ remaining_samples > 0
      BY <1>8, <2>3 DEF Program, sb_single_cycle_playback, HandlerPlaces, Kinds
    <3>2. BlockAddress(1 - read_buffer_half) \in 0 .. 2 * HalfBytes
      <4>1. (1 - read_buffer_half) * HalfBytes \in 0 .. HalfBytes
        BY <1>0 DEF Ranges
      <4>2. playing_file.bits \in {8, 16}
        BY DEF Kinds
      <4> QED BY <1>0, <4>1, <4>2 DEF BlockAddress
    <3>3. left' \in Nat /\ left' * bytes_per_sample <= HalfBytes /\ left' <= HalfBytes
      BY <1>0, <2>3, <3>1 DEF Kinds
    <3> QED BY <1>0, <1>1, <2>2, <3>1, <3>2, <3>3 DEF Addresses, DMA_buffer_size
  <2>4. CASE ~(remaining_samples <= HalfSamples)
    <3>1. /\ mode' = mode \/ (mode' = "exiting" /\ mode = "auto")
          /\ address' = address /\ left' = left
      BY <1>8, <2>4 DEF Program
    <3> QED BY <1>1, <2>2, <3>1 DEF Addresses, DMA_buffer_size
  <2> QED BY <2>3, <2>4
<1>9. CASE PlaySample
  <2>1. /\ mode # "idle" /\ left > 0 /\ left' = left - 1 /\ mode' = mode
        /\ address' = IF mode = "single" THEN address + bytes_per_sample
                      ELSE (address + bytes_per_sample) % DMA_buffer_size
        /\ playing_file' = playing_file
    BY <1>9 DEF PlaySample
  <2>2. bytes_per_sample' = bytes_per_sample
    BY <2>1, SizesStay
  <2>3. left' \in 0 .. DMA_buffer_size + MaxBlock
    BY <1>0, <1>1, <2>1
  <2>4. CASE mode = "single"
    <3>1. address' = address + bytes_per_sample
      BY <2>1, <2>4
    <3> QED BY <1>0, <1>1, <2>1, <2>2, <2>3, <2>4, <3>1 DEF Addresses, DMA_buffer_size
  <2>5. CASE mode # "single"
    <3>1. address' \in 0 .. DMA_buffer_size - 1
      <4>1. /\ address + bytes_per_sample \in Nat /\ DMA_buffer_size \in Nat \ {0}
            /\ address' = (address + bytes_per_sample) % DMA_buffer_size
        BY <1>0, <1>1, <2>1, <2>5
      <4> QED BY <4>1, WrapsAround
    <3> QED BY <1>0, <1>1, <2>1, <2>3, <2>5, <3>1 DEF Addresses, DMA_buffer_size
  <2> QED BY <2>4, <2>5
<1>10. CASE BlockEnds
  <2>1. /\ IF mode = "auto" THEN left' = HalfSamples /\ mode' = mode
           ELSE mode' = "idle" /\ left' = left
        /\ address' = address /\ playing_file' = playing_file
    BY <1>10 DEF BlockEnds
  <2>2. HalfSamples \in 0 .. DMA_buffer_size + MaxBlock
    BY <1>0, <1>1
  <2> QED BY <1>1, <2>1, <2>2 DEF Addresses, DMA_buffer_size
<1> QED
  BY <1>3, <1>4, <1>5, <1>6, <1>7, <1>8, <1>9, <1>10 DEF Next, Continues, Handler, Card

\* Flags stay flags.
LEMMA BooleansStep ==
  ASSUME Booleans, Next
  PROVE  Booleans'
<1> USE DEF Booleans, Main, Step, MainRuns, control, history, block, play_state, handler_keeps
<1>1. CASE \/ Unavailable \/ io_sound_play \/ io_sound_stop \/ io_sound_is_playing
           \/ Pause \/ Stop \/ OpenFails
  BY <1>1, Zenon DEF Unavailable, vars, io_sound_play, io_sound_stop, io_sound_is_playing, StopBegins,
                     Pause, Stop, OpenFails
<1>2. CASE HandlerBegins
  <2>1. is_playing' \in BOOLEAN
    <3>1. CASE is_playing
      <4>1. is_playing' = (Counted(remaining_samples) > 0)
        BY <1>2, <3>1, Zenon DEF HandlerBegins
      <4>2. (Counted(remaining_samples) > 0) \in BOOLEAN
        OBVIOUS
      <4> QED BY <4>1, <4>2, Zenon
    <3>2. CASE ~is_playing
      BY <1>2, <3>2, Zenon DEF HandlerBegins
    <3> QED BY <3>1, <3>2
  <2> QED BY <1>2, <2>1, Zenon DEF HandlerBegins
<1>5. CASE (\E ok \in BOOLEAN : Refill(ok)) \/ Program \/ Acknowledge \/ Card \/ TimeUp
  BY <1>5, Zenon DEF Refill, Program, Acknowledge, Card, PlaySample, BlockEnds, TimeUp
<1>3. CASE (\E f \in Files : Open(f)) \/ (\E ok \in BOOLEAN : Start(ok))
  BY <1>3, Zenon DEF Open, Start
<1>4. CASE \E busy \in BOOLEAN : Check(busy)
  BY <1>4, Zenon DEF Check
<1> QED BY <1>1, <1>2, <1>3, <1>4, <1>5 DEF Next, Continues, Handler

-----------------------------------------------------------------------------
(* What the buffer holds. *)

\* Half a buffer holds the chunk's samples from number n on, as far as there are any.
Holds(half, n) ==
  \A i \in 0 .. HalfSamples - 1 :
    n + i < Samples => DMA_buffer[half * HalfBytes + i * bytes_per_sample] = (n + i) * bytes_per_sample

\* The card plays a half that holds what it should, and is in the place that the samples
\* left say.
PlaysHalf(half) ==
  /\ Holds(half, heard + left - HalfSamples)
  /\ left <= HalfSamples
  /\ address = IF left = 0 THEN (1 - half) * HalfBytes
               ELSE half * HalfBytes + (HalfSamples - left) * bytes_per_sample

\* The file was read up to sample number n.
ReadUpTo(n) ==
  playing_file.pos = Least(n * bytes_per_sample, playing_file.bytes)

\* A last block: the rest of the file is where the card plays.
RestIsThere ==
  \A n \in heard .. Samples - 1 :
    LET at == address + (n - heard) * bytes_per_sample IN
      at < DMA_buffer_size /\ DMA_buffer[at] = n * bytes_per_sample

\* The halves that were played are so many that the next is this one.
Turn(half) == \E k \in Nat : Samples - remaining_samples = k * HalfSamples /\ k % 2 = half
Long == Samples > 2 * HalfSamples

\* While the card plays and the handler has nothing to do: the half that plays holds what
\* should be heard, the other what follows it, and the file was read up to there.
PlaysRight ==
  \/ /\ mode \in {"auto", "exiting"} /\ Long /\ Turn(read_buffer_half)
     /\ PlaysHalf(read_buffer_half) /\ Holds(1 - read_buffer_half, heard + left)
     /\ ReadUpTo(heard + left + HalfSamples)
  \/ mode = "single" /\ RestIsThere
\* A block has ended and the handler has not begun: the card plays the other half.
EndedRight ==
  \/ /\ mode = "auto" /\ Long /\ Turn(read_buffer_half)
     /\ PlaysHalf(1 - read_buffer_half) /\ ReadUpTo(heard + left)
  \/ /\ mode = "idle" /\ Long /\ Turn(read_buffer_half)
     /\ Holds(1 - read_buffer_half, heard)
  \/ mode = "idle" /\ remaining_samples = 0
\* The handler refills the half that was played and programs what comes next.
CountedRight ==
  \/ /\ mode = "auto" /\ Long /\ Turn(1 - read_buffer_half)
     /\ PlaysHalf(1 - read_buffer_half)
     /\ handler = "refill" => ReadUpTo(heard + left)
     /\ handler = "program" => /\ Holds(read_buffer_half, heard + left)
                               /\ ReadUpTo(heard + left + HalfSamples)
  \/ mode = "idle" /\ Long /\ Turn(1 - read_buffer_half) /\ Holds(1 - read_buffer_half, heard)

\* A sound starts with nothing against it.
Fresh == pc = "start" => faithful /\ read_buffer_half = 0 /\ ~trouble

\* What was heard is the chunk so far, and the buffer holds what comes next.
InOrder ==
  /\ faithful
  /\ Sounding =>
       /\ handler = "ack" \/ (handler = "out" /\ ~pending) => PlaysRight
       /\ handler = "out" /\ pending => EndedRight
       /\ handler \in {"refill", "program"} => CountedRight

\* The invariant of what is heard.
Order == Fresh /\ (~trouble /\ ~LastBlockIsMisplaced => InOrder)

-----------------------------------------------------------------------------
(* Reading into the buffer. *)

\* The buffer after a read that did not fail.
WellRead(buffer, half, pos, n) ==
  LET At(i) == i - half * HalfBytes
  IN  [i \in DOMAIN buffer |->
         IF At(i) \notin 0 .. HalfBytes - 1 THEN buffer[i]
         ELSE IF At(i) < n THEN pos + At(i)
         ELSE IF n < HalfBytes THEN Silence ELSE buffer[i]]

\* A half that was read holds the chunk's bytes, and the other is as it was.
LEMMA WellReadCells ==
  ASSUME NEW buffer, DOMAIN buffer = 0 .. DMA_buffer_size - 1,
         NEW half \in 0 .. 1, NEW pos, NEW n \in Nat, NEW c \in 0 .. DMA_buffer_size - 1
  PROVE  c - half * HalfBytes \in 0 .. HalfBytes - 1 /\ c - half * HalfBytes < n
           => WellRead(buffer, half, pos, n)[c] = pos + (c - half * HalfBytes)
<1> DEFINE At(j) == j - half * HalfBytes
           b == WellRead(buffer, half, pos, n)
<1>1. b = [j \in 0 .. DMA_buffer_size - 1 |->
             IF At(j) \notin 0 .. HalfBytes - 1 THEN buffer[j]
             ELSE IF At(j) < n THEN pos + At(j)
             ELSE IF n < HalfBytes THEN Silence ELSE buffer[j]]
  BY DEF WellRead
<1> HIDE DEF At, b
<1>2. At(c) \in 0 .. HalfBytes - 1 /\ At(c) < n => b[c] = pos + At(c)
  BY <1>1
<1> QED BY <1>2 DEF At, b

LEMMA OtherCells ==
  ASSUME NEW buffer, DOMAIN buffer = 0 .. DMA_buffer_size - 1,
         NEW half \in 0 .. 1, NEW pos, NEW n \in Nat, NEW c \in 0 .. DMA_buffer_size - 1,
         NEW at, at = half * HalfBytes, c < at \/ at + HalfBytes <= c
  PROVE  WellRead(buffer, half, pos, n)[c] = buffer[c]
<1>1. c - half * HalfBytes \notin 0 .. HalfBytes - 1
  BY HalfAssumption DEF DMA_buffer_size
<1> QED BY <1>1 DEF WellRead

\* None of these changes when what it looks at stays.
LEMMA RightStays ==
  ASSUME playing_file' = playing_file, heard' = heard, DMA_buffer' = DMA_buffer,
         remaining_samples' = remaining_samples, read_buffer_half' = read_buffer_half,
         address' = address, left' = left, mode' = mode, handler' = handler
  PROVE  (PlaysRight => PlaysRight') /\ (EndedRight => EndedRight') /\ (CountedRight => CountedRight')
<1>1. HalfSamples' = HalfSamples /\ Samples' = Samples /\ bytes_per_sample' = bytes_per_sample
  BY SizesStay
<1>2. (PlaysRight => PlaysRight')
  BY <1>1 DEF PlaysRight, Long, Turn, PlaysHalf, Holds, ReadUpTo, RestIsThere, DMA_buffer_size
<1>3. EndedRight => EndedRight'
  BY <1>1 DEF EndedRight, Long, Turn, PlaysHalf, Holds, ReadUpTo, RestIsThere, DMA_buffer_size
<1>4. CountedRight => CountedRight'
  BY <1>1 DEF CountedRight, Long, Turn, PlaysHalf, Holds, ReadUpTo, RestIsThere, DMA_buffer_size
<1> QED BY <1>2, <1>3, <1>4

-----------------------------------------------------------------------------
(* What is heard, step by step. *)

\* The card plays a sample of a half, and the half is as right as before.
LEMMA PlaysOn ==
  ASSUME Kinds, Ranges, NEW half \in 0 .. 1, PlaySample, mode # "single", PlaysHalf(half),
         heard < Samples
  PROVE  IsSample(heard, address) /\ PlaysHalf(half)'
<1> DEFINE H == HalfSamples
           u == bytes_per_sample
           w == H - left
<1>0. /\ HalfSamples \in Nat \ {0} /\ Samples \in Nat
      /\ bytes_per_sample \in {1, 2} /\ HalfBytes = HalfSamples * bytes_per_sample
      /\ DMA_buffer_size = 2 * HalfBytes /\ HalfBytes \in Nat \ {0}
  BY Measures
<1>1. /\ left > 0 /\ left' = left - 1 /\ mode' = mode
      /\ address' = (address + bytes_per_sample) % DMA_buffer_size
      /\ heard' = Least(heard + 1, Samples + 1) /\ playing_file' = playing_file
      /\ DMA_buffer' = DMA_buffer
  BY DEF PlaySample, play_state
<1>2. HalfSamples' = HalfSamples /\ Samples' = Samples /\ bytes_per_sample' = bytes_per_sample
  BY <1>1, SizesStay
<1>3. heard' = heard + 1 /\ heard \in Nat /\ left \in Nat
  BY <1>0, <1>1 DEF Least, Kinds
<1>4. /\ Holds(half, heard + left - H) /\ left <= H /\ address = half * HalfBytes + w * u
  BY <1>1, <1>3 DEF PlaysHalf
<1>5. w \in 0 .. H - 1 /\ heard = (heard + left - H) + w
  BY <1>0, <1>1, <1>3, <1>4
<1>6. IsSample(heard, address)
  <2>1. DMA_buffer[half * HalfBytes + w * u] = heard * u
    BY <1>4, <1>5 DEF Holds
  <2>2. w * u <= HalfBytes - 1
    BY <1>0, <1>5
  <2>3. address < DMA_buffer_size
    BY <1>0, <1>3, <1>4, <1>5, <2>2
  <2> QED BY <1>4, <2>1, <2>3 DEF IsSample
<1>7. Holds(half, heard + left - H)'
  <2>1. heard' + left' - H' = heard + left - H
    BY <1>0, <1>1, <1>2, <1>3
  <2> HIDE DEF w
  <2> QED BY <1>1, <1>2, <1>4, <2>1 DEF Holds
<1>8. address' = IF left' = 0 THEN (1 - half) * HalfBytes
                 ELSE half * HalfBytes + (H - left') * u
  <2> DEFINE a == address + u
  <2>1. (w + 1) * u = w * u + u /\ (w + 1) * u <= HalfBytes /\ (left' = 0 <=> w + 1 = H)
        /\ H - left' = w + 1 /\ (w + 1 < H => (w + 1) * u < HalfBytes) /\ w * u \in Nat
    BY <1>0, <1>1, <1>3, <1>5
  <2>2. a = half * HalfBytes + (w + 1) * u /\ a \in Nat
    BY <1>0, <1>3, <1>4, <1>5, <2>1
  <2>3. a = DMA_buffer_size <=> half = 1 /\ left' = 0
    <3>1. CASE half = 0
      <4>1. a = (w + 1) * u /\ DMA_buffer_size > HalfBytes
        BY <1>0, <2>1, <2>2, <3>1
      <4> QED BY <1>0, <2>1, <3>1, <4>1
    <3>2. CASE half = 1
      <4>1. a = HalfBytes + (w + 1) * u
        BY <1>0, <2>1, <2>2, <3>2
      <4>2. w + 1 = H => (w + 1) * u = HalfBytes
        BY <1>0
      <4>3. w + 1 <= H
        BY <1>0, <1>5
      <4> HIDE DEF a
      <4> QED BY <1>0, <1>5, <2>1, <3>2, <4>1, <4>2, <4>3
    <3> QED BY <3>1, <3>2
  <2>4. a <= DMA_buffer_size
    BY <1>0, <2>1, <2>2
  <2>5. address' = IF a = DMA_buffer_size THEN 0 ELSE a
    <3>1. DMA_buffer_size \in Nat \ {0} /\ address' = a % DMA_buffer_size
      BY <1>0, <1>1
    <3> HIDE DEF a
    <3> QED BY <2>2, <2>4, <3>1, WrapsAround
  <2> HIDE DEF a, w
  <2>6. CASE left' = 0
    <3>1. a = half * HalfBytes + HalfBytes
      BY <1>0, <2>1, <2>2, <2>6
    <3> QED BY <1>0, <2>3, <2>5, <2>6, <3>1
  <2>7. CASE left' # 0
    BY <2>1, <2>2, <2>3, <2>5, <2>7
  <2> QED BY <2>6, <2>7
<1>9. left' <= H'
  BY <1>0, <1>1, <1>2, <1>3, <1>4
<1> QED BY <1>2, <1>6, <1>7, <1>8, <1>9 DEF PlaysHalf

\* So is the rest of the file where a last block plays.
LEMMA RestPlaysOn ==
  ASSUME Kinds, Ranges, address \in Int, PlaySample, mode = "single", RestIsThere, heard < Samples
  PROVE  IsSample(heard, address) /\ RestIsThere'
<1>0. /\ HalfSamples \in Nat \ {0} /\ Samples \in Nat /\ bytes_per_sample \in {1, 2}
  BY Measures
<1>1. /\ address' = address + bytes_per_sample
      /\ heard' = Least(heard + 1, Samples + 1) /\ playing_file' = playing_file
      /\ DMA_buffer' = DMA_buffer
  BY DEF PlaySample, play_state
<1>2. HalfSamples' = HalfSamples /\ Samples' = Samples /\ bytes_per_sample' = bytes_per_sample
  BY <1>1, SizesStay
<1>3. heard' = heard + 1 /\ heard \in Nat
  BY <1>0, <1>1 DEF Least, Kinds
<1>4. IsSample(heard, address)
  <2>1. address + (heard - heard) * bytes_per_sample = address
    BY <1>0, <1>3
  <2>2. heard \in heard .. Samples - 1
    BY <1>0, <1>3
  <2> QED BY <2>1, <2>2 DEF RestIsThere, IsSample
<1>5. ASSUME NEW n \in heard' .. Samples - 1
      PROVE  address' + (n - heard') * bytes_per_sample = address + (n - heard) * bytes_per_sample
             /\ n \in heard .. Samples - 1
  <2>1. n \in Int /\ n - heard' = (n - heard) - 1 /\ n - heard \in Int
    BY <1>3
  <2>2. (n - heard') * bytes_per_sample = (n - heard) * bytes_per_sample - bytes_per_sample
    <3> DEFINE m == n - heard
    <3>1. m \in Int /\ n - heard' = m - 1
      BY <2>1
    <3> HIDE DEF m
    <3>2. (m - 1) * bytes_per_sample = m * bytes_per_sample - bytes_per_sample
      BY <1>0, <3>1
    <3> QED BY <3>1, <3>2 DEF m
  <2> QED BY <1>0, <1>1, <1>3, <2>1, <2>2
<1>6. RestIsThere'
  BY <1>1, <1>2, <1>5 DEF RestIsThere, DMA_buffer_size
<1> QED BY <1>4, <1>6

\* A sample is played: it is the chunk's next.
LEMMA OrderOfPlay ==
  ASSUME Kinds, Places, HandlerPlaces, Balance, Ranges, Addresses, InOrder, PlaySample
  PROVE  InOrder'
<1>0. HalfSamples \in Nat \ {0} /\ Samples \in Nat
  BY Measures
<1>1. /\ left > 0 /\ left' = left - 1 /\ mode # "idle" /\ mode' = mode
      /\ heard' = Least(heard + 1, Samples + 1) /\ playing_file' = playing_file
      /\ DMA_buffer' = DMA_buffer /\ remaining_samples' = remaining_samples
      /\ read_buffer_half' = read_buffer_half /\ pending' = pending /\ handler' = handler
      /\ pc' = pc /\ is_playing' = is_playing
      /\ faithful' = (faithful /\ IsSample(heard, address))
  BY DEF PlaySample, play_state, control
<1>2. HalfSamples' = HalfSamples /\ Samples' = Samples /\ bytes_per_sample' = bytes_per_sample
  BY <1>1, SizesStay
<1>3. Sounding /\ (Sounding' <=> Sounding)
  BY <1>1 DEF Balance, Places, Sounding
<1>4. heard < Samples
  BY <1>0, <1>1, <1>3 DEF Balance, Plays, Ended, IsCounted, Kinds
<1>5. heard' = heard + 1 /\ heard' + left' = heard + left
      /\ heard' + left' + HalfSamples = heard + left + HalfSamples
  BY <1>0, <1>1, <1>4 DEF Least, Kinds
<1>6. PICK h \in 0 .. 1 : h = read_buffer_half
  BY DEF Ranges
<1>7. 1 - h \in 0 .. 1
  OBVIOUS
<1>8. PlaysRight => IsSample(heard, address) /\ PlaysRight'
  <2>1. CASE mode = "single" /\ RestIsThere
    <3>1. address \in Int
      BY Measures DEF Addresses
    <3> QED BY <1>1, <1>4, <2>1, <3>1, RestPlaysOn DEF PlaysRight
  <2>2. CASE /\ mode \in {"auto", "exiting"} /\ Long /\ Turn(h)
             /\ PlaysHalf(h) /\ Holds(1 - h, heard + left) /\ ReadUpTo(heard + left + HalfSamples)
    <3>1. IsSample(heard, address) /\ PlaysHalf(h)'
      BY <1>4, <2>2, PlaysOn
    <3>2. Long' /\ Turn(h)' /\ Holds(1 - h, heard + left)' /\ ReadUpTo(heard + left + HalfSamples)'
      BY <1>1, <1>2, <1>5, <2>2 DEF Long, Turn, Holds, ReadUpTo
    <3> QED BY <1>1, <1>6, <2>2, <3>1, <3>2 DEF PlaysRight
  <2> QED BY <1>6, <2>1, <2>2 DEF PlaysRight
<1>9. EndedRight => IsSample(heard, address) /\ EndedRight'
  <2> SUFFICES ASSUME mode = "auto", Long, Turn(h), PlaysHalf(1 - h), ReadUpTo(heard + left)
               PROVE  IsSample(heard, address) /\ EndedRight'
    BY <1>1, <1>6 DEF EndedRight
  <2>1. IsSample(heard, address) /\ PlaysHalf(1 - h)'
    BY <1>4, <1>7, PlaysOn
  <2>2. Long' /\ Turn(h)' /\ ReadUpTo(heard + left)'
    BY <1>1, <1>2, <1>5 DEF Long, Turn, ReadUpTo
  <2> QED BY <1>1, <1>6, <2>1, <2>2 DEF EndedRight
<1>10. CountedRight => IsSample(heard, address) /\ CountedRight'
  <2> SUFFICES ASSUME mode = "auto", Long, Turn(1 - h), PlaysHalf(1 - h),
                      handler = "refill" => ReadUpTo(heard + left),
                      handler = "program" => /\ Holds(h, heard + left)
                                             /\ ReadUpTo(heard + left + HalfSamples)
               PROVE  IsSample(heard, address) /\ CountedRight'
    BY <1>1, <1>6 DEF CountedRight
  <2>1. IsSample(heard, address) /\ PlaysHalf(1 - h)'
    BY <1>4, <1>7, PlaysOn
  <2>2. /\ Long' /\ Turn(1 - h)'
        /\ handler' = "refill" => ReadUpTo(heard + left)'
        /\ handler' = "program" => Holds(h, heard + left)' /\ ReadUpTo(heard + left + HalfSamples)'
    BY <1>1, <1>2, <1>5 DEF Long, Turn, Holds, ReadUpTo
  <2> QED BY <1>1, <1>6, <2>1, <2>2 DEF CountedRight
<1>11. handler \in {"out", "refill", "program", "ack"} /\ (handler # "out" => pending)
  BY DEF Kinds, HandlerPlaces
<1>12. PlaysRight \/ EndedRight \/ CountedRight
  BY <1>3, <1>11 DEF InOrder
<1>13. faithful'
  BY <1>1, <1>8, <1>9, <1>10, <1>12 DEF InOrder
<1> QED BY <1>1, <1>3, <1>8, <1>9, <1>10, <1>13 DEF InOrder

\* Division, for a dividend that is given by quotient and remainder.
LEMMA OnlyQuotient ==
  ASSUME NEW q \in Nat, NEW s \in Nat \ {0}, NEW r \in 0 .. s - 1
  PROVE  (s * q + r) \div s = q
OBVIOUS

\* With 16 bits, a last block after k halves is the half number k + 1.
LEMMA LastHalf ==
  ASSUME NEW H \in Nat \ {0}, NEW k \in Nat, NEW r \in 1 .. H, NEW bytes \in Nat,
         HalfBytes = H * 2, bytes = (k * H + r) * 2
  PROVE  (bytes + HalfBytes - 1) \div HalfBytes = k + 1
<1>1. HalfBytes \in Nat \ {0} /\ 2 * r - 1 \in 0 .. HalfBytes - 1
  BY HalfAssumption
<1>2. bytes + HalfBytes - 1 = HalfBytes * (k + 1) + (2 * r - 1)
  OBVIOUS
<1>3. (HalfBytes * (k + 1) + (2 * r - 1)) \div HalfBytes = k + 1
  BY <1>1, OnlyQuotient
<1> QED BY <1>2, <1>3

\* Halves are played in turn.
LEMMA OneMoreHalf ==
  ASSUME NEW h \in 0 .. 1, NEW k \in Nat, k % 2 = h
  PROVE  (k + 1) % 2 = 1 - h
OBVIOUS

\* The start: the first buffer, or the whole file.
LEMMA OrderOfStart ==
  ASSUME Kinds, Places, Ranges, Fresh, NEW ok, ok, ~Miscounted, Start(ok)
  PROVE  PlaysRight'
<1> DEFINE H == HalfSamples
           u == bytes_per_sample
           first == Portion(read_remaining_bytes)
           second == Portion(read_remaining_bytes - first)
           rest == read_remaining_bytes - first - second
           one == IF first = 0 THEN DMA_buffer ELSE WellRead(DMA_buffer, 0, 0, first)
           two == WellRead(one, 1, first, second)
<1>0. /\ HalfSamples \in Nat \ {0} /\ Samples \in Nat
      /\ bytes_per_sample \in {1, 2} /\ HalfBytes = HalfSamples * bytes_per_sample
      /\ DMA_buffer_size = 2 * HalfBytes /\ HalfBytes \in Nat \ {0}
      /\ playing_file.bytes \in Nat /\ Samples * bytes_per_sample <= playing_file.bytes
      /\ playing_file.bytes < Samples * bytes_per_sample + bytes_per_sample
  BY Measures
<1>1. /\ DMA_buffer' = IF second = 0 THEN one ELSE two
      /\ playing_file' = [playing_file EXCEPT !.pos = first + second]
      /\ IF rest > 0
         THEN sb_auto_init_playback /\ UNCHANGED remaining_samples
         ELSE sb_single_cycle_playback(remaining_samples, 0) /\ remaining_samples' = 0
      /\ heard' = heard /\ heard = 0 /\ remaining_samples = Samples
      /\ read_buffer_half' = 0 /\ read_remaining_bytes = playing_file.bytes
  <2>1. DMA_buffer' = IF second = 0 THEN one ELSE two
    <3> HIDE DEF first, second
    <3> DEFINE was == IF first = 0 THEN DMA_buffer ELSE Filled(DMA_buffer, 0, 0, first, ok)
    <3>1. DMA_buffer' = IF second = 0 THEN was ELSE Filled(was, 1, first, second, ok)
      BY DEF Start, first, second
    <3>2. was = one
      BY DEF Filled, WellRead
    <3>3. Filled(was, 1, first, second, ok) = WellRead(was, 1, first, second)
      <4> HIDE DEF was
      <4> QED BY DEF Filled, WellRead
    <3> HIDE DEF was, one
    <3> QED BY <3>1, <3>2, <3>3
  <2> QED BY <2>1 DEF Start, Fresh, Places, Main
<1>2. read_remaining_bytes \in Nat /\ first \in Nat /\ second \in Nat
  BY PortionReads DEF Ranges
<1>3. /\ first <= HalfBytes /\ second <= HalfBytes
      /\ rest > 0 => first = HalfBytes /\ second = HalfBytes /\ playing_file.bytes > 2 * HalfBytes
      /\ ~(rest > 0) => first + second = playing_file.bytes /\ playing_file.bytes <= 2 * HalfBytes
      /\ second > 0 => first = HalfBytes
  <2>1. read_remaining_bytes - first \in Nat
    BY <1>2, PortionReads DEF Ranges
  <2>2. second = IF read_remaining_bytes - first > HalfBytes THEN HalfBytes
                 ELSE read_remaining_bytes - first
    BY <2>1, PortionReads, <1>0
  <2>3. first = IF read_remaining_bytes > HalfBytes THEN HalfBytes ELSE read_remaining_bytes
    BY <1>2, PortionReads, <1>0
  <2>4. HalfBytes \in Nat \ {0} /\ playing_file.bytes = read_remaining_bytes
    BY <1>0, <1>1
  <2> DEFINE n == read_remaining_bytes
  <2>5. n \in Nat /\ first \in Nat /\ second \in Nat /\ rest = n - first - second
    BY <1>2
  <2> HIDE DEF first, second, rest, n
  <2>6. /\ second = IF n - first > HalfBytes THEN HalfBytes ELSE n - first
        /\ first = IF n > HalfBytes THEN HalfBytes ELSE n
        /\ playing_file.bytes = n
    BY <2>2, <2>3, <2>4 DEF n
  <2> QED BY <2>4, <2>5, <2>6
<1>4. /\ playing_file'.bits = playing_file.bits /\ playing_file'.bytes = playing_file.bytes
      /\ playing_file'.pos = first + second
  BY <1>1 DEF Kinds
<1>5. HalfSamples' = HalfSamples /\ Samples' = Samples /\ bytes_per_sample' = bytes_per_sample
  BY <1>4, SizesStay
<1>6. DOMAIN DMA_buffer = 0 .. DMA_buffer_size - 1 /\ DOMAIN one = 0 .. DMA_buffer_size - 1
  BY DEF Ranges, WellRead
<1>7. ASSUME NEW c \in 0 .. HalfBytes - 1, c < first PROVE DMA_buffer'[c] = c
  <2>1. /\ c \in 0 .. DMA_buffer_size - 1 /\ 0 \in 0 .. 1 /\ 1 \in 0 .. 1
        /\ 0 * HalfBytes = 0 /\ 1 * HalfBytes = HalfBytes /\ c - 0 = c /\ 0 + c = c
        /\ c < HalfBytes
    BY <1>0
  <2>2. one[c] = c
    <3> HIDE DEF first
    <3>1. first # 0
      BY <1>2, <1>7, <2>1
    <3> QED BY <1>0, <1>2, <1>6, <1>7, <2>1, <3>1, WellReadCells
  <2>3. two[c] = one[c]
    <3> HIDE DEF one, first, second
    <3>1. HalfBytes = 1 * HalfBytes
      BY <1>0
    <3> QED BY <1>0, <1>2, <1>6, <2>1, <3>1, OtherCells
  <2> HIDE DEF one, two, first, second
  <2> QED BY <1>1, <2>2, <2>3
<1>8. ASSUME NEW c \in 0 .. HalfBytes - 1, c < second
      PROVE  DMA_buffer'[HalfBytes + c] = HalfBytes + c
  <2>1. second > 0 /\ first = HalfBytes
    BY <1>0, <1>2, <1>3, <1>8
  <2> DEFINE d == HalfBytes + c
  <2>2. /\ d \in 0 .. DMA_buffer_size - 1 /\ 1 \in 0 .. 1 /\ 1 * HalfBytes = HalfBytes
        /\ d - HalfBytes = c
    BY <1>0
  <2> HIDE DEF d, one, first, second
  <2>3. two[d] = first + c
    BY <1>0, <1>2, <1>6, <1>8, <2>2, WellReadCells
  <2> HIDE DEF two
  <2> QED BY <1>0, <1>1, <1>2, <2>1, <2>3 DEF d
<1> HIDE DEF one, two, first, second
<1>9. CASE rest > 0
  <2>1. /\ mode' = "auto" /\ address' = 0 /\ left' = H /\ remaining_samples' = Samples
        /\ heard' = 0
    BY <1>1, <1>9 DEF sb_auto_init_playback
  <2>2. Long'
    <3>1. Samples > 2 * HalfSamples
      BY <1>3, <1>9, MoreThanTheBuffer DEF Ranges
    <3> QED BY <1>5, <3>1 DEF Long
  <2>3. Turn(0)'
    <3>1. 0 \in Nat /\ Samples - Samples = 0 * HalfSamples /\ 0 % 2 = 0
      BY <1>0
    <3> QED BY <1>5, <2>1, <3>1 DEF Turn
  <2>4. ASSUME NEW i \in 0 .. H - 1 PROVE i * u \in 0 .. HalfBytes - 1
    BY <1>0
  <2>5. Holds(0, heard + left - H)'
    <3>1. heard' + left' - H' = 0
      BY <1>0, <1>5, <2>1
    <3>2. ASSUME NEW i \in 0 .. H - 1 PROVE DMA_buffer'[0 * HalfBytes + i * u] = (0 + i) * u
      <4>1. DMA_buffer'[i * u] = i * u
        BY <1>0, <1>3, <1>7, <1>9, <2>4
      <4> QED BY <1>0, <4>1
    <3> QED BY <1>5, <3>1, <3>2 DEF Holds
  <2>6. Holds(1, heard + left)'
    <3>1. heard' + left' = H
      BY <1>0, <2>1
    <3>2. ASSUME NEW i \in 0 .. H - 1 PROVE DMA_buffer'[1 * HalfBytes + i * u] = (H + i) * u
      <4>1. DMA_buffer'[HalfBytes + i * u] = HalfBytes + i * u
        BY <1>0, <1>3, <1>8, <1>9, <2>4
      <4>2. (H + i) * u = HalfBytes + i * u
        BY <1>0
      <4> QED BY <1>0, <4>1, <4>2
    <3> QED BY <1>5, <3>1, <3>2 DEF Holds
  <2>7. PlaysHalf(0)'
    <3>1. 0 * HalfBytes + (H - H) * u = 0
      BY <1>0
    <3> QED BY <1>0, <1>5, <2>1, <2>5, <3>1 DEF PlaysHalf
  <2>8. ReadUpTo(heard + left + HalfSamples)'
    <3>1. (0 + H + H) * u = 2 * HalfBytes
      BY <1>0
    <3>2. Least(2 * HalfBytes, playing_file.bytes) = 2 * HalfBytes
      BY <1>3, <1>9, <1>0 DEF Least, Kinds
    <3>3. playing_file'.pos = 2 * HalfBytes
      BY <1>0, <1>3, <1>4, <1>9
    <3> QED BY <1>4, <1>5, <2>1, <3>1, <3>2, <3>3 DEF ReadUpTo
  <2> QED BY <1>1, <2>1, <2>2, <2>3, <2>6, <2>7, <2>8 DEF PlaysRight
<1>10. CASE ~(rest > 0)
  <2>1. mode' = "single" /\ address' = BlockAddress(0) /\ heard' = 0
    BY <1>1, <1>10 DEF sb_single_cycle_playback
  <2>2. address' = 0
    <3>1. 0 * HalfBytes = 0
      BY <1>0
    <3> QED BY <2>1, <3>1 DEF BlockAddress, Kinds
  <2>3. ASSUME NEW n \in 0 .. Samples - 1
        PROVE  n * u < DMA_buffer_size /\ DMA_buffer'[n * u] = n * u
    <3>1. n * u < playing_file.bytes /\ n * u \in Nat /\ n \in Nat
      BY <1>0
    <3>2. n * u < DMA_buffer_size
      BY <1>0, <1>3, <1>10, <3>1
    <3>3. CASE n < H
      <4>1. n * u < HalfBytes
        BY <1>0, <3>3
      <4>2. n * u < first
        BY <1>0, <1>2, <1>3, <1>10, <3>1, <4>1
      <4>3. n * u \in 0 .. HalfBytes - 1
        BY <1>0, <3>1, <4>1
      <4> QED BY <1>7, <3>2, <4>2, <4>3
    <3>4. CASE n >= H
      <4> DEFINE i == n - H
      <4>1. i \in Nat /\ n * u = HalfBytes + i * u
        BY <1>0, <3>4
      <4>2. i * u \in 0 .. HalfBytes - 1
        <5>1. i * u \in Nat
          BY <1>0, <4>1
        <5> QED BY <1>0, <3>2, <4>1, <5>1
      <4>3. i * u < second
        BY <1>0, <1>2, <1>3, <1>10, <3>1, <4>1
      <4> HIDE DEF i
      <4>4. DMA_buffer'[HalfBytes + i * u] = HalfBytes + i * u
        BY <1>8, <4>2, <4>3
      <4> QED BY <3>2, <4>1, <4>4
    <3> QED BY <1>0, <3>3, <3>4
  <2>4. RestIsThere'
    <3>1. ASSUME NEW n \in 0 .. Samples - 1 PROVE 0 + (n - 0) * u = n * u
      BY <1>0
    <3> QED BY <1>5, <2>1, <2>2, <2>3, <3>1 DEF RestIsThere, DMA_buffer_size
  <2> QED BY <2>1, <2>4 DEF PlaysRight
<1> QED BY <1>9, <1>10

\* A block ends, and its interrupt comes.
LEMMA OrderOfBlockEnds ==
  ASSUME Kinds, Places, HandlerPlaces, Balance, Ranges, InOrder, BlockEnds, ~trouble'
  PROVE  InOrder'
<1>0. HalfSamples \in Nat \ {0} /\ Samples \in Nat /\ HalfBytes \in Nat
  BY Measures
<1>1. /\ mode # "idle" /\ left = 0 /\ pending' /\ ~pending
      /\ IF mode = "auto" THEN left' = HalfSamples /\ mode' = mode
         ELSE mode' = "idle" /\ left' = left
      /\ playing_file' = playing_file /\ remaining_samples' = remaining_samples
      /\ read_buffer_half' = read_buffer_half /\ is_playing' = is_playing
      /\ DMA_buffer' = DMA_buffer /\ address' = address /\ pc' = pc /\ handler' = handler
      /\ heard' = heard /\ faithful' = faithful
  BY DEF BlockEnds, play_state, control
<1>2. HalfSamples' = HalfSamples /\ Samples' = Samples /\ bytes_per_sample' = bytes_per_sample
  BY <1>1, SizesStay
<1>3. handler = "out" /\ Sounding
  BY <1>1 DEF HandlerPlaces, Balance, Places, Sounding
<1>4. PlaysRight /\ Plays
  BY <1>1, <1>3 DEF InOrder, Balance
<1>5. PICK h \in 0 .. 1 : h = read_buffer_half
  BY DEF Ranges
<1>6. EndedRight'
  <2>1. CASE mode = "auto"
    <3>1. Long /\ Turn(h) /\ PlaysHalf(h) /\ Holds(1 - h, heard + left)
          /\ ReadUpTo(heard + left + HalfSamples)
      BY <1>4, <1>5, <2>1 DEF PlaysRight
    <3>2. left' = HalfSamples /\ mode' = "auto" /\ heard \in Nat
      BY <1>1, <2>1 DEF Kinds
    <3>3. heard' + left' - HalfSamples' = heard + left /\ heard' + left' = heard + left + HalfSamples
      BY <1>0, <1>1, <1>2, <3>2
    <3>4. Long' /\ Turn(h)' /\ Holds(1 - h, heard + left - HalfSamples)' /\ ReadUpTo(heard + left)'
      BY <1>1, <1>2, <3>1, <3>3 DEF Long, Turn, Holds, ReadUpTo
    <3>5. address' = (1 - h) * HalfBytes + (HalfSamples' - left') * bytes_per_sample'
      <4>1. address = (1 - h) * HalfBytes
        BY <1>1, <3>1 DEF PlaysHalf
      <4>2. (HalfSamples - HalfSamples) * bytes_per_sample = 0
        BY <1>0, Measures
      <4>3. (1 - h) * HalfBytes \in Int
        BY <1>0
      <4> QED BY <1>1, <1>2, <3>2, <4>1, <4>2, <4>3
    <3>6. PlaysHalf(1 - h)'
      BY <1>0, <1>2, <3>2, <3>4, <3>5 DEF PlaysHalf
    <3> QED BY <1>1, <1>5, <3>2, <3>4, <3>6 DEF EndedRight
  <2>2. CASE mode = "exiting"
    <3>1. Long /\ Turn(h) /\ Holds(1 - h, heard + left)
      BY <1>4, <1>5, <2>2 DEF PlaysRight
    <3>2. heard + left = heard
      BY <1>1 DEF Kinds
    <3>3. Long' /\ Turn(h)' /\ Holds(1 - h, heard)'
      BY <1>1, <1>2, <3>1, <3>2 DEF Long, Turn, Holds
    <3> QED BY <1>1, <1>5, <2>2, <3>3 DEF EndedRight
  <2>3. CASE mode = "single"
    BY <1>1, <1>4, <2>3 DEF Plays, EndedRight
  <2> QED BY <1>1, <2>1, <2>2, <2>3 DEF Kinds
<1> QED BY <1>1, <1>3, <1>6 DEF InOrder

\* The handler counts the half that was played.
LEMMA OrderOfCount ==
  ASSUME Kinds, Places, HandlerPlaces, Balance, Ranges, InOrder, HandlerBegins
  PROVE  InOrder'
<1>0. HalfSamples \in Nat \ {0} /\ Samples \in Nat
  BY Measures
<1>1. /\ playing_file' = playing_file /\ heard' = heard /\ left' = left /\ mode' = mode
      /\ address' = address /\ DMA_buffer' = DMA_buffer /\ read_buffer_half' = read_buffer_half
      /\ pc' = pc /\ pc # "check" /\ pending' = pending /\ pending
      /\ handler = "out" /\ faithful' = faithful
      /\ IF is_playing
         THEN /\ remaining_samples' = remaining_samples - HalfSamples
              /\ is_playing' = (remaining_samples - HalfSamples > 0)
              /\ handler' = IF remaining_samples - HalfSamples > 0 THEN "refill" ELSE "ack"
         ELSE handler' = "ack" /\ is_playing' = is_playing
  BY DEF HandlerBegins, Counted, Step, block, handler_keeps
<1>2. HalfSamples' = HalfSamples /\ Samples' = Samples /\ bytes_per_sample' = bytes_per_sample
  BY <1>1, SizesStay
<1>3. CASE is_playing /\ remaining_samples - HalfSamples > 0 /\ pc # "stop"
  <2>1. EndedRight /\ handler' = "refill"
    BY <1>1, <1>3 DEF InOrder, Sounding
  <2>2. remaining_samples' = remaining_samples - HalfSamples
    BY <1>1, <1>3
  <2>3. PICK h \in 0 .. 1 : h = read_buffer_half
    BY DEF Ranges
  <2>4. Turn(h) => Turn(1 - h)'
    <3> SUFFICES ASSUME Turn(h) PROVE Turn(1 - h)'
      OBVIOUS
    <3>1. PICK k \in Nat : Samples - remaining_samples = k * HalfSamples /\ k % 2 = h
      BY DEF Turn
    <3>2. Samples' - remaining_samples' = (k + 1) * HalfSamples'
      BY <1>0, <1>2, <2>2, <3>1 DEF Kinds
    <3>3. k + 1 \in Nat /\ (k + 1) % 2 = 1 - h
      BY <3>1, OneMoreHalf
    <3> QED BY <3>2, <3>3 DEF Turn
  <2>5. CountedRight'
    <3>1. CASE mode = "auto" /\ Long /\ Turn(h) /\ PlaysHalf(1 - h) /\ ReadUpTo(heard + left)
      <4>1. Long' /\ PlaysHalf(1 - h)' /\ ReadUpTo(heard + left)'
        BY <1>1, <1>2, <3>1 DEF Long, PlaysHalf, Holds, ReadUpTo
      <4> QED BY <1>1, <2>1, <2>3, <2>4, <3>1, <4>1 DEF CountedRight
    <3>2. CASE mode = "idle" /\ Long /\ Turn(h) /\ Holds(1 - h, heard)
      <4>1. Long' /\ Holds(1 - h, heard)'
        BY <1>1, <1>2, <3>2 DEF Long, Holds
      <4> QED BY <1>1, <2>3, <2>4, <3>2, <4>1 DEF CountedRight
    <3> QED BY <1>0, <1>3, <2>1, <2>3, <3>1, <3>2 DEF EndedRight
  <2> QED BY <1>1, <2>1, <2>5 DEF InOrder
<1>4. CASE ~(is_playing /\ remaining_samples - HalfSamples > 0 /\ pc # "stop")
  <2>1. ~Sounding'
    <3>1. CASE pc = "stop"
      BY <1>1, <3>1 DEF Sounding
    <3>2. CASE ~is_playing
      BY <1>1, <3>2 DEF Sounding
    <3>3. CASE is_playing /\ ~(remaining_samples - HalfSamples > 0)
      <4>1. ~is_playing'
        BY <1>1, <3>3
      <4> QED BY <1>1, <4>1 DEF Sounding
    <3> QED BY <1>4, <3>1, <3>2, <3>3
  <2> QED BY <1>1, <2>1 DEF InOrder
<1> QED BY <1>3, <1>4

\* It reads what follows into that half.
LEMMA OrderOfRefill ==
  ASSUME Kinds, Places, HandlerPlaces, Ranges, InOrder, NEW ok, Refill(ok), ~trouble'
  PROVE  InOrder'
<1> DEFINE H == HalfSamples
           u == bytes_per_sample
           n == Portion(read_remaining_bytes)
<1>0. /\ HalfSamples \in Nat \ {0} /\ Samples \in Nat
      /\ bytes_per_sample \in {1, 2} /\ HalfBytes = HalfSamples * bytes_per_sample
      /\ DMA_buffer_size = 2 * HalfBytes /\ HalfBytes \in Nat \ {0}
      /\ playing_file.bytes \in Nat /\ Samples * bytes_per_sample <= playing_file.bytes
      /\ playing_file.bytes < Samples * bytes_per_sample + bytes_per_sample
  BY Measures
<1>1. /\ heard' = heard /\ left' = left /\ mode' = mode /\ address' = address
      /\ pc' = pc /\ pending' = pending /\ remaining_samples' = remaining_samples
      /\ read_buffer_half' = read_buffer_half /\ is_playing' = is_playing
      /\ handler = "refill" /\ handler' = "program" /\ faithful' = faithful
  BY DEF Refill, Step, block, handler_keeps
<1>2. PICK h \in 0 .. 1 : h = read_buffer_half
  BY DEF Ranges
<1>3. /\ n \in Nat /\ n <= read_remaining_bytes
      /\ n = IF read_remaining_bytes > HalfBytes THEN HalfBytes ELSE read_remaining_bytes
  <2>1. read_remaining_bytes \in Nat /\ HalfBytes \in Nat
    BY HalfAssumption DEF Ranges
  <2> QED BY <2>1 DEF Portion, Least
<1>4. \/ n = 0 /\ DMA_buffer' = DMA_buffer /\ playing_file' = playing_file
      \/ /\ n > 0 /\ DMA_buffer' = WellRead(DMA_buffer, h, playing_file.pos, n)
         /\ playing_file' = [playing_file EXCEPT !.pos = playing_file.pos + n]
  <2>1. \/ n = 0 /\ DMA_buffer' = DMA_buffer /\ playing_file' = playing_file
        \/ /\ n > 0 /\ DMA_buffer' = Filled(DMA_buffer, h, playing_file.pos, n, ok) /\ ok
           /\ playing_file' = [playing_file EXCEPT !.pos = playing_file.pos + n]
    <3> HIDE DEF n
    <3> QED BY <1>2 DEF Refill, read_buffer, n
  <2> HIDE DEF n
  <2> QED BY <2>1 DEF Filled, WellRead
<1> HIDE DEF n
<1>5. /\ playing_file'.bits = playing_file.bits /\ playing_file'.bytes = playing_file.bytes
      /\ playing_file'.pos = playing_file.pos + n
  BY <1>3, <1>4 DEF Kinds, Ranges
<1>6. HalfSamples' = HalfSamples /\ Samples' = Samples /\ bytes_per_sample' = bytes_per_sample
  BY <1>5, SizesStay
<1>7. DOMAIN DMA_buffer = 0 .. DMA_buffer_size - 1
  BY DEF Ranges
\* The other half.
<1>8. ASSUME NEW c \in 0 .. HalfBytes - 1
      PROVE  DMA_buffer'[(1 - h) * HalfBytes + c] = DMA_buffer[(1 - h) * HalfBytes + c]
  <2> DEFINE d == (1 - h) * HalfBytes + c
  <2>1. /\ d \in 0 .. DMA_buffer_size - 1
        /\ d < h * HalfBytes \/ h * HalfBytes + HalfBytes <= d
    BY <1>0
  <2> HIDE DEF d
  <2>2. WellRead(DMA_buffer, h, playing_file.pos, n)[d] = DMA_buffer[d]
    <3> DEFINE at == h * HalfBytes
    <3>1. n \in Nat /\ at = h * HalfBytes /\ (d < at \/ at + HalfBytes <= d)
      BY <1>3, <2>1
    <3> HIDE DEF at
    <3> QED BY <1>7, <2>1, <3>1, OtherCells
  <2> QED BY <1>4, <2>2 DEF d
\* The half that is read.
<1>9. ASSUME NEW c \in 0 .. HalfBytes - 1, c < n
      PROVE  DMA_buffer'[h * HalfBytes + c] = playing_file.pos + c
  <2> DEFINE d == h * HalfBytes + c
  <2>1. d \in 0 .. DMA_buffer_size - 1 /\ d - h * HalfBytes = c
    BY <1>0
  <2> HIDE DEF d
  <2>2. WellRead(DMA_buffer, h, playing_file.pos, n)[d] = playing_file.pos + c
    BY <1>3, <1>7, <1>9, <2>1, WellReadCells
  <2>3. n > 0
    BY <1>3, <1>9
  <2> QED BY <1>3, <1>4, <2>2, <2>3 DEF d
<1>10. ASSUME NEW i \in 0 .. H - 1 PROVE i * u \in 0 .. HalfBytes - 1
  BY <1>0
<1>12. Long => Long'
  BY <1>6 DEF Long
<1>13. ASSUME Turn(1 - h) PROVE Turn(1 - h)'
  BY <1>1, <1>6, <1>13 DEF Turn
<1>14. CASE ~Sounding
  BY <1>1, <1>14 DEF InOrder, Sounding
<1>15. CASE /\ mode = "auto" /\ Long /\ Turn(1 - h) /\ PlaysHalf(1 - h) /\ ReadUpTo(heard + left)
  <2> DEFINE m == heard + left
  <2>1. m \in Nat
    BY DEF Kinds
  <2>2. PlaysHalf(1 - h)'
    <3>1. Holds(1 - h, heard + left - HalfSamples)'
      <4>1. Holds(1 - h, heard + left - HalfSamples)
        BY <1>15 DEF PlaysHalf
      <4> DEFINE e == heard + left - HalfSamples
      <4>2. e' = e
        BY <1>1, <1>6
      <4> QED BY <1>1, <1>6, <1>8, <1>10, <4>1 DEF Holds
    <3> QED BY <1>1, <1>6, <1>15, <3>1 DEF PlaysHalf
  <2>3. playing_file.pos = IF m * u <= playing_file.bytes THEN m * u ELSE playing_file.bytes
    BY <1>15 DEF ReadUpTo, Least
  <2>4. playing_file.pos + read_remaining_bytes = playing_file.bytes /\ playing_file.pos \in Nat
        /\ read_remaining_bytes \in Nat
    BY DEF Ranges
  <2> HIDE DEF m
  <2>5. m * u \in Nat /\ (m + H) * u = m * u + HalfBytes
    BY <1>0, <2>1
  <2>6. playing_file'.pos = Least((m + H) * u, playing_file.bytes)
    <3> HIDE DEF u, H
    <3> QED BY <1>0, <1>3, <1>5, <2>3, <2>4, <2>5 DEF Least
  <2>7. ReadUpTo(heard + left + HalfSamples)'
    BY <1>1, <1>5, <1>6, <2>6 DEF ReadUpTo, m
  <2>8. Holds(h, heard + left)'
    <3> SUFFICES ASSUME NEW i \in 0 .. H - 1, m + i < Samples
                 PROVE  DMA_buffer'[h * HalfBytes + i * u] = (m + i) * u
      BY <1>1, <1>6 DEF Holds, m
    <3>1. (m + i) * u = m * u + i * u /\ (m + i) * u < playing_file.bytes /\ i * u \in 0 .. HalfBytes - 1
      BY <1>0, <2>1
    <3>2. playing_file.pos = m * u /\ i * u < n
      <4> DEFINE mu == m * u
                 iu == i * u
      <4>1. mu \in Nat /\ iu \in 0 .. HalfBytes - 1 /\ mu + iu < playing_file.bytes
        BY <2>5, <3>1
      <4>2. playing_file.pos = IF mu <= playing_file.bytes THEN mu ELSE playing_file.bytes
        BY <2>3
      <4> HIDE DEF mu, iu
      <4>3. playing_file.pos = mu /\ iu < n
        BY <1>0, <1>3, <2>4, <4>1, <4>2
      <4> QED BY <4>3 DEF mu, iu
    <3> QED BY <1>9, <3>1, <3>2
  <2>9. CountedRight'
    BY <1>1, <1>2, <1>12, <1>13, <1>15, <2>2, <2>7, <2>8 DEF CountedRight
  <2> QED BY <1>1, <2>9 DEF InOrder
<1>16. CASE mode = "idle" /\ Long /\ Turn(1 - h) /\ Holds(1 - h, heard)
  <2>1. Holds(1 - h, heard)'
    BY <1>1, <1>6, <1>8, <1>10, <1>16 DEF Holds
  <2>2. CountedRight'
    BY <1>1, <1>2, <1>12, <1>13, <1>16, <2>1 DEF CountedRight
  <2> QED BY <1>1, <2>2 DEF InOrder
<1> QED BY <1>1, <1>2, <1>14, <1>15, <1>16 DEF InOrder, CountedRight

\* It programs the last block, or lets the card go on.
LEMMA OrderOfProgram ==
  ASSUME Kinds, Places, HandlerPlaces, Balance, Ranges, InOrder, ~LastBlockIsMisplaced, Program
  PROVE  InOrder'
<1> DEFINE H == HalfSamples
           u == bytes_per_sample
           r == remaining_samples
<1>0. /\ HalfSamples \in Nat \ {0} /\ Samples \in Nat
      /\ bytes_per_sample \in {1, 2} /\ HalfBytes = HalfSamples * bytes_per_sample
      /\ DMA_buffer_size = 2 * HalfBytes /\ HalfBytes \in Nat \ {0}
      /\ playing_file.bytes \in Nat /\ Samples * bytes_per_sample <= playing_file.bytes
      /\ playing_file.bytes < Samples * bytes_per_sample + bytes_per_sample
      /\ (playing_file.bits = 16) <=> (bytes_per_sample = 2)
      /\ (playing_file.bits = 8) <=> (bytes_per_sample = 1)
  BY Measures
<1>1. /\ playing_file' = playing_file /\ heard' = heard /\ pc' = pc /\ pending' = pending
      /\ is_playing' = is_playing /\ DMA_buffer' = DMA_buffer /\ faithful' = faithful
      /\ handler = "program" /\ handler' = "ack" /\ remaining_samples > 0
  BY DEF Program, Step, handler_keeps, HandlerPlaces
<1>2. HalfSamples' = HalfSamples /\ Samples' = Samples /\ bytes_per_sample' = bytes_per_sample
  BY <1>1, SizesStay
<1>3. PICK h \in 0 .. 1 : h = 1 - read_buffer_half
  BY DEF Ranges
<1>4. read_buffer_half = 1 - h
  BY <1>3 DEF Ranges
<1>5. CASE ~Sounding
  BY <1>1, <1>5 DEF InOrder, Sounding
<1>6. CASE Sounding /\ remaining_samples <= HalfSamples
  <2>1. IsCounted /\ CountedRight
    BY <1>1, <1>6 DEF Balance, InOrder
  <2>2. mode = "idle" /\ heard + r = Samples /\ Long /\ Turn(h) /\ Holds(h, heard)
    BY <1>0, <1>3, <1>6, <2>1 DEF IsCounted, CountedRight, Kinds
  <2>3. mode' = "single" /\ address' = BlockAddress(h)
    BY <1>3, <1>6 DEF Program, sb_single_cycle_playback
  <2>4. BlockAddress(h) = h * HalfBytes
    <3>1. CASE u = 1
      BY <1>0, <3>1 DEF BlockAddress, Kinds
    <3>2. CASE u = 2
      <4>1. PICK k \in Nat : Samples - r = k * H /\ k % 2 = h
        BY <2>2 DEF Turn
      <4>2. r \in 1 .. H /\ Samples = k * H + r
        BY <1>0, <1>1, <1>6, <4>1 DEF Kinds
      <4>3. HalfBytes = H * 2 /\ Samples * 2 = (k * H + r) * 2 /\ Samples * 2 \in Nat
        BY <1>0, <3>2, <4>2
      <4>4. (Samples * 2 + HalfBytes - 1) \div HalfBytes = k + 1
        <5> DEFINE b == Samples * 2
        <5>1. b \in Nat /\ b = (k * H + r) * 2 /\ H \in Nat \ {0}
          BY <1>0, <4>3
        <5> HIDE DEF H, r, b
        <5>2. (b + HalfBytes - 1) \div HalfBytes = k + 1
          BY <4>2, <4>3, <5>1, LastHalf
        <5> QED BY <5>2 DEF b
      <4>5. playing_file.bytes > DMA_buffer_size
        BY <1>0, <2>2, <3>2 DEF Long
      <4>6. (k + 1) % 2 # 0
        BY <1>0, <3>2, <4>4, <4>5 DEF LastBlockIsMisplaced
      <4>7. h = 0
        BY <4>1, <4>6, OneMoreHalf
      <4> QED BY <1>0, <3>2, <4>7 DEF BlockAddress
    <3> QED BY <1>0, <3>1, <3>2
  <2>5. RestIsThere'
    <3> SUFFICES ASSUME NEW n \in heard .. Samples - 1
                 PROVE  /\ h * HalfBytes + (n - heard) * u < DMA_buffer_size
                        /\ DMA_buffer[h * HalfBytes + (n - heard) * u] = n * u
      BY <1>1, <1>2, <2>3, <2>4 DEF RestIsThere, DMA_buffer_size
    <3> DEFINE i == n - heard
    <3>1. i \in 0 .. H - 1 /\ heard + i = n /\ n < Samples
      BY <1>0, <1>6, <2>2 DEF Kinds
    <3> HIDE DEF i
    <3>2. i * u <= HalfBytes - 1 /\ i * u \in Nat
      BY <1>0, <3>1
    <3>3. h * HalfBytes + i * u < DMA_buffer_size
      BY <1>0, <3>2
    <3>4. DMA_buffer[h * HalfBytes + i * u] = n * u
      BY <2>2, <3>1 DEF Holds
    <3> QED BY <3>3, <3>4 DEF i
  <2> QED BY <1>1, <2>3, <2>5 DEF InOrder, PlaysRight
<1>7. CASE Sounding /\ ~(remaining_samples <= HalfSamples)
  <2>1. IsCounted /\ CountedRight
    BY <1>1, <1>7 DEF Balance, InOrder
  <2>2. mode = "auto"
    BY <1>0, <1>7, <2>1 DEF IsCounted, Kinds
  <2>3. /\ Long /\ Turn(h) /\ PlaysHalf(h)
        /\ Holds(1 - h, heard + left) /\ ReadUpTo(heard + left + HalfSamples)
    BY <1>1, <1>3, <1>4, <2>1, <2>2 DEF CountedRight
  <2>4. /\ mode' \in {"auto", "exiting"} /\ read_buffer_half' = h
        /\ address' = address /\ left' = left /\ remaining_samples' = remaining_samples
    BY <1>3, <1>7, <2>2 DEF Program
  <2>5. /\ Long' /\ Turn(h)' /\ PlaysHalf(h)'
        /\ Holds(1 - h, heard + left)' /\ ReadUpTo(heard + left + HalfSamples)'
    BY <1>1, <1>2, <2>3, <2>4 DEF Long, Turn, PlaysHalf, Holds, ReadUpTo
  <2> QED BY <1>1, <2>4, <2>5 DEF InOrder, PlaysRight
<1> QED BY <1>5, <1>6, <1>7

\* The main thread's steps, and the others that move nothing.
LEMMA OrderOfCalls ==
  ASSUME Kinds, Places, HandlerPlaces, InOrder,
         \/ Unavailable \/ io_sound_play \/ io_sound_stop \/ io_sound_is_playing
         \/ Pause \/ Stop \/ OpenFails \/ Acknowledge \/ TimeUp \/ \E busy \in BOOLEAN : Check(busy)
  PROVE  InOrder'
<1> USE DEF Main, MainRuns, Step, control, history, block, play_state, handler_keeps
<1>1. CASE Unavailable \/ io_sound_play \/ io_sound_stop \/ io_sound_is_playing \/ TimeUp
  <2>1. /\ playing_file' = playing_file /\ heard' = heard /\ DMA_buffer' = DMA_buffer
        /\ remaining_samples' = remaining_samples /\ read_buffer_half' = read_buffer_half
        /\ address' = address /\ left' = left /\ mode' = mode /\ handler' = handler
        /\ pending' = pending /\ is_playing' = is_playing /\ faithful' = faithful
        /\ pc' = pc \/ (pc' = "pause" /\ pc = "idle")
    BY <1>1 DEF Unavailable, vars, io_sound_play, io_sound_stop, io_sound_is_playing, StopBegins, TimeUp
  <2> QED BY <2>1, RightStays DEF InOrder, Sounding
<1>2. CASE Pause \/ Stop \/ OpenFails
  <2>1. faithful' = faithful /\ ~Sounding'
    BY <1>2 DEF Pause, Stop, OpenFails, Sounding, Places, Kinds
  <2> QED BY <2>1 DEF InOrder
<1>3. CASE Acknowledge
  <2>1. /\ playing_file' = playing_file /\ heard' = heard /\ DMA_buffer' = DMA_buffer
        /\ remaining_samples' = remaining_samples /\ read_buffer_half' = read_buffer_half
        /\ address' = address /\ left' = left /\ mode' = mode
        /\ handler = "ack" /\ handler' = "out" /\ ~pending' /\ is_playing' = is_playing
        /\ faithful' = faithful /\ pc' = pc
    BY <1>3 DEF Acknowledge
  <2>2. HalfSamples' = HalfSamples /\ Samples' = Samples /\ bytes_per_sample' = bytes_per_sample
    BY <2>1, SizesStay
  <2>3. PlaysRight => PlaysRight'
    BY <2>1, <2>2 DEF PlaysRight, Long, Turn, PlaysHalf, Holds, ReadUpTo, RestIsThere, DMA_buffer_size
  <2> QED BY <2>1, <2>3 DEF InOrder, Sounding
<1>4. ASSUME NEW busy \in BOOLEAN, Check(busy) PROVE InOrder'
  <2>1. /\ playing_file' = playing_file /\ heard' = heard /\ DMA_buffer' = DMA_buffer
        /\ remaining_samples' = remaining_samples /\ read_buffer_half' = read_buffer_half
        /\ address' = address /\ left' = left /\ handler' = handler
        /\ pending' = pending /\ is_playing' = busy /\ faithful' = faithful
        /\ pc = "check" /\ pc' = "idle" /\ mode' = IF busy THEN mode ELSE "idle"
    BY <1>4 DEF Check
  <2>2. CASE busy
    <3>1. mode' = mode
      BY <2>1, <2>2
    <3> QED BY <2>1, <2>2, <3>1, RightStays DEF InOrder, Sounding
  <2>3. CASE ~busy
    <3>1. ~Sounding'
      BY <2>1, <2>3 DEF Sounding
    <3> QED BY <2>1, <3>1 DEF InOrder
  <2> QED BY <2>2, <2>3
<1> QED BY <1>1, <1>2, <1>3, <1>4

\* A sound whose file stays is misplaced or not as before.
LEMMA PlaceStays ==
  ASSUME playing_file'.bits = playing_file.bits, playing_file'.bytes = playing_file.bytes
  PROVE  LastBlockIsMisplaced' <=> LastBlockIsMisplaced
BY SizesStay DEF LastBlockIsMisplaced, DMA_buffer_size

\* Every step keeps what is heard in order.
LEMMA OrderStep ==
  ASSUME Kinds, Places, HandlerPlaces, ~trouble => Balance, Ranges, Addresses, Order, Next
  PROVE  Order'
<1>1. ASSUME NEW f \in Files, Open(f) PROVE Order'
  <2>1. /\ faithful' = TRUE /\ read_buffer_half' = 0 /\ trouble' = FALSE
        /\ pc' = "start" /\ ~is_playing'
    BY <1>1 DEF Open, Main, Places
  <2> QED BY <2>1 DEF Order, Fresh, InOrder, Sounding
<1>2. ASSUME NEW ok \in BOOLEAN, Start(ok) PROVE Order'
  <2>1. pc' = "check" /\ pc = "start" /\ trouble' = (~ok \/ Miscounted) /\ ~trouble /\ faithful
    BY <1>2 DEF Start, Main, Order, Fresh
  <2>2. Fresh'
    BY <2>1 DEF Fresh
  <2>3. ASSUME ~trouble' PROVE InOrder'
    <3>1. ok /\ ~Miscounted
      BY <2>1, <2>3
    <3>2. PlaysRight'
      BY <1>2, <3>1, OrderOfStart DEF Order
    <3>3. handler' = "out" /\ ~pending' /\ faithful'
      BY <1>2, <2>1 DEF Start, Main, MainRuns
    <3> QED BY <3>2, <3>3 DEF InOrder
  <2> QED BY <2>2, <2>3 DEF Order
<1>3. ASSUME Next, ~(\E f \in Files : Open(f)), ~(\E ok \in BOOLEAN : Start(ok)) PROVE Order'
  <2>1. Fresh'
    BY <1>3 DEF Next, Unavailable, vars, control, io_sound_play, io_sound_stop, io_sound_is_playing,
           StopBegins, Main, Continues, Pause, Stop, OpenFails, Check, Handler, HandlerBegins, Refill,
           Program, Acknowledge, handler_keeps, Card, PlaySample, BlockEnds, TimeUp, play_state,
           history, Fresh, Order, Places, Kinds, Step
  <2>2. playing_file'.bits = playing_file.bits /\ playing_file'.bytes = playing_file.bytes
    <3>1. CASE \E ok \in BOOLEAN : Refill(ok)
      <4>1. PICK n : playing_file' = playing_file \/ playing_file' = [playing_file EXCEPT !.pos = n]
        BY <3>1 DEF Refill, read_buffer
      <4> QED BY <4>1 DEF Kinds
    <3>2. CASE ~\E ok \in BOOLEAN : Refill(ok)
      BY <1>3, <3>2 DEF Next, Unavailable, vars, io_sound_play, io_sound_stop, io_sound_is_playing,
           StopBegins, Continues, Pause, Stop, OpenFails, Check, Handler, HandlerBegins,
           Program, Acknowledge, Card, PlaySample, BlockEnds, TimeUp
    <3> QED BY <3>1, <3>2
  <2>3. trouble => trouble'
    BY <1>3 DEF Next, Unavailable, vars, control, io_sound_play, io_sound_stop, io_sound_is_playing,
           StopBegins, Continues, Pause, Stop, OpenFails, Check, Handler, HandlerBegins, Refill,
           read_buffer, Program, Acknowledge, handler_keeps, Card, PlaySample, BlockEnds, TimeUp,
           history
  <2>4. ASSUME ~trouble', ~LastBlockIsMisplaced' PROVE InOrder'
    <3>1. ~trouble /\ ~LastBlockIsMisplaced /\ InOrder /\ Balance
      BY <2>2, <2>3, <2>4, PlaceStays DEF Order
    <3>2. CASE \/ Unavailable \/ io_sound_play \/ io_sound_stop \/ io_sound_is_playing
               \/ Pause \/ Stop \/ OpenFails \/ Acknowledge \/ TimeUp
               \/ \E busy \in BOOLEAN : Check(busy)
      BY <3>1, <3>2, OrderOfCalls
    <3>3. CASE HandlerBegins
      BY <3>1, <3>3, OrderOfCount
    <3>4. ASSUME NEW ok \in BOOLEAN, Refill(ok) PROVE InOrder'
      BY <2>4, <3>1, <3>4, OrderOfRefill
    <3>5. CASE Program
      BY <3>1, <3>5, OrderOfProgram
    <3>6. CASE PlaySample
      BY <3>1, <3>6, OrderOfPlay
    <3>7. CASE BlockEnds
      BY <2>4, <3>1, <3>7, OrderOfBlockEnds
    <3> QED BY <1>3, <3>2, <3>3, <3>4, <3>5, <3>6, <3>7 DEF Next, Continues, Handler, Card
  <2> QED BY <2>1, <2>4 DEF Order
<1> QED BY <1>1, <1>2, <1>3

-----------------------------------------------------------------------------
(* The theorems of bounds and of what is heard. *)

\* The bounds hold always.
LEMMA RangesHold == Spec => [](SoundInv /\ Ranges /\ Addresses /\ Booleans)
<1>1. Init => Ranges /\ Addresses /\ Booleans
  <2> SUFFICES ASSUME Init PROVE Ranges /\ Addresses /\ Booleans
    OBVIOUS
  <2>1. Kinds
    BY DEF Init, Kinds
  <2>2. HalfSamples \in Nat \ {0} /\ Samples \in Nat
    BY <2>1, Sizes
  <2>3. bytes_per_sample = 1 /\ HalfBytes \in Nat \ {0}
    BY HalfAssumption DEF Init, bytes_per_sample, SoundUnits
  <2>4. Ranges
    BY <2>2, <2>3 DEF Init, Ranges
  <2>5. Addresses
    BY <2>3, CountAssumption DEF Init, Addresses, DMA_buffer_size
  <2>6. Booleans
    BY Zenon DEF Init, Booleans
  <2> QED BY <2>4, <2>5, <2>6
<1>2. SoundInv /\ Ranges /\ Addresses /\ Booleans /\ [Next]_vars => (Ranges /\ Addresses /\ Booleans)'
  <2>1. SoundInv /\ Ranges /\ Addresses /\ Booleans /\ Next => (Ranges /\ Addresses /\ Booleans)'
    BY RangesStep, AddressesStep, BooleansStep DEF SoundInv
  <2>2. Ranges /\ Addresses /\ Booleans /\ UNCHANGED vars => (Ranges /\ Addresses /\ Booleans)'
    <3> SUFFICES ASSUME Ranges, Addresses, Booleans, UNCHANGED vars
                 PROVE  (Ranges /\ Addresses /\ Booleans)'
      OBVIOUS
    <3>1. /\ HalfSamples' = HalfSamples /\ Samples' = Samples
          /\ bytes_per_sample' = bytes_per_sample
      BY SizesStay DEF vars
    <3>2. Ranges' /\ Addresses'
      BY <3>1 DEF Ranges, Addresses, DMA_buffer_size, vars, control, block, play_state
    <3>3. Booleans'
      BY Zenon DEF Booleans, vars, play_state
    <3> QED BY <3>2, <3>3
  <2> QED BY <2>1, <2>2
<1> QED BY <1>1, <1>2, SoundHolds, PTL DEF Spec

\* What the driver and the card keep stays in its bounds, whatever interrupts are lost and
\* reads fail: no more samples are counted than the file has, the buffer holds bytes of the
\* chunk only, and an address runs at most one buffer, or the longest block, past the
\* buffer's end.
THEOREM SoundTypes == Spec => []TypeOK
<1>1. SoundInv /\ Ranges /\ Addresses /\ Booleans => TypeOK
  <2> SUFFICES ASSUME SoundInv, Ranges, Addresses, Booleans PROVE TypeOK
    OBVIOUS
  <2>1. playing_file.pos \in 0 .. playing_file.bytes /\ read_remaining_bytes \in 0 .. playing_file.bytes
        /\ playing_file.bits \in {8, 16}
    BY DEF Ranges, SoundInv, Kinds
  <2>2. /\ read_buffer_half \in 0 .. 1 /\ remaining_samples \in -HalfSamples .. Samples
        /\ DMA_buffer \in [0 .. DMA_buffer_size - 1 -> {Zero, Silence} \cup 0 .. playing_file.bytes - 1]
        /\ address \in 0 .. 2 * (DMA_buffer_size + MaxBlock)
        /\ left \in 0 .. DMA_buffer_size + MaxBlock
    BY DEF Ranges, Addresses
  <2>3. /\ mode \in {"idle", "auto", "exiting", "single"} /\ handler \in {"out", "refill", "program", "ack"}
        /\ pc \in {"idle", "pause", "stop", "open", "start", "check"} /\ then \in {"idle", "open"}
    BY DEF SoundInv, Kinds
  <2> QED BY <2>1, <2>2, <2>3, Zenon DEF TypeOK, Booleans
<1> QED BY <1>1, RangesHold, PTL

\* What is heard is the chunk from its header on (which is not the file's samples, see
\* PlayedIsFile), in order and as many as the file has samples, for every file and every
\* buffer: the card never plays a half that was not read yet, nor does the handler overwrite
\* one that was not played, whenever it comes in the time the other half takes.  The
\* exceptions are an interrupt that was lost, a read that failed, a length that the driver
\* miscounts (no sample at all, or an odd byte of 16 bits too much for the buffer), and a
\* last block of 16 bits in the second half, which sb_single_cycle_playback misplaces.
THEOREM FilesArePlayed == Spec => []PlayedInOrder
<1>1. Init => Order
  BY DEF Init, Order, Fresh, InOrder, Sounding
<1>2. SoundInv /\ Ranges /\ Addresses /\ Order /\ [Next]_vars => Order'
  <2>1. SoundInv /\ Ranges /\ Addresses /\ Order /\ Next => Order'
    BY OrderStep DEF SoundInv
  <2>2. Order /\ UNCHANGED vars => Order'
    <3> SUFFICES ASSUME Order, UNCHANGED vars PROVE Order'
      OBVIOUS
    <3>1. /\ LastBlockIsMisplaced' <=> LastBlockIsMisplaced
          /\ (PlaysRight => PlaysRight') /\ (EndedRight => EndedRight')
          /\ (CountedRight => CountedRight')
      BY PlaceStays, RightStays DEF vars, control, history, block, play_state
    <3> QED BY <3>1 DEF Order, Fresh, InOrder, Sounding, vars, control, history, block, play_state
  <2> QED BY <2>1, <2>2
<1>3. Order => PlayedInOrder
  BY DEF Order, InOrder, PlayedInOrder
<1> QED BY <1>1, <1>2, <1>3, RangesHold, PTL DEF Spec
=============================================================================
