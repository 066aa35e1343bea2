------------------------------- MODULE Editor -------------------------------
(***************************************************************************)
(* The text editor (source/programs/edit.c): a text buffer, meant to end   *)
(* with a 0, a cursor that is an offset in it, and a screen that shows the  *)
(* buffer from some line on.  Lines are those of the screen: a line that is *)
(* as wide as the screen goes on in the next one.  Three pieces of code     *)
(* count lines, each in its own way: buffer_offset_to_linecol,              *)
(* linecol_to_buffer_offset and next_line.                                 *)
(*                                                                         *)
(* The program is sequential: one action per key.                           *)
(***************************************************************************)
EXTENDS Integers, Sequences, FiniteSets

CONSTANTS
  Chars,                   \* what a user types, besides the end of a line
  SCREEN_WIDTH, SCREEN_HEIGHT,
  Room,                    \* bytes of the text buffer (0xFFFF), and of what has a 0 behind it
  MaxSize,                 \* bound on what a user types
  DiskRoom,                \* bytes that a file may have on the disk
  Files,                   \* what the file is at the start
  Memories                 \* what malloc's memory may hold

NewLine == "\n"
Nul == "0"
Space == " "
NoFile == <<"no file">>
Directory == <<"directory">>
Spoilt == <<"spoilt">>       \* what a save that failed leaves

ASSUME CharAssumption == {NewLine, Nul, Space, "no file", "directory", "spoilt"} \cap Chars = {}
ASSUME SizeAssumption ==
  /\ SCREEN_WIDTH \in Nat \ {0} /\ SCREEN_HEIGHT \in Nat /\ SCREEN_HEIGHT > 2
  /\ Room \in Nat /\ MaxSize \in 1 .. Room - 1 /\ DiskRoom \in Nat
\* Files are texts: a 0 is at the end if there is one.
ASSUME FileAssumption ==
  /\ Files \subseteq {NoFile, Directory} \cup Seq(Chars \cup {NewLine, Nul})
  /\ \A f \in Files : \A i \in 1 .. Len(f) - 1 : f[i] # Nul
\* malloc clears nothing.  A 0 comes somewhere, at the latest in the last byte modelled.
ASSUME MemoryAssumption ==
  /\ Memories \subseteq [0 .. Room - 1 -> Chars \cup {NewLine, Nul}]
  /\ \A m \in Memories : m[Room - 1] = Nul

VARIABLES
  state,                   \* "start", "running", "ended" or "crashed"
  buff, buff_size, buff_cursor_offset, current_line,
  screen_buff, screen,     \* the editor's copy of the screen, and the screen
  cursor,                  \* where the cursor is shown
  marked,                  \* whether the title shows the * of a text that is not saved
  file,                    \* what is on the disk
  floppy,                  \* whether that disk is a floppy
  terminated               \* history: the text had a 0 at its end when it was opened

text == <<buff, buff_size>>
given == <<floppy, terminated>>
vars == <<state, text, buff_cursor_offset, current_line, screen_buff, screen, cursor, marked, file, given>>
-----------------------------------------------------------------------------
Rows == 1 .. SCREEN_HEIGHT - 1
Columns == 0 .. SCREEN_WIDTH - 1
Least(a, b) == IF a <= b THEN a ELSE b
Lowest(S) == CHOOSE n \in S : \A k \in S : n <= k

\* A mistake: bytes are copied upwards, also to a place that overlaps from above.
memcpy_upwards(b, dst, src, n) ==
  [i \in DOMAIN b |-> IF i - dst \notin 0 .. n - 1 THEN b[i]
                      ELSE IF dst > src THEN b[src + ((i - dst) % (dst - src))] ELSE b[src + i - dst]]

\* ulib's memcpy takes the direction in which areas may overlap.
memcpy(b, dst, src, n) ==
  [i \in DOMAIN b |-> IF i - dst \in 0 .. n - 1 THEN b[src + i - dst] ELSE b[i]]
-----------------------------------------------------------------------------
(* Offsets, lines and columns. *)

\* What is counted ends at the offset, or at a 0 before it.
CountedTo(b, offset) == Lowest({i \in 0 .. offset : i = offset \/ b[i] = Nul})

buffer_offset_to_linecol(b, offset) ==
  LET place[n \in 0 .. offset] ==
        IF n = 0 THEN [line |-> 0, col |-> 0]
        ELSE LET p == place[n - 1] IN
             IF b[n - 1] = NewLine \/ p.col + 1 >= SCREEN_WIDTH THEN [line |-> p.line + 1, col |-> 0]
             ELSE [p EXCEPT !.col = @ + 1]
  IN  place[CountedTo(b, offset)]

\* Where a line ends that begins at an offset, and the columns up to one of it.
Columnwise(b, from, col) ==
  Lowest({i \in from .. Room - 1 : i = from + col \/ b[i] \in {NewLine, Nul}})

\* A mistake: a line goes on one character later.
StartOfLine_late(b, line) ==
  LET left[n \in 0 .. Room - 1] ==
        IF n = 0 THEN [lines |-> line, c |-> 0]
        ELSE LET p == left[n - 1] IN
             IF b[n - 1] = NewLine \/ p.c > SCREEN_WIDTH
             THEN [lines |-> p.lines - 1, c |-> 1]
             ELSE [p EXCEPT !.c = @ + 1]
  IN  Lowest({i \in 0 .. Room - 1 : left[i].lines = 0 \/ b[i] = Nul})

\* The first loop of linecol_to_buffer_offset, which begins to count a line's characters
\* with 1, save the first line's.
StartOfLine(b, line) ==
  LET left[n \in 0 .. Room - 1] ==
        IF n = 0 THEN [lines |-> line, c |-> 0]
        ELSE LET p == left[n - 1] IN
             IF b[n - 1] = NewLine \/ p.c >= SCREEN_WIDTH
             THEN [lines |-> p.lines - 1, c |-> 1]
             ELSE [p EXCEPT !.c = @ + 1]
  IN  Lowest({i \in 0 .. Room - 1 : left[i].lines = 0 \/ b[i] = Nul})

linecol_to_buffer_offset(b, col, line) == Columnwise(b, StartOfLine(b, line), col)
-----------------------------------------------------------------------------
(* The screen. *)

RowEnd(b, from) == Columnwise(b, from, SCREEN_WIDTH)

\* A mistake: the newline is shown as a line of its own.
next_line_keeping(b, from) == RowEnd(b, from)

next_line(b, from) ==
  LET end == RowEnd(b, from) IN IF b[end] = NewLine THEN end + 1 ELSE end

\* The offset from which a line is shown: the text's end when there are not so many.
ShownFrom(b, line) ==
  LET from[n \in 0 .. line] ==
        IF n = 0 THEN 0
        ELSE IF b[from[n - 1]] = Nul THEN from[n - 1] ELSE next_line(b, from[n - 1])
  IN  from[line]

show_buffer_at_line(b, first) ==
  LET Row(r) ==
        LET from == ShownFrom(b, first + r - 1)
            end == RowEnd(b, from)
        IN  [col \in Columns |-> IF from + col < end THEN b[from + col] ELSE Space]
  IN  [r \in Rows |-> Row(r)]

Cleared == [r \in Rows |-> [c \in Columns |-> Space]]

\* editor_putchar writes to the screen what is new.
editor_putchar(shown) ==
  /\ screen_buff' = shown
  /\ screen' = [r \in Rows |->
                  [c \in Columns |-> IF shown[r][c] # screen_buff[r][c] THEN shown[r][c] ELSE screen[r][c]]]

\* A mistake: the cursor may be one line below the screen.
FirstLine_low(line) ==
  IF line < current_line THEN line
  ELSE IF line > current_line + SCREEN_HEIGHT - 1 THEN line - SCREEN_HEIGHT + 2
  ELSE current_line

\* The first line shown when the cursor is in a line.
FirstLine(line) ==
  IF line < current_line THEN line
  ELSE IF line > current_line + SCREEN_HEIGHT - 2 THEN line - SCREEN_HEIGHT + 2
  ELSE current_line

\* What every key ends with.
Display(b, offset) ==
  LET place == buffer_offset_to_linecol(b, offset)
      first == FirstLine(place.line)
  IN  /\ buff_cursor_offset' = offset
      /\ current_line' = first
      /\ editor_putchar(show_buffer_at_line(b, first))
      /\ cursor' = [col |-> place.col, row |-> place.line - first + 1]
-----------------------------------------------------------------------------
(* The keys. *)

Place == buffer_offset_to_linecol(buff, buff_cursor_offset)

MoveTo(offset) ==
  /\ state = "running"
  /\ Display(buff, offset)
  /\ UNCHANGED <<state, text, marked, file, given>>
MoveToPlace(col, line) == MoveTo(linecol_to_buffer_offset(buff, col, line))

KEY_UP == IF Place.line > 0 THEN MoveToPlace(Place.col, Place.line - 1) ELSE MoveTo(buff_cursor_offset)
KEY_DOWN == MoveToPlace(Place.col, Place.line + 1)
KEY_HOME == MoveToPlace(0, Place.line)
KEY_END == MoveToPlace(Room, Place.line)
KEY_PG_DN == MoveToPlace(Place.col, Place.line + SCREEN_HEIGHT - 1)
KEY_PG_UP == MoveToPlace(Place.col, Place.line - Least(Place.line, SCREEN_HEIGHT - 1))
KEY_LEFT == MoveTo(IF buff_cursor_offset > 0 THEN buff_cursor_offset - 1 ELSE 0)

\* Sizes are unsigned: of a text of no byte at all the end is out of reach.
LastByte == IF buff_size = 0 THEN Room - 1 ELSE buff_size - 1
KEY_RIGHT == MoveTo(IF buff_cursor_offset < LastByte THEN buff_cursor_offset + 1 ELSE buff_cursor_offset)

Edit(b, size, offset) ==
  /\ state = "running"
  /\ buff' = b /\ buff_size' = size
  /\ Display(b, offset)
  /\ UNCHANGED <<state, file, given>>

\* memcpy is given a number of bytes below 0, which is one of more than there are.
Crash ==
  /\ state = "running" /\ state' = "crashed"
  /\ UNCHANGED <<text, buff_cursor_offset, current_line, screen_buff, screen, cursor, marked, file, given>>

KEY_BACKSPACE ==
  LET at == buff_cursor_offset IN
    /\ at > 0
    /\ \/ /\ at <= buff_size
          /\ Edit(memcpy(buff, at - 1, at, buff_size - at), buff_size - 1, at - 1)
          /\ marked' = TRUE
       \/ at > buff_size /\ Crash

\* Two mistakes: the 0 at the end is deleted as well, and a change is not marked.
KEY_DEL_any ==
  LET at == buff_cursor_offset IN
    /\ at < buff_size /\ buff_size > 1
    /\ Edit(memcpy(buff, at, at + 1, buff_size - at - 1), buff_size - 1, at)
    /\ marked' = TRUE
KEY_DEL_unmarked ==
  LET at == buff_cursor_offset IN
    /\ at < buff_size - 1
    /\ Edit(memcpy(buff, at, at + 1, buff_size - at - 1), buff_size - 1, at)
    /\ UNCHANGED marked

KEY_DEL ==
  LET at == buff_cursor_offset IN
    \/ /\ at < buff_size - 1
       /\ Edit(memcpy(buff, at, at + 1, buff_size - at - 1), buff_size - 1, at)
       /\ marked' = TRUE
    \/ buff_size = 0 /\ Crash

\* Any other key is inserted.
Type(k) ==
  LET at == buff_cursor_offset
      moved == memcpy(buff, at + 1, at, buff_size - at)
  IN  \/ /\ at <= buff_size /\ buff_size < MaxSize
         /\ Edit([moved EXCEPT ![at] = k], buff_size + 1, at + 1)
         /\ marked' = TRUE
      \/ at > buff_size /\ Crash

\* Saving writes the buffer with its last byte, at once.  If it fails the title shows it,
\* unless what failed is a write to a floppy: write_file returns the BIOS's code then,
\* which is below ERROR_ANY and taken for a number of bytes.
Saved == [i \in 1 .. buff_size |-> buff[i - 1]]
KEY_F1(outcome) ==
  /\ state = "running"
  /\ outcome = "saved" => buff_size <= DiskRoom
  /\ outcome = "code" => floppy
  /\ file' = IF outcome = "saved" THEN Saved ELSE Spoilt
  /\ marked' = (outcome = "error")
  /\ Display(buff, buff_cursor_offset)
  /\ UNCHANGED <<state, text, given>>
KEY_ESC ==
  /\ state = "running" /\ state' = "ended"
  /\ screen' = Cleared /\ cursor' = [col |-> 0, row |-> 0]
  /\ UNCHANGED <<text, buff_cursor_offset, current_line, screen_buff, marked, file, given>>
-----------------------------------------------------------------------------
(* The start. *)

\* The buffer has what the file has, and one byte more if that does not end with a 0: room
\* for a 0 that nobody writes.  A new file's only byte is set to 0.
Content == IF file = NoFile THEN <<>> ELSE file
SizeOf(f) == IF f = <<>> \/ f[Len(f)] # Nul THEN Len(f) + 1 ELSE Len(f)

\* A directory and a file that is too big or cannot be read end the program.
Refused ==
  /\ state = "start" /\ state' = "ended"
  /\ file # NoFile
  /\ UNCHANGED <<text, buff_cursor_offset, current_line, screen_buff, screen, cursor, marked, file, given>>
Started ==
  /\ state = "start" /\ state' = "running"
  /\ file # Directory /\ Len(Content) < Room - 1
  /\ buff' = [i \in DOMAIN buff |->
                IF i < Len(Content) THEN Content[i + 1]
                ELSE IF i = 0 /\ file = NoFile THEN Nul ELSE buff[i]]
  /\ buff_size' = SizeOf(Content)
  /\ terminated' = (buff'[buff_size' - 1] = Nul)
  /\ editor_putchar(show_buffer_at_line(buff', 0))
  /\ cursor' = [col |-> 0, row |-> 1]
  /\ UNCHANGED <<buff_cursor_offset, current_line, marked, file, floppy>>

Init ==
  /\ state = "start" /\ file \in Files /\ floppy \in BOOLEAN
  /\ buff \in Memories /\ buff_size = 0 /\ terminated = FALSE
  /\ buff_cursor_offset = 0 /\ current_line = 0
  /\ screen_buff = [r \in Rows |-> [c \in Columns |-> Nul]]
  /\ screen = Cleared
  /\ cursor = [col |-> 0, row |-> 0]
  /\ marked = FALSE

Next ==
  \/ Refused \/ Started
  \/ KEY_UP \/ KEY_DOWN \/ KEY_LEFT \/ KEY_RIGHT \/ KEY_HOME \/ KEY_END \/ KEY_PG_DN \/ KEY_PG_UP
  \/ KEY_BACKSPACE \/ KEY_DEL
  \/ \E k \in Chars \cup {NewLine} : Type(k)
  \/ \E outcome \in {"saved", "error", "code"} : KEY_F1(outcome)
  \/ KEY_ESC

Spec == Init /\ [][Next]_vars
-----------------------------------------------------------------------------
Running == state = "running"
Text == [i \in 1 .. buff_size - 1 |-> buff[i - 1]]

\* The type of the state; the cursor is within the text (or on the 0 at its end) if the
\* text had that 0 when it was opened.
TypeOK ==
  /\ state \in {"start", "running", "ended", "crashed"}
  /\ buff \in [0 .. Room - 1 -> Chars \cup {NewLine, Nul}]
  /\ buff_size \in 0 .. Room /\ current_line \in 0 .. Room
  /\ screen_buff \in [Rows -> [Columns -> Chars \cup {Space, Nul}]]
  /\ screen \in [Rows -> [Columns -> Chars \cup {Space}]]
  /\ marked \in BOOLEAN /\ floppy \in BOOLEAN /\ terminated \in BOOLEAN
  /\ Running /\ terminated => /\ buff_cursor_offset \in 0 .. buff_size - 1
                              /\ cursor.col \in Columns /\ cursor.row \in Rows

\* The keys keep the 0 at the end: a text that has it when it is opened (a new file's, one
\* whose file ends with it, one with a 0 in memory behind it) has it, and no other, after
\* any keys, and no key makes memcpy run out of the buffer.
BufferFinishes ==
  terminated =>
    /\ state # "crashed"
    /\ Running => \A i \in 0 .. buff_size - 1 : buff[i] = Nul <=> i = buff_size - 1

\* edit.c:212 "Buffer must finish with a 0", without the condition: it need not, since the
\* byte counted for it is not written (MCEditor_end.cfg finds it violated).
EndsWithNul == Running => buff[buff_size - 1] = Nul

\* A text is regular when no line ends, with a newline, just where the screen does: the
\* newline begins a line then for buffer_offset_to_linecol, and none for next_line.
EndsAtTheEdge(i) ==
  /\ buff[i] = NewLine /\ i > 0 /\ buff[i - 1] # NewLine
  /\ buffer_offset_to_linecol(buff, i).col = 0
Regular == \A i \in 0 .. buff_size - 1 : ~EndsAtTheEdge(i)

\* edit.c:270 "buff_cursor_offset is the linear offset of current cursor position inside
\* buff": the cursor is shown in the screen and on the character at its offset, so that
\* what is typed or deleted is what the user sees there, if the text is regular.
CursorOnItsChar ==
  Running /\ terminated /\ Regular =>
    LET c == buff[buff_cursor_offset] IN
      screen[cursor.row][cursor.col] = IF c \in {NewLine, Nul} THEN Space ELSE c

\* The same without the condition, of which edit.c:270 says nothing (MCEditor_edge.cfg
\* finds it violated).
CursorAlwaysOnItsChar ==
  Running /\ terminated =>
    LET c == buff[buff_cursor_offset] IN
      screen[cursor.row][cursor.col] = IF c \in {NewLine, Nul} THEN Space ELSE c

\* edit.c:116 "Converts line and col (input params) to linear buffer offset": it is the
\* inverse of edit.c:93, on lines that go on in the next one too, if the first line
\* of the text does not: linecol_to_buffer_offset makes that line one character longer.
FirstLineFits == RowEnd(buff, 0) < SCREEN_WIDTH \/ buff[RowEnd(buff, 0)] = Nul
PlacesAgree ==
  Running /\ terminated /\ FirstLineFits =>
    \A i \in 0 .. buff_size - 1 :
      LET place == buffer_offset_to_linecol(buff, i) IN
        linecol_to_buffer_offset(buff, place.col, place.line) = i

\* A text without the * in the title is what is on the disk, up to the byte that may be
\* more in the buffer, whatever was typed, saved and failed to be saved before.
OnDisk == (IF file = NoFile THEN <<>> ELSE file) \in {Saved, Text}
SavedIfUnmarked == Running /\ ~marked => OnDisk

\* Of an ATA disk's file that is so; of a floppy's it is not (MCEditor_floppy.cfg).
UnsavedIsMarked == ~floppy => SavedIfUnmarked

\* A key changes one character of the text, at the cursor, and every other stays in
\* its order.
Without(s, n) == [i \in 1 .. Len(s) - 1 |-> IF i < n THEN s[i] ELSE s[i + 1]]
OneCharAtATime ==
  [][Running /\ terminated /\ Text' # Text =>
       \/ Text = Without(Text', buff_cursor_offset + 1)
       \/ Text' = Without(Text, buff_cursor_offset' + 1)]_vars
=============================================================================
