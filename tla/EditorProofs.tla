---------------------------- MODULE EditorProofs ----------------------------
(***************************************************************************)
(* For any file, screen, memory and keys: a text that has its 0 when it is *)
(* opened keeps it, the cursor stays in it, and a key changes one of its   *)
(* characters at most; a text that is shown as saved is what is on the     *)
(* disk, if that is no floppy.  The three pieces of code that count lines  *)
(* agree where the text is regular, so that the cursor is in the screen    *)
(* and on its character.                                                   *)
(***************************************************************************)
EXTENDS Editor, LeastElement

Bytes == Chars \cup {NewLine, Nul}
Offsets == 0 .. Room - 1

-----------------------------------------------------------------------------
(* Offsets that the searches find. *)

\* A search up to the end of the buffer that the text's end satisfies stops there or
\* before.
LEMMA SearchStops ==
  ASSUME NEW S \in SUBSET Offsets, NEW e \in S
  PROVE  Lowest(S) \in 0 .. e /\ Lowest(S) \in S
<1>1. PICK i \in S : \A j \in S : i <= j
  <2>1. Room - 1 \in Nat /\ S \in SUBSET (0 .. Room - 1) /\ S # {}
    BY SizeAssumption DEF Offsets
  <2> QED BY <2>1, LeastExists
<1>2. Lowest(S) \in S /\ \A j \in S : Lowest(S) <= j
  BY <1>1 DEF Lowest
<1>3. Lowest(S) \in Offsets /\ e \in Offsets
  BY <1>2
<1> QED BY <1>2, <1>3, SizeAssumption DEF Offsets

\* Whatever line and column are asked for, the offset that is found is in the text.
LEMMA PlacesAreInTheText ==
  ASSUME NEW b \in [Offsets -> Bytes], NEW e \in Offsets, b[e] = Nul, NEW col, NEW line
  PROVE  linecol_to_buffer_offset(b, col, line) \in 0 .. e
<1>1. StartOfLine(b, line) \in 0 .. e
  <2> DEFINE left[n \in 0 .. Room - 1] ==
               IF n = 0 THEN [lines |-> line, c |-> 0]
               ELSE LET p == left[n - 1] IN
                    IF b[n - 1] = NewLine \/ p.c >= SCREEN_WIDTH
                    THEN [lines |-> p.lines - 1, c |-> 1]
                    ELSE [p EXCEPT !.c = @ + 1]
             S == {i \in 0 .. Room - 1 : left[i].lines = 0 \/ b[i] = Nul}
  <2>1. StartOfLine(b, line) = Lowest(S)
    BY DEF StartOfLine
  <2> HIDE DEF left
  <2>2. S \in SUBSET Offsets /\ e \in S
    BY DEF Offsets
  <2> HIDE DEF S
  <2> QED BY <2>1, <2>2, SearchStops
<1>2. ASSUME NEW from \in 0 .. e PROVE Columnwise(b, from, col) \in 0 .. e
  <2> DEFINE S == {i \in from .. Room - 1 : i = from + col \/ b[i] \in {NewLine, Nul}}
  <2>1. S \in SUBSET Offsets /\ e \in S
    BY SizeAssumption DEF Offsets
  <2>2. Columnwise(b, from, col) = Lowest(S)
    BY DEF Columnwise
  <2> HIDE DEF S
  <2> QED BY <2>1, <2>2, SearchStops
<1> QED BY <1>1, <1>2 DEF linecol_to_buffer_offset

-----------------------------------------------------------------------------
(* Texts in a buffer. *)

TextOf(b, n) == [i \in 1 .. n - 1 |-> b[i - 1]]
Finishes(b, n) == \A i \in 0 .. n - 1 : b[i] = Nul <=> i = n - 1

\* What is moved within the text stays within the buffer, before its last byte.
LEMMA MovedBytes ==
  ASSUME NEW b \in [Offsets -> Bytes], NEW dst \in Nat, NEW src \in Nat, NEW n \in Nat,
         dst + n < Room, src + n < Room
  PROVE  /\ memcpy(b, dst, src, n) \in [Offsets -> Bytes]
         /\ memcpy(b, dst, src, n)[Room - 1] = b[Room - 1]
<1>1. memcpy(b, dst, src, n) =
        [i \in Offsets |-> IF i - dst \in 0 .. n - 1 THEN b[src + i - dst] ELSE b[i]]
  BY DEF memcpy
<1>2. ASSUME NEW i \in Offsets, i - dst \in 0 .. n - 1 PROVE src + i - dst \in Offsets
  BY <1>2, SizeAssumption DEF Offsets
<1>3. Room - 1 \in Offsets /\ Room - 1 - dst \notin 0 .. n - 1
  BY SizeAssumption DEF Offsets
<1> QED BY <1>1, <1>2, <1>3

\* A character is taken out where the rest of the text is moved down.
LEMMA TakenOut ==
  ASSUME NEW b \in [Offsets -> Bytes], NEW n \in 1 .. Room - 1, NEW at \in 0 .. n - 2,
         Finishes(b, n)
  PROVE  LET d == memcpy(b, at, at + 1, n - at - 1) IN
           /\ Finishes(d, n - 1)
           /\ TextOf(d, n - 1) = Without(TextOf(b, n), at + 1)
<1> DEFINE d == memcpy(b, at, at + 1, n - at - 1)
<1>1. d = [i \in Offsets |-> IF i - at \in 0 .. n - at - 2 THEN b[at + 1 + i - at] ELSE b[i]]
  BY SizeAssumption DEF memcpy
<1>2. \A i \in Offsets : d[i] = IF i \in at .. n - 2 THEN b[i + 1] ELSE b[i]
  BY <1>1, SizeAssumption DEF Offsets
<1> HIDE DEF d
<1>4. Finishes(d, n - 1)
  BY <1>2, SizeAssumption DEF Finishes, Offsets
<1>5. Len(TextOf(b, n)) = n - 1
  BY DEF TextOf
<1>6. TextOf(d, n - 1) = Without(TextOf(b, n), at + 1)
  <2>1. \A i \in 1 .. n - 2 : d[i - 1] = IF i < at + 1 THEN b[i - 1] ELSE b[i]
    BY <1>2, SizeAssumption DEF Offsets
  <2>2. \A i \in 1 .. n - 1 : TextOf(b, n)[i] = b[i - 1]
    BY DEF TextOf
  <2>3. \A i \in 1 .. n - 2 :
          d[i - 1] = IF i < at + 1 THEN TextOf(b, n)[i] ELSE TextOf(b, n)[i + 1]
    BY <2>1, <2>2
  <2>4. TextOf(d, n - 1) = [i \in 1 .. n - 2 |-> d[i - 1]]
    BY DEF TextOf
  <2>5. Without(TextOf(b, n), at + 1) =
          [i \in 1 .. n - 2 |-> IF i < at + 1 THEN TextOf(b, n)[i] ELSE TextOf(b, n)[i + 1]]
    BY <1>5 DEF Without
  <2> QED BY <2>3, <2>4, <2>5
<1> QED BY <1>4, <1>6 DEF d

\* A character is put in where the rest of the text is moved up.
LEMMA PutIn ==
  ASSUME NEW b \in [Offsets -> Bytes], NEW n \in 1 .. Room - 2, NEW at \in 0 .. n - 1,
         NEW k \in Bytes \ {Nul}, Finishes(b, n)
  PROVE  LET d == [memcpy(b, at + 1, at, n - at) EXCEPT ![at] = k] IN
           /\ Finishes(d, n + 1)
           /\ TextOf(b, n) = Without(TextOf(d, n + 1), at + 1)
<1> DEFINE m == memcpy(b, at + 1, at, n - at)
           d == [m EXCEPT ![at] = k]
<1>1. m = [i \in Offsets |-> IF i - (at + 1) \in 0 .. n - at - 1 THEN b[at + i - (at + 1)] ELSE b[i]]
  BY SizeAssumption DEF memcpy
<1>2. \A i \in Offsets : m[i] = IF i \in at + 1 .. n THEN b[i - 1] ELSE b[i]
  BY <1>1, SizeAssumption DEF Offsets
<1>3. m \in [Offsets -> Bytes]
  BY <1>1, <1>2, SizeAssumption DEF Offsets
<1> HIDE DEF m
<1>5. \A i \in Offsets : d[i] = IF i = at THEN k ELSE IF i \in at + 1 .. n THEN b[i - 1] ELSE b[i]
  BY <1>2, <1>3, SizeAssumption DEF Offsets
<1> HIDE DEF d
<1>6. Finishes(d, n + 1)
  BY <1>5, SizeAssumption DEF Finishes, Offsets
<1>7. TextOf(b, n) = Without(TextOf(d, n + 1), at + 1)
  <2>1. \A i \in 1 .. n - 1 : b[i - 1] = IF i < at + 1 THEN d[i - 1] ELSE d[i]
    BY <1>5, SizeAssumption DEF Offsets
  <2>2. \A i \in 1 .. n : TextOf(d, n + 1)[i] = d[i - 1]
    BY DEF TextOf
  <2>3. \A i \in 1 .. n - 1 :
          b[i - 1] = IF i < at + 1 THEN TextOf(d, n + 1)[i] ELSE TextOf(d, n + 1)[i + 1]
    BY <2>1, <2>2
  <2>4. TextOf(b, n) = [i \in 1 .. n - 1 |-> b[i - 1]]
    BY DEF TextOf
  <2>5. Without(TextOf(d, n + 1), at + 1) =
          [i \in 1 .. n - 1 |-> IF i < at + 1 THEN TextOf(d, n + 1)[i] ELSE TextOf(d, n + 1)[i + 1]]
    <3>1. Len(TextOf(d, n + 1)) = n
      BY DEF TextOf
    <3> QED BY <3>1 DEF Without
  <2> QED BY <2>3, <2>4, <2>5
<1> QED BY <1>6, <1>7 DEF d, m

-----------------------------------------------------------------------------
(* The invariant. *)

\* Before the program has read the file.
Fresh == state = "start" => file \in Files /\ buff_cursor_offset = 0 /\ ~terminated

\* A 0 that the cursor does not pass: the text's own, or one that is in memory behind it.
End == IF terminated THEN buff_size - 1 ELSE Room - 1

\* The cursor is in the text or on the 0 at its end: the offsets that a key reads, moves
\* and writes are in the buffer.  A text without that 0 keeps its size, and the cursor its
\* offset, in what is modelled of the memory.
CursorInText ==
  Running => /\ buff_size \in 0 .. Room - 1 /\ buff_cursor_offset \in 0 .. End
             /\ terminated => buff_size >= 1

TextInv ==
  /\ buff \in [Offsets -> Bytes] /\ buff[Room - 1] = Nul
  /\ terminated \in BOOLEAN /\ floppy \in BOOLEAN
  /\ Fresh /\ CursorInText /\ BufferFinishes /\ UnsavedIsMarked

\* The text and its copy on the disk, as a function of what they are made of.
OnDiskOf(b, n, f) ==
  (IF f = NoFile THEN <<>> ELSE f) \in {[i \in 1 .. n |-> b[i - 1]], TextOf(b, n)}

\* The properties in these words.
LEMMA InTheseWords ==
  /\ BufferFinishes <=> (terminated => state # "crashed" /\ (Running => Finishes(buff, buff_size)))
  /\ UnsavedIsMarked <=> (~floppy => (Running /\ ~marked => OnDiskOf(buff, buff_size, file)))
  /\ Text = TextOf(buff, buff_size)
BY DEF BufferFinishes, UnsavedIsMarked, SavedIfUnmarked, OnDisk, Saved, Finishes, OnDiskOf, Text, TextOf

\* A 0 is at the end in any case.
LEMMA EndIsNul ==
  ASSUME TextInv, Running
  PROVE  /\ End \in Offsets /\ buff[End] = Nul /\ buff_cursor_offset \in 0 .. End
         /\ buff_size \in 0 .. Room - 1 /\ Room \in Nat
         /\ terminated => buff_size \in 1 .. Room - 1 /\ Finishes(buff, buff_size)
BY SizeAssumption DEF TextInv, CursorInText, BufferFinishes, End, Offsets, Finishes

\* What the buffer holds when the file has been read.
LEMMA FileIsRead ==
  ASSUME NEW f \in Files, f # Directory,
         NEW c, c = (IF f = NoFile THEN <<>> ELSE f), Len(c) < Room - 1,
         NEW b \in [Offsets -> Bytes], b[Room - 1] = Nul
  PROVE  LET d == [i \in DOMAIN b |-> IF i < Len(c) THEN c[i + 1]
                                      ELSE IF i = 0 /\ f = NoFile THEN Nul ELSE b[i]] IN
           /\ d \in [Offsets -> Bytes] /\ d[Room - 1] = Nul /\ SizeOf(c) \in 1 .. Room - 1
           /\ d[SizeOf(c) - 1] = Nul => Finishes(d, SizeOf(c))
           /\ OnDiskOf(d, SizeOf(c), f)
<1> DEFINE d == [i \in DOMAIN b |-> IF i < Len(c) THEN c[i + 1]
                                    ELSE IF i = 0 /\ f = NoFile THEN Nul ELSE b[i]]
<1>1. c \in Seq(Bytes) /\ Len(c) \in Nat
  BY FileAssumption DEF Bytes
<1>2. \A i \in Offsets : i < Len(c) => d[i] = c[i + 1]
  OBVIOUS
<1>3. d \in [Offsets -> Bytes]
  <2>1. ASSUME NEW i \in Offsets, i < Len(c) PROVE c[i + 1] \in Bytes
    BY <1>1, <2>1 DEF Offsets
  <2>2. Nul \in Bytes
    BY DEF Bytes
  <2> QED BY <2>1, <2>2
<1>4. d[Room - 1] = Nul
  BY <1>1, SizeAssumption DEF Offsets
<1>5. \A i \in 1 .. Len(c) - 1 : c[i] # Nul
  BY FileAssumption
<1> HIDE DEF d
<1>6. CASE c # <<>> /\ c[Len(c)] = Nul
  <2>1. SizeOf(c) = Len(c) /\ Len(c) \in 1 .. Room - 1
    BY <1>1, <1>6, SizeAssumption DEF SizeOf
  <2>2. Finishes(d, Len(c))
    BY <1>1, <1>2, <1>5, <1>6, <2>1, SizeAssumption DEF Finishes, Offsets
  <2>3. c = [i \in 1 .. Len(c) |-> d[i - 1]]
    <3>1. \A i \in 1 .. Len(c) : d[i - 1] = c[i]
      BY <1>1, <1>2, <2>1, SizeAssumption DEF Offsets
    <3> QED BY <1>1, <3>1
  <2> QED BY <1>3, <1>4, <2>1, <2>2, <2>3 DEF OnDiskOf, d
<1>7. CASE ~(c # <<>> /\ c[Len(c)] = Nul)
  <2>1. SizeOf(c) = Len(c) + 1 /\ Len(c) + 1 \in 1 .. Room - 1
    BY <1>1, <1>7, SizeAssumption DEF SizeOf
  <2>2. d[Len(c)] = Nul => Finishes(d, Len(c) + 1)
    BY <1>1, <1>2, <1>5, <1>7, <2>1, SizeAssumption DEF Finishes, Offsets
  <2>3. c = TextOf(d, Len(c) + 1)
    <3>1. \A i \in 1 .. Len(c) : d[i - 1] = c[i]
      BY <1>1, <1>2, <2>1, SizeAssumption DEF Offsets
    <3>2. Len(c) + 1 - 1 = Len(c)
      BY <1>1
    <3> QED BY <1>1, <3>1, <3>2 DEF TextOf
  <2>4. SizeOf(c) - 1 = Len(c)
    BY <1>1, <2>1
  <2> QED BY <1>3, <1>4, <2>1, <2>2, <2>3, <2>4 DEF OnDiskOf, d
<1> QED BY <1>6, <1>7

\* What a save that succeeds leaves on the disk is what the buffer holds.
LEMMA WrittenIsSaved ==
  ASSUME NEW b \in [Offsets -> Bytes], NEW n \in 0 .. Room - 1
  PROVE  OnDiskOf(b, n, [i \in 1 .. n |-> b[i - 1]])
<1> DEFINE f == [i \in 1 .. n |-> b[i - 1]]
<1>1. f \in Seq(Bytes)
  <2>1. \A i \in 1 .. n : b[i - 1] \in Bytes
    BY SizeAssumption DEF Offsets
  <2> QED BY <2>1
<1>2. f # NoFile
  <2>1. "no file" \notin Bytes
    BY CharAssumption DEF Bytes, NewLine, Nul, Space
  <2>2. f # <<>> => f[1] \in Bytes
    BY <1>1
  <2>3. NoFile # <<>> /\ NoFile[1] = "no file"
    BY DEF NoFile
  <2> QED BY <2>1, <2>2, <2>3
<1> QED BY <1>2 DEF OnDiskOf

\* Before the file is read there is no text.
LEMMA TextInvInit == Init => TextInv
BY SizeAssumption, MemoryAssumption
   DEF Init, TextInv, Fresh, CursorInText, BufferFinishes, UnsavedIsMarked, SavedIfUnmarked, Running,
       Offsets, Bytes

-----------------------------------------------------------------------------
(* The steps. *)

\* A key that changes one character: what it does to the text is what OneCharAtATime
\* allows.
OneChar ==
  \/ Text = Without(Text', buff_cursor_offset + 1)
  \/ Text' = Without(Text, buff_cursor_offset' + 1)

\* What a key does, for the properties: it moves the cursor within the text, or it leaves
\* a text that differs in one character and is marked.
Moved ==
  /\ Running /\ UNCHANGED <<state, text, marked, file, given>>
  /\ buff_cursor_offset' \in 0 .. End
Edited ==
  /\ Running /\ UNCHANGED <<state, file, given>> /\ marked'
  /\ buff' \in [Offsets -> Bytes] /\ buff'[Room - 1] = Nul
  /\ buff_size' \in 0 .. Room - 1 /\ buff_cursor_offset' \in Offsets
  /\ terminated => /\ OneChar /\ Finishes(buff', buff_size')
                   /\ buff_size' \in 1 .. Room - 1 /\ buff_cursor_offset' \in 0 .. buff_size' - 1

\* Every key that moves the cursor moves it to an offset before the end, wherever the line
\* and the column are that it asks for.
LEMMA KeysMove ==
  ASSUME TextInv,
         KEY_UP \/ KEY_DOWN \/ KEY_LEFT \/ KEY_RIGHT \/ KEY_HOME \/ KEY_END \/ KEY_PG_DN \/ KEY_PG_UP
  PROVE  Moved
<1>1. Running
  BY DEF KEY_UP, KEY_DOWN, KEY_LEFT, KEY_RIGHT, KEY_HOME, KEY_END, KEY_PG_DN, KEY_PG_UP,
         MoveToPlace, MoveTo, Running
<1>2. /\ buff \in [Offsets -> Bytes] /\ End \in Offsets /\ buff[End] = Nul
      /\ buff_cursor_offset \in 0 .. End
  BY <1>1, EndIsNul DEF TextInv
<1>3. ASSUME NEW offset \in 0 .. End, MoveTo(offset) PROVE Moved
  BY <1>3 DEF MoveTo, Display, Moved, Running
<1>4. ASSUME NEW col, NEW line, MoveToPlace(col, line) PROVE Moved
  BY <1>2, <1>3, <1>4, PlacesAreInTheText DEF MoveToPlace
<1>5. CASE KEY_UP
  BY <1>2, <1>3, <1>4, <1>5 DEF KEY_UP
<1>6. CASE KEY_DOWN
  BY <1>4, <1>6 DEF KEY_DOWN
<1>7. CASE KEY_LEFT
  BY <1>2, <1>3, <1>7 DEF KEY_LEFT, Offsets
<1>8. CASE KEY_RIGHT
  <2>1. LastByte <= End /\ LastByte \in Int
    BY <1>1, EndIsNul DEF LastByte, End
  <2>2. (IF buff_cursor_offset < LastByte THEN buff_cursor_offset + 1 ELSE buff_cursor_offset)
          \in 0 .. End
    BY <1>2, <2>1 DEF Offsets
  <2> QED BY <1>3, <1>8, <2>2 DEF KEY_RIGHT
<1>9. CASE KEY_HOME
  BY <1>4, <1>9 DEF KEY_HOME
<1>10. CASE KEY_END
  BY <1>4, <1>10 DEF KEY_END
<1>11. CASE KEY_PG_DN
  BY <1>4, <1>11 DEF KEY_PG_DN
<1>12. CASE KEY_PG_UP
  BY <1>4, <1>12 DEF KEY_PG_UP
<1> QED
  BY <1>5, <1>6, <1>7, <1>8, <1>9, <1>10, <1>11, <1>12

\* Only in a text without its 0 can the cursor be where memcpy's count gets below 0.
LEMMA CrashKeeps ==
  ASSUME TextInv, Crash, buff_cursor_offset > buff_size \/ buff_size = 0
  PROVE  TextInv' /\ Text' = Text /\ ~terminated
<1>1. Running /\ state' = "crashed"
      /\ UNCHANGED <<buff, buff_size, buff_cursor_offset, marked, file, terminated, floppy>>
  BY DEF Crash, Running, text, given
<1>2. ~terminated
  BY <1>1, EndIsNul DEF End
<1>3. Fresh' /\ CursorInText' /\ BufferFinishes' /\ UnsavedIsMarked'
  BY <1>1, <1>2 DEF Fresh, CursorInText, BufferFinishes, UnsavedIsMarked, SavedIfUnmarked, Running
<1> QED BY <1>1, <1>2, <1>3 DEF TextInv, Text

\* Backspace and Delete take one character out, and never the 0 at the end.
LEMMA KeysTakeOut ==
  ASSUME TextInv, KEY_BACKSPACE \/ KEY_DEL
  PROVE  Edited \/ (TextInv' /\ Text' = Text /\ ~terminated)
<1>1. Running
  BY DEF KEY_BACKSPACE, KEY_DEL, Edit, Crash, Running
<1>2. /\ buff \in [Offsets -> Bytes] /\ buff[Room - 1] = Nul
      /\ buff_size \in 0 .. Room - 1 /\ buff_cursor_offset \in 0 .. End /\ End \in Offsets
      /\ terminated => /\ buff_size \in 1 .. Room - 1 /\ Finishes(buff, buff_size)
                       /\ buff_cursor_offset \in 0 .. buff_size - 1
  BY <1>1, EndIsNul DEF TextInv, End
<1>3. ASSUME NEW at \in 0 .. buff_size - 1, terminated => at \in 0 .. buff_size - 2, marked' = TRUE,
             Edit(memcpy(buff, at, at + 1, buff_size - at - 1), buff_size - 1, at)
      PROVE  Edited
  <2>1. /\ UNCHANGED <<state, file, given>> /\ buff_cursor_offset' = at /\ buff_size' = buff_size - 1
        /\ buff' = memcpy(buff, at, at + 1, buff_size - at - 1)
    BY <1>3 DEF Edit, Display
  <2>2. buff' \in [Offsets -> Bytes] /\ buff'[Room - 1] = Nul
    BY <1>2, <2>1, MovedBytes, SizeAssumption
  <2>3. buff_size' \in 0 .. Room - 1 /\ buff_cursor_offset' \in Offsets
    BY <1>2, <2>1, SizeAssumption DEF Offsets
  <2>4. ASSUME terminated
        PROVE  /\ OneChar /\ Finishes(buff', buff_size')
               /\ buff_size' \in 1 .. Room - 1 /\ buff_cursor_offset' \in 0 .. buff_size' - 1
    <3>1. /\ Finishes(buff', buff_size')
          /\ TextOf(buff', buff_size') = Without(TextOf(buff, buff_size), at + 1)
      BY <1>2, <1>3, <2>1, <2>4, TakenOut
    <3>2. OneChar
      BY <2>1, <3>1 DEF OneChar, Text, TextOf
    <3> QED BY <1>2, <1>3, <2>1, <2>4, <3>1, <3>2, SizeAssumption
  <2> QED BY <1>1, <1>3, <2>1, <2>2, <2>3, <2>4 DEF Edited
<1>4. CASE KEY_BACKSPACE
  <2> DEFINE at == buff_cursor_offset - 1
  <2>1. CASE buff_cursor_offset > buff_size /\ Crash
    BY <2>1, CrashKeeps
  <2>2. CASE /\ buff_cursor_offset <= buff_size
             /\ Edit(memcpy(buff, at, at + 1, buff_size - at - 1), buff_size - 1, at)
             /\ marked' = TRUE
    <3>1. at \in 0 .. buff_size - 1 /\ (terminated => at \in 0 .. buff_size - 2)
      BY <1>2, <1>4, <2>2 DEF KEY_BACKSPACE, Offsets
    <3> HIDE DEF at
    <3> QED BY <1>3, <2>2, <3>1
  <2>3. at + 1 = buff_cursor_offset /\ buff_size - at - 1 = buff_size - buff_cursor_offset
    BY <1>2 DEF Offsets
  <2> QED BY <1>4, <2>1, <2>2, <2>3 DEF KEY_BACKSPACE
<1>5. CASE KEY_DEL
  <2>1. CASE buff_size = 0 /\ Crash
    BY <2>1, CrashKeeps
  <2>2. CASE ~(buff_size = 0 /\ Crash)
    <3>1. /\ buff_cursor_offset < buff_size - 1 /\ marked' = TRUE
          /\ Edit(memcpy(buff, buff_cursor_offset, buff_cursor_offset + 1,
                         buff_size - buff_cursor_offset - 1), buff_size - 1, buff_cursor_offset)
      BY <1>5, <2>2 DEF KEY_DEL
    <3>2. buff_cursor_offset \in 0 .. buff_size - 1 /\ buff_cursor_offset \in 0 .. buff_size - 2
      BY <1>2, <3>1 DEF Offsets
    <3> QED BY <1>3, <3>1, <3>2
  <2> QED BY <2>1, <2>2
<1> QED BY <1>4, <1>5

\* Any other key puts one character in, before the 0 at the end.
LEMMA KeysPutIn ==
  ASSUME TextInv, NEW k \in Chars \cup {NewLine}, Type(k)
  PROVE  Edited \/ (TextInv' /\ Text' = Text /\ ~terminated)
<1> DEFINE at == buff_cursor_offset
           m == memcpy(buff, at + 1, at, buff_size - at)
<1>1. CASE at > buff_size /\ Crash
  BY <1>1, CrashKeeps
<1>2. CASE /\ at <= buff_size /\ buff_size < MaxSize
           /\ Edit([m EXCEPT ![at] = k], buff_size + 1, at + 1) /\ marked' = TRUE
  <2>1. Running
    BY <1>2 DEF Edit, Running
  <2>2. /\ buff \in [Offsets -> Bytes] /\ buff[Room - 1] = Nul
        /\ buff_size \in 0 .. Room - 2 /\ at \in 0 .. buff_size
        /\ terminated => /\ buff_size \in 1 .. Room - 2 /\ Finishes(buff, buff_size)
                         /\ at \in 0 .. buff_size - 1
    BY <1>2, <2>1, EndIsNul, SizeAssumption DEF TextInv, End, Offsets
  <2>3. k \in Bytes \ {Nul}
    BY CharAssumption DEF Bytes, Nul, NewLine, Space
  <2>4. /\ UNCHANGED <<state, file, given>> /\ marked'
        /\ buff_cursor_offset' = at + 1 /\ buff_size' = buff_size + 1
        /\ buff' = [m EXCEPT ![at] = k]
    BY <1>2 DEF Edit, Display
  <2>5. buff' \in [Offsets -> Bytes] /\ buff'[Room - 1] = Nul
    <3>1. m \in [Offsets -> Bytes] /\ m[Room - 1] = Nul
      BY <2>2, MovedBytes, SizeAssumption
    <3>2. at \in Offsets /\ at # Room - 1 /\ Room - 1 \in Offsets
      BY <2>2, SizeAssumption DEF Offsets
    <3> HIDE DEF m
    <3> QED BY <2>3, <2>4, <3>1, <3>2
  <2>6. buff_size' \in 0 .. Room - 1 /\ buff_cursor_offset' \in Offsets
    BY <2>2, <2>4, SizeAssumption DEF Offsets
  <2>7. ASSUME terminated
        PROVE  /\ OneChar /\ Finishes(buff', buff_size')
               /\ buff_size' \in 1 .. Room - 1 /\ buff_cursor_offset' \in 0 .. buff_size' - 1
    <3>1. /\ Finishes(buff', buff_size')
          /\ TextOf(buff, buff_size) = Without(TextOf(buff', buff_size'), at + 1)
      BY <2>2, <2>3, <2>4, <2>7, PutIn
    <3>2. OneChar
      BY <3>1 DEF OneChar, Text, TextOf
    <3> QED BY <2>2, <2>4, <2>7, <3>1, <3>2, SizeAssumption
  <2> QED BY <2>1, <2>4, <2>5, <2>6, <2>7 DEF Edited
<1> QED BY <1>1, <1>2 DEF Type

\* A key that moves the cursor leaves the text.
LEMMA MovedKeeps ==
  ASSUME TextInv, Moved
  PROVE  TextInv' /\ Text' = Text
<1>1. /\ Running /\ UNCHANGED <<state, buff, buff_size, marked, file, floppy, terminated>>
      /\ buff_cursor_offset' \in 0 .. End /\ End' = End
  BY DEF Moved, text, given, End
<1> QED BY <1>1
        DEF TextInv, Fresh, CursorInText, BufferFinishes, UnsavedIsMarked, SavedIfUnmarked, OnDisk,
            Saved, Running, Text

\* A key that changes one character leaves a text.
LEMMA EditedKeeps ==
  ASSUME TextInv, Edited
  PROVE  TextInv'
<1>1. /\ Running /\ marked' /\ UNCHANGED <<state, file, floppy, terminated>>
  BY DEF Edited, given
<1>2. CursorInText'
  <2>1. CASE terminated
    BY <1>1, <2>1, SizeAssumption DEF Edited, CursorInText, End
  <2>2. CASE ~terminated
    BY <1>1, <2>2 DEF Edited, CursorInText, End, Offsets
  <2> QED BY <2>1, <2>2
<1>3. BufferFinishes'
  BY <1>1 DEF Edited, BufferFinishes, Finishes, Running
<1>4. Fresh' /\ UnsavedIsMarked'
  BY <1>1 DEF Fresh, UnsavedIsMarked, SavedIfUnmarked, Running
<1> QED BY <1>1, <1>2, <1>3, <1>4 DEF TextInv, Edited

\* The start reads the file; the title shows no *.
LEMMA StartedKeeps ==
  ASSUME TextInv, Started
  PROVE  TextInv' /\ ~Running
<1>1. /\ state = "start" /\ state' = "running" /\ file' = file /\ file \in Files /\ file # Directory
      /\ buff \in [Offsets -> Bytes] /\ buff[Room - 1] = Nul
      /\ Content = (IF file = NoFile THEN <<>> ELSE file) /\ Len(Content) < Room - 1
      /\ buff' = [i \in DOMAIN buff |-> IF i < Len(Content) THEN Content[i + 1]
                                        ELSE IF i = 0 /\ file = NoFile THEN Nul ELSE buff[i]]
      /\ buff_size' = SizeOf(Content) /\ buff_cursor_offset' = 0
      /\ terminated' = (buff'[buff_size' - 1] = Nul) /\ floppy' = floppy
  BY DEF TextInv, Fresh, Started, Content
<1>2. /\ buff' \in [Offsets -> Bytes] /\ buff'[Room - 1] = Nul /\ buff_size' \in 1 .. Room - 1
      /\ terminated' => Finishes(buff', buff_size')
      /\ OnDiskOf(buff', buff_size', file)
  <2> DEFINE d == [i \in DOMAIN buff |-> IF i < Len(Content) THEN Content[i + 1]
                                        ELSE IF i = 0 /\ file = NoFile THEN Nul ELSE buff[i]]
  <2>1. /\ d \in [Offsets -> Bytes] /\ d[Room - 1] = Nul /\ SizeOf(Content) \in 1 .. Room - 1
        /\ d[SizeOf(Content) - 1] = Nul => Finishes(d, SizeOf(Content))
        /\ OnDiskOf(d, SizeOf(Content), file)
    BY <1>1, FileIsRead
  <2>2. buff' = d
    BY <1>1
  <2> HIDE DEF d
  <2> QED BY <1>1, <2>1, <2>2
<1>3. BufferFinishes'
  BY <1>1, <1>2 DEF BufferFinishes, Finishes
<1>4. UnsavedIsMarked'
  BY <1>1, <1>2 DEF UnsavedIsMarked, SavedIfUnmarked, OnDisk, Saved, OnDiskOf, Text, TextOf
<1>5. CursorInText' /\ Fresh'
  BY <1>1, <1>2, SizeAssumption DEF CursorInText, Fresh, End
<1>6. terminated' \in BOOLEAN
  BY <1>1
<1> QED BY <1>1, <1>2, <1>3, <1>4, <1>5, <1>6 DEF TextInv, Running

\* A save that succeeds leaves the text on the disk, and one that fails a marked title, if
\* the disk is not a floppy.
LEMMA SaveKeeps ==
  ASSUME TextInv, NEW outcome \in {"saved", "error", "code"}, KEY_F1(outcome)
  PROVE  TextInv' /\ Text' = Text
<1>1. /\ Running /\ UNCHANGED <<state, text, buff_cursor_offset, given>> /\ marked' = (outcome = "error")
      /\ outcome = "saved" => file' = [i \in 1 .. buff_size |-> buff[i - 1]]
      /\ outcome = "code" => floppy
  BY DEF KEY_F1, Display, Running, Saved
<1>2. UnsavedIsMarked'
  <2>1. outcome = "saved" => OnDiskOf(buff, buff_size, file')
    BY <1>1, EndIsNul, WrittenIsSaved DEF TextInv
  <2>2. ~floppy /\ ~marked' => OnDiskOf(buff, buff_size, file')
    BY <1>1, <2>1
  <2> QED BY <1>1, <2>2
          DEF UnsavedIsMarked, SavedIfUnmarked, OnDisk, Saved, OnDiskOf, Text, TextOf, text, given
<1>3. Fresh' /\ CursorInText' /\ BufferFinishes'
  BY <1>1 DEF TextInv, Fresh, CursorInText, BufferFinishes, Running, text, given, End
<1> QED BY <1>1, <1>2, <1>3 DEF TextInv, Text, text, given

\* The program ends; its buffer is not read any more.
LEMMA EndKeeps ==
  ASSUME TextInv, Refused \/ KEY_ESC
  PROVE  TextInv' /\ Text' = Text
BY DEF TextInv, Refused, KEY_ESC, Fresh, CursorInText, BufferFinishes, UnsavedIsMarked,
       SavedIfUnmarked, Running, Text, text, given

\* Every step keeps the invariant, and changes one character at most.
LEMMA TextStep ==
  ASSUME TextInv, [Next]_vars
  PROVE  TextInv' /\ (Running /\ terminated /\ Text' # Text => OneChar)
<1>1. CASE Refused \/ KEY_ESC
  BY <1>1, EndKeeps
<1>2. CASE Started
  BY <1>2, StartedKeeps
<1>3. CASE KEY_UP \/ KEY_DOWN \/ KEY_LEFT \/ KEY_RIGHT \/ KEY_HOME \/ KEY_END \/ KEY_PG_DN \/ KEY_PG_UP
  BY <1>3, KeysMove, MovedKeeps
<1>4. CASE KEY_BACKSPACE \/ KEY_DEL
  <2>1. Edited \/ (TextInv' /\ Text' = Text)
    BY <1>4, KeysTakeOut
  <2> QED BY <2>1, EditedKeeps DEF Edited
<1>5. CASE \E k \in Chars \cup {NewLine} : Type(k)
  <2>1. Edited \/ (TextInv' /\ Text' = Text)
    BY <1>5, KeysPutIn
  <2> QED BY <2>1, EditedKeeps DEF Edited
<1>6. CASE \E outcome \in {"saved", "error", "code"} : KEY_F1(outcome)
  BY <1>6, SaveKeeps
<1>7. CASE UNCHANGED vars
  BY <1>7 DEF TextInv, Fresh, CursorInText, BufferFinishes, UnsavedIsMarked, SavedIfUnmarked, OnDisk,
              Saved, Running, Text, End, vars, text, given
<1> QED
  BY <1>1, <1>2, <1>3, <1>4, <1>5, <1>6, <1>7 DEF Next

\* So the text is one in every state.
LEMMA TextHolds == Spec => []TextInv
<1>1. TextInv /\ [Next]_vars => TextInv'
  BY TextStep
<1> QED BY <1>1, TextInvInit, PTL DEF Spec

-----------------------------------------------------------------------------
(* Searches: the least offset that has what is looked for. *)

\* The least offset is the only one that no other is below.
LEMMA LowestIs ==
  ASSUME NEW S \in SUBSET Offsets, NEW k \in S, \A j \in S : k <= j
  PROVE  Lowest(S) = k
<1>1. \A i \in S : i \in Int
  BY DEF Offsets
<1>2. \A i \in S : (\A j \in S : i <= j) => i = k
  BY <1>1
<1> QED BY <1>2 DEF Lowest

\* The search for a column of a line.
LEMMA ColumnwiseIs ==
  ASSUME NEW b, NEW from \in Nat, NEW k \in Nat, NEW col \in Nat,
         from <= k, k < Room, k = from + col \/ b[k] \in {NewLine, Nul},
         \A j \in from .. k - 1 : j # from + col /\ b[j] \notin {NewLine, Nul}
  PROVE  Columnwise(b, from, col) = k
<1> DEFINE S == {i \in from .. Room - 1 : i = from + col \/ b[i] \in {NewLine, Nul}}
<1>1. S \in SUBSET Offsets
  BY SizeAssumption DEF Offsets
<1>2. k \in S
  BY SizeAssumption
<1>3. ASSUME NEW j \in S PROVE k <= j
  BY SizeAssumption
<1>4. Columnwise(b, from, col) = Lowest(S)
  BY DEF Columnwise
<1> HIDE DEF S
<1> QED BY <1>1, <1>2, <1>3, <1>4, LowestIs

\* A text in a buffer, with its only 0 at e.
EndsAt(b, e) ==
  /\ b \in [Offsets -> Bytes] /\ e \in Offsets
  /\ b[e] = Nul /\ \A i \in 0 .. e - 1 : b[i] # Nul

-----------------------------------------------------------------------------
(* Lines and columns, from one offset to the next. *)

\* What the loop of buffer_offset_to_linecol does with the character at an offset.
Advance(b, m, p) ==
  IF b[m] = NewLine \/ p.col + 1 >= SCREEN_WIDTH THEN [line |-> p.line + 1, col |-> 0]
  ELSE [line |-> p.line, col |-> p.col + 1]

PlacesType == [line : Nat, col : Nat]

\* The places up to the n-th of a function.
Goes(b, f, n) ==
  /\ f[0] = [line |-> 0, col |-> 0]
  /\ \A i \in 0 .. n - 1 : f[i + 1] = Advance(b, i, f[i])

\* There is only one.
LEMMA OneWay ==
  ASSUME NEW b, NEW f, NEW h, NEW n \in Nat, Goes(b, f, n), Goes(b, h, n)
  PROVE  \A i \in 0 .. n : f[i] = h[i]
<1> DEFINE S == {i \in 0 .. n : f[i] = h[i]}
<1>1. 0 \in S
  BY DEF Goes
<1>2. \A i \in 0 .. n - 1 : i \in S => i + 1 \in S
  BY DEF Goes
<1>3. \A i \in 0 .. n : i \in S
  <2> HIDE DEF S
  <2> QED BY <1>1, <1>2, UpTo
<1> QED BY <1>3

\* The function that buffer_offset_to_linecol is defined by exists, so that its values go
\* on from one offset to the next.
LEMMA PlacesUpTo ==
  ASSUME NEW b, NEW n \in Nat, CountedTo(b, n) \in 0 .. n
  PROVE  \E f \in [0 .. n -> PlacesType] :
           Goes(b, f, n) /\ buffer_offset_to_linecol(b, n) = f[CountedTo(b, n)]
<1> DEFINE a == [line |-> 0, col |-> 0]
           g == [m \in 0 .. n - 1 |-> [p \in PlacesType |-> Advance(b, m, p)]]
           Body(i, p) ==
             IF b[i] = NewLine \/ p.col + 1 >= SCREEN_WIDTH THEN [line |-> p.line + 1, col |-> 0]
             ELSE [p EXCEPT !.col = @ + 1]
           place[i \in 0 .. n] == IF i = 0 THEN a ELSE Body(i - 1, place[i - 1])
<1>1. a \in PlacesType
  BY DEF PlacesType
<1>2. ASSUME NEW i, NEW p \in PlacesType
      PROVE  Body(i, p) = Advance(b, i, p) /\ Advance(b, i, p) \in PlacesType
  BY SizeAssumption DEF PlacesType, Advance, Nul, NewLine
<1>3. g \in [0 .. n - 1 -> [PlacesType -> PlacesType]]
  BY <1>2
<1>4. IsRule(n, PlacesType, a, g)
  BY <1>1, <1>3 DEF IsRule
<1>5. \E f \in [0 .. n -> PlacesType] : f = [i \in 0 .. n |-> IF i = 0 THEN a ELSE g[i - 1][f[i - 1]]]
  <2> HIDE DEF a, g, PlacesType
  <2> QED BY <1>4, RecursiveFunction
<1>10. PICK f \in [0 .. n -> PlacesType] :
        f = [i \in 0 .. n |-> IF i = 0 THEN a ELSE g[i - 1][f[i - 1]]]
  BY <1>5
<1>6. ASSUME NEW i \in 0 .. n, i # 0 PROVE g[i - 1][f[i - 1]] = Body(i - 1, f[i - 1])
  BY <1>2, <1>6
<1>7. f = [i \in 0 .. n |-> IF i = 0 THEN a ELSE Body(i - 1, f[i - 1])]
  <2> HIDE DEF Body, g, a
  <2> QED BY <1>6, <1>10
<1>8. place = [i \in 0 .. n |-> IF i = 0 THEN a ELSE Body(i - 1, place[i - 1])]
  <2> HIDE DEF Body, g, a
  <2> QED BY <1>7
<1>9. buffer_offset_to_linecol(b, n) = place[CountedTo(b, n)]
  BY DEF buffer_offset_to_linecol
<1> HIDE DEF place
<1>11. f[0] = a /\ \A i \in 0 .. n - 1 : f[i + 1] = Body(i, f[i])
  <2> HIDE DEF Body, g, a
  <2> QED BY <1>7
<1>12. place[0] = a /\ \A i \in 0 .. n - 1 : place[i + 1] = Body(i, place[i])
  <2> HIDE DEF Body, g, a
  <2> QED BY <1>8
<1>13. \A i \in 0 .. n : f[i] = place[i]
  <2>1. \A i \in 0 .. n - 1 : f[i] = place[i] => f[i + 1] = place[i + 1]
    <3> HIDE DEF Body
    <3> QED BY <1>11, <1>12
  <2> DEFINE S == {i \in 0 .. n : f[i] = place[i]}
  <2>2. 0 \in S
    BY <1>11, <1>12
  <2>3. \A i \in 0 .. n - 1 : i \in S => i + 1 \in S
    BY <2>1
  <2>4. \A i \in 0 .. n : i \in S
    <3> HIDE DEF S
    <3> QED BY <2>2, <2>3, UpTo
  <2> QED BY <2>4
<1>14. Goes(b, f, n)
  <2> HIDE DEF Body
  <2> QED BY <1>2, <1>11 DEF Goes
<1>15. buffer_offset_to_linecol(b, n) = f[CountedTo(b, n)]
  BY <1>9, <1>13
<1> QED BY <1>14, <1>15

\* Counting goes as far as the text does.
LEMMA CountedAll ==
  ASSUME NEW b, NEW e, EndsAt(b, e), NEW n \in Offsets
  PROVE  CountedTo(b, n) = IF n <= e THEN n ELSE e
<1> DEFINE S == {i \in 0 .. n : i = n \/ b[i] = Nul}
           k == IF n <= e THEN n ELSE e
<1>1. S \in SUBSET Offsets
  BY SizeAssumption DEF Offsets
<1>2. k \in S /\ \A j \in S : k <= j
  BY DEF EndsAt, Offsets
<1>3. CountedTo(b, n) = Lowest(S)
  BY DEF CountedTo
<1> HIDE DEF S, k
<1>4. Lowest(S) = k
  BY <1>1, <1>2, LowestIs
<1> QED BY <1>3, <1>4 DEF k

\* Lines and columns from one offset to the next, up to the text's end.
LEMMA Places ==
  ASSUME NEW b, NEW e, EndsAt(b, e)
  PROVE  /\ buffer_offset_to_linecol(b, 0) = [line |-> 0, col |-> 0]
         /\ \A n \in Offsets : /\ buffer_offset_to_linecol(b, n) \in PlacesType
                               /\ n > e => buffer_offset_to_linecol(b, n) = buffer_offset_to_linecol(b, e)
         /\ \A n \in 0 .. e - 1 :
              buffer_offset_to_linecol(b, n + 1) = Advance(b, n, buffer_offset_to_linecol(b, n))
<1> DEFINE At(n) == IF n <= e THEN n ELSE e
<1>0. e \in Offsets /\ e \in Nat /\ \A n \in Offsets : n \in Nat /\ At(n) \in 0 .. n
  BY DEF EndsAt, Offsets
<1>1. ASSUME NEW n \in Offsets
      PROVE  \E f \in [0 .. n -> PlacesType] :
               Goes(b, f, n) /\ buffer_offset_to_linecol(b, n) = f[At(n)]
  <2>1. CountedTo(b, n) = At(n) /\ At(n) \in 0 .. n /\ n \in Nat
    BY <1>0, CountedAll
  <2> HIDE DEF At
  <2> QED BY <2>1, PlacesUpTo
<1>2. ASSUME NEW n \in Offsets, NEW m \in Offsets, At(n) <= m,
             NEW f, Goes(b, f, n), NEW h, Goes(b, h, m)
      PROVE  f[At(n)] = h[At(n)]
  <2> DEFINE l == At(n)
  <2>1. l \in Nat /\ l <= n /\ l <= m
    BY <1>0, <1>2
  <2>2. Goes(b, f, l) /\ Goes(b, h, l)
    BY <1>2, <2>1, <1>0 DEF Goes
  <2> HIDE DEF l
  <2>3. \A i \in 0 .. l : f[i] = h[i]
    BY <2>1, <2>2, OneWay
  <2> QED BY <2>1, <2>3 DEF l
<1>3. buffer_offset_to_linecol(b, 0) = [line |-> 0, col |-> 0]
  <2>1. 0 \in Offsets /\ At(0) = 0
    BY <1>0, SizeAssumption DEF Offsets
  <2>2. PICK f \in [0 .. 0 -> PlacesType] :
          Goes(b, f, 0) /\ buffer_offset_to_linecol(b, 0) = f[0]
    BY <1>1, <2>1
  <2> QED BY <2>2 DEF Goes
<1>4. ASSUME NEW n \in Offsets
      PROVE  /\ buffer_offset_to_linecol(b, n) \in PlacesType
             /\ n > e => buffer_offset_to_linecol(b, n) = buffer_offset_to_linecol(b, e)
  <2>1. PICK f \in [0 .. n -> PlacesType] :
          Goes(b, f, n) /\ buffer_offset_to_linecol(b, n) = f[At(n)]
    BY <1>1
  <2>2. PICK h \in [0 .. e -> PlacesType] :
          Goes(b, h, e) /\ buffer_offset_to_linecol(b, e) = h[At(e)]
    BY <1>0, <1>1
  <2>3. n > e => At(n) = e /\ At(e) = e
    BY <1>0
  <2>4. n > e => f[At(n)] = h[At(n)]
    BY <1>0, <1>2, <2>1, <2>2, <2>3
  <2> QED BY <1>0, <2>1, <2>2, <2>3, <2>4
<1>5. ASSUME NEW n \in 0 .. e - 1
      PROVE  buffer_offset_to_linecol(b, n + 1) = Advance(b, n, buffer_offset_to_linecol(b, n))
  <2>1. n \in Offsets /\ n + 1 \in Offsets /\ At(n) = n /\ At(n + 1) = n + 1
    BY <1>0, SizeAssumption DEF Offsets
  <2>2. PICK f \in [0 .. n -> PlacesType] :
          Goes(b, f, n) /\ buffer_offset_to_linecol(b, n) = f[n]
    BY <1>1, <2>1
  <2>3. PICK h \in [0 .. n + 1 -> PlacesType] :
          Goes(b, h, n + 1) /\ buffer_offset_to_linecol(b, n + 1) = h[n + 1]
    <3> DEFINE m == n + 1
    <3>1. m \in Offsets /\ At(m) = m
      BY <2>1
    <3> HIDE DEF m, At
    <3>2. \E h \in [0 .. m -> PlacesType] : Goes(b, h, m) /\ buffer_offset_to_linecol(b, m) = h[m]
      BY <1>1, <3>1
    <3> QED BY <3>2 DEF m
  <2>4. f[n] = h[n]
    BY <1>2, <2>1, <2>2, <2>3
  <2>5. h[n + 1] = Advance(b, n, h[n])
    BY <2>3 DEF Goes
  <2> QED BY <2>2, <2>3, <2>4, <2>5
<1> QED BY <1>3, <1>4, <1>5

-----------------------------------------------------------------------------
(* Where a row ends. *)

\* Where the row of the screen ends that begins at an offset of the text: it is found up to
\* the text's end, has no end of a line before it, and not more than a row's characters.
LEMMA RowEnds ==
  ASSUME NEW b, NEW e, EndsAt(b, e), NEW from \in 0 .. e
  PROVE  /\ RowEnd(b, from) \in from .. e
         /\ RowEnd(b, from) <= from + SCREEN_WIDTH
         /\ RowEnd(b, from) = from + SCREEN_WIDTH \/ b[RowEnd(b, from)] \in {NewLine, Nul}
         /\ \A j \in from .. RowEnd(b, from) - 1 : b[j] \notin {NewLine, Nul}
<1> DEFINE S == {i \in from .. Room - 1 : i = from + SCREEN_WIDTH \/ b[i] \in {NewLine, Nul}}
<1>1. RowEnd(b, from) = Lowest(S)
  BY DEF RowEnd, Columnwise
<1>2. S \in SUBSET Offsets /\ e \in S
  BY SizeAssumption DEF Offsets, EndsAt
<1>3. PICK i \in S : \A j \in S : i <= j
  <2>1. Room - 1 \in Nat /\ S \in SUBSET (0 .. Room - 1) /\ S # {}
    BY <1>2, SizeAssumption DEF Offsets
  <2> HIDE DEF S
  <2> QED BY <2>1, LeastExists
<1>4. Lowest(S) = i
  <2> HIDE DEF S
  <2> QED BY <1>2, <1>3, LowestIs
<1>5. i \in from .. e
  BY <1>2, <1>3, SizeAssumption DEF Offsets, EndsAt
<1>6. i = from + SCREEN_WIDTH \/ b[i] \in {NewLine, Nul}
  OBVIOUS
<1>7. ASSUME NEW j \in from .. i - 1 PROVE b[j] \notin {NewLine, Nul} /\ j # from + SCREEN_WIDTH
  <2>1. j \notin S
    <3> HIDE DEF S
    <3> QED BY <1>3, <1>5
  <2>2. j \in from .. Room - 1
    BY <1>5, SizeAssumption DEF Offsets, EndsAt
  <2> QED BY <2>1, <2>2
<1>8. i <= from + SCREEN_WIDTH
  BY <1>5, <1>7, SizeAssumption DEF EndsAt, Offsets
<1> HIDE DEF S
<1> QED BY <1>1, <1>4, <1>5, <1>6, <1>7, <1>8

-----------------------------------------------------------------------------
(* How a text is laid out. *)

LineOf(b, i) == buffer_offset_to_linecol(b, i).line
ColOf(b, i) == buffer_offset_to_linecol(b, i).col

\* Whether a line ends behind the character at an offset.
Breaks(b, i) == b[i] = NewLine \/ ColOf(b, i) + 1 >= SCREEN_WIDTH

\* A character that ends a line is followed by the next line's first column, and any other
\* one by the next column.
LEMMA LinesGoOn ==
  ASSUME NEW b, NEW e, EndsAt(b, e)
  PROVE  /\ LineOf(b, 0) = 0 /\ ColOf(b, 0) = 0
         /\ \A i \in 0 .. e :
              /\ LineOf(b, i) \in Nat /\ ColOf(b, i) \in Nat
              /\ buffer_offset_to_linecol(b, i) = [line |-> LineOf(b, i), col |-> ColOf(b, i)]
         /\ \A i \in 0 .. e - 1 :
              IF Breaks(b, i)
              THEN LineOf(b, i + 1) = LineOf(b, i) + 1 /\ ColOf(b, i + 1) = 0
              ELSE LineOf(b, i + 1) = LineOf(b, i) /\ ColOf(b, i + 1) = ColOf(b, i) + 1
<1>1. LineOf(b, 0) = 0 /\ ColOf(b, 0) = 0
  BY Places DEF LineOf, ColOf
<1>2. ASSUME NEW i \in Offsets
      PROVE  /\ LineOf(b, i) \in Nat /\ ColOf(b, i) \in Nat
             /\ buffer_offset_to_linecol(b, i) = [line |-> LineOf(b, i), col |-> ColOf(b, i)]
  <2>1. buffer_offset_to_linecol(b, i) \in PlacesType
    BY Places
  <2> QED BY <2>1 DEF LineOf, ColOf, PlacesType
<1>3. ASSUME NEW i \in 0 .. e - 1
      PROVE  IF Breaks(b, i)
             THEN LineOf(b, i + 1) = LineOf(b, i) + 1 /\ ColOf(b, i + 1) = 0
             ELSE LineOf(b, i + 1) = LineOf(b, i) /\ ColOf(b, i + 1) = ColOf(b, i) + 1
  <2>1. i \in Nat /\ b[i] # Nul
    BY DEF EndsAt, Offsets
  <2>2. buffer_offset_to_linecol(b, i + 1) = Advance(b, i, buffer_offset_to_linecol(b, i))
    BY <2>1, Places
  <2> QED BY <2>1, <2>2 DEF Advance, Breaks, LineOf, ColOf
<1>4. 0 .. e \subseteq Offsets
  BY SizeAssumption DEF EndsAt, Offsets
<1> QED BY <1>1, <1>2, <1>3, <1>4

\* The line of an offset begins as many characters before it as its column says, and has
\* no newline on the way; earlier offsets are in earlier lines.
InItsLine(b, i) ==
  /\ LineOf(b, i) <= i /\ ColOf(b, i) <= i /\ ColOf(b, i) < SCREEN_WIDTH
  /\ \A j \in i - ColOf(b, i) .. i - 1 : b[j] # NewLine
  /\ \A j \in 0 .. i : IF j < i - ColOf(b, i) THEN LineOf(b, j) < LineOf(b, i)
                                              ELSE LineOf(b, j) = LineOf(b, i)

\* So it is all through the text.
LEMMA AllInTheirLines ==
  ASSUME NEW b, NEW e, EndsAt(b, e)
  PROVE  \A i \in 0 .. e : InItsLine(b, i)
<1> DEFINE S == {i \in 0 .. e : InItsLine(b, i)}
<1>1. e \in Nat
  BY DEF EndsAt, Offsets
<1>2. 0 \in S
  BY <1>1, LinesGoOn, SizeAssumption DEF InItsLine
<1>3. ASSUME NEW i \in 0 .. e - 1, InItsLine(b, i) PROVE InItsLine(b, i + 1)
  <2>1. /\ i \in Nat /\ i + 1 \in 0 .. e /\ i \in 0 .. e
        /\ LineOf(b, i) \in Nat /\ ColOf(b, i) \in Nat
        /\ \A j \in 0 .. i : LineOf(b, j) \in Nat
        /\ SCREEN_WIDTH \in Nat \ {0}
    BY <1>1, LinesGoOn, SizeAssumption
  <2>2. \A j \in 0 .. i : LineOf(b, j) <= LineOf(b, i)
    BY <1>3, <2>1 DEF InItsLine
  <2>3. CASE Breaks(b, i)
    <3>1. LineOf(b, i + 1) = LineOf(b, i) + 1 /\ ColOf(b, i + 1) = 0
      BY <2>3, LinesGoOn
    <3>2. \A j \in 0 .. i + 1 : IF j < i + 1 THEN LineOf(b, j) < LineOf(b, i + 1)
                                             ELSE LineOf(b, j) = LineOf(b, i + 1)
      BY <2>1, <2>2, <3>1
    <3> QED BY <1>3, <2>1, <3>1, <3>2 DEF InItsLine
  <2>4. CASE ~Breaks(b, i)
    <3>1. LineOf(b, i + 1) = LineOf(b, i) /\ ColOf(b, i + 1) = ColOf(b, i) + 1
      BY <2>4, LinesGoOn
    <3>2. b[i] # NewLine /\ ColOf(b, i) + 1 < SCREEN_WIDTH
      BY <2>1, <2>4 DEF Breaks
    <3>3. i + 1 - ColOf(b, i + 1) = i - ColOf(b, i)
      BY <2>1, <3>1
    <3>4. \A j \in i - ColOf(b, i) .. i : b[j] # NewLine
      BY <1>3, <2>1, <3>2 DEF InItsLine
    <3>5. \A j \in 0 .. i + 1 : IF j < i - ColOf(b, i) THEN LineOf(b, j) < LineOf(b, i + 1)
                                                       ELSE LineOf(b, j) = LineOf(b, i + 1)
      BY <1>3, <2>1, <3>1 DEF InItsLine
    <3> QED BY <1>3, <2>1, <3>1, <3>2, <3>3, <3>4, <3>5 DEF InItsLine
  <2> QED BY <2>3, <2>4
<1>4. \A i \in 0 .. e - 1 : i \in S => i + 1 \in S
  BY <1>1, <1>3
<1>5. \A i \in 0 .. e : i \in S
  <2> HIDE DEF S
  <2> QED BY <1>1, <1>2, <1>4, UpTo
<1> QED BY <1>5

-----------------------------------------------------------------------------
(* The way back: from a line and a column to the offset. *)

\* What the first loop of linecol_to_buffer_offset counts.
CountsType == [lines : Int, c : Nat]
Counted(b, m, p) ==
  IF b[m] = NewLine \/ p.c >= SCREEN_WIDTH THEN [lines |-> p.lines - 1, c |-> 1]
  ELSE [lines |-> p.lines, c |-> p.c + 1]

\* The function that StartOfLine is defined by exists.
LEMMA LinesLeft ==
  ASSUME NEW b, NEW line \in Int
  PROVE  \E f \in [Offsets -> CountsType] :
           /\ f[0] = [lines |-> line, c |-> 0]
           /\ \A i \in 0 .. Room - 2 : f[i + 1] = Counted(b, i, f[i])
           /\ StartOfLine(b, line) = Lowest({i \in Offsets : f[i].lines = 0 \/ b[i] = Nul})
<1> DEFINE n == Room - 1
           a == [lines |-> line, c |-> 0]
           g == [m \in 0 .. n - 1 |-> [p \in CountsType |-> Counted(b, m, p)]]
           Body(i, p) ==
             IF b[i] = NewLine \/ p.c >= SCREEN_WIDTH
             THEN [lines |-> p.lines - 1, c |-> 1]
             ELSE [p EXCEPT !.c = @ + 1]
           left[i \in 0 .. n] == IF i = 0 THEN a ELSE Body(i - 1, left[i - 1])
<1>1. a \in CountsType /\ n \in Nat /\ n - 1 = Room - 2 /\ Offsets = 0 .. n
  BY SizeAssumption DEF CountsType, Offsets
<1>2. ASSUME NEW i, NEW p \in CountsType
      PROVE  Body(i, p) = Counted(b, i, p) /\ Counted(b, i, p) \in CountsType
  BY SizeAssumption DEF CountsType, Counted
<1>3. g \in [0 .. n - 1 -> [CountsType -> CountsType]]
  BY <1>2
<1>4. IsRule(n, CountsType, a, g)
  BY <1>1, <1>3 DEF IsRule
<1>5. \E f \in [0 .. n -> CountsType] : f = [i \in 0 .. n |-> IF i = 0 THEN a ELSE g[i - 1][f[i - 1]]]
  <2> HIDE DEF n, a, g, CountsType
  <2> QED BY <1>1, <1>4, RecursiveFunction
<1>6. PICK f \in [0 .. n -> CountsType] :
        f = [i \in 0 .. n |-> IF i = 0 THEN a ELSE g[i - 1][f[i - 1]]]
  BY <1>5
<1>7. ASSUME NEW i \in 0 .. n, i # 0 PROVE g[i - 1][f[i - 1]] = Body(i - 1, f[i - 1])
  <2>1. i - 1 \in 0 .. n - 1 /\ i - 1 \in 0 .. n
    BY <1>1, <1>7
  <2>2. f[i - 1] \in CountsType
    BY <2>1
  <2>3. g[i - 1][f[i - 1]] = Counted(b, i - 1, f[i - 1])
    BY <2>1, <2>2
  <2> QED BY <1>2, <2>2, <2>3
<1>8. f = [i \in 0 .. n |-> IF i = 0 THEN a ELSE Body(i - 1, f[i - 1])]
  <2> HIDE DEF Body, g, a, n
  <2> QED BY <1>6, <1>7
<1>9. left = [i \in 0 .. n |-> IF i = 0 THEN a ELSE Body(i - 1, left[i - 1])]
  <2> HIDE DEF Body, g, a, n
  <2> QED BY <1>8
<1>10. StartOfLine(b, line) = Lowest({i \in 0 .. n : left[i].lines = 0 \/ b[i] = Nul})
  BY DEF StartOfLine
<1> HIDE DEF left, Body, a, g, n
<1>11. f[0] = a /\ \A i \in 0 .. n - 1 : f[i + 1] = Body(i, f[i])
  BY <1>1, <1>8
<1>12. left[0] = a /\ \A i \in 0 .. n - 1 : left[i + 1] = Body(i, left[i])
  BY <1>1, <1>9
<1>13. \A i \in 0 .. n : f[i] = left[i]
  <2> DEFINE S == {i \in 0 .. n : f[i] = left[i]}
  <2>1. 0 \in S
    BY <1>1, <1>11, <1>12
  <2>2. \A i \in 0 .. n - 1 : i \in S => i + 1 \in S
    BY <1>1, <1>11, <1>12
  <2>3. \A i \in 0 .. n : i \in S
    <3> HIDE DEF S
    <3> QED BY <1>1, <2>1, <2>2, UpTo
  <2> QED BY <2>3
<1>14. \A i \in 0 .. n - 1 : f[i + 1] = Counted(b, i, f[i])
  BY <1>1, <1>2, <1>11
<1>15. {i \in 0 .. n : left[i].lines = 0 \/ b[i] = Nul} = {i \in 0 .. n : f[i].lines = 0 \/ b[i] = Nul}
  BY <1>13
<1> QED BY <1>1, <1>10, <1>11, <1>14, <1>15 DEF a

\* The two ways of counting agree on the offsets before the text's end, if the first line
\* fits: what is counted is one character more in every line but the first.
Fits(b) == RowEnd(b, 0) < SCREEN_WIDTH \/ b[RowEnd(b, 0)] = Nul

\* Before the text's end, the lines that are left to be counted are those that an offset is
\* short of the line that is looked for.
LEMMA CountsAgree ==
  ASSUME NEW b, NEW e, EndsAt(b, e), Fits(b), NEW line \in Int, NEW f \in [Offsets -> CountsType],
         f[0] = [lines |-> line, c |-> 0],
         \A i \in 0 .. Room - 2 : f[i + 1] = Counted(b, i, f[i])
  PROVE  \A i \in 0 .. e - 1 : f[i].lines = line - LineOf(b, i)
<1> DEFINE Agree(i) ==
             /\ f[i].lines = line - LineOf(b, i)
             /\ f[i].c = ColOf(b, i) + (IF LineOf(b, i) = 0 THEN 0 ELSE 1)
<1>1. /\ e \in Nat /\ e < Room /\ Room \in Nat /\ SCREEN_WIDTH \in Nat \ {0}
      /\ b \in [Offsets -> Bytes] /\ e \in Offsets /\ b[e] = Nul
      /\ \A i \in 0 .. e - 1 : b[i] # Nul
  BY SizeAssumption DEF EndsAt, Offsets
<1>2. CASE e = 0
  BY <1>1, <1>2
<1>3. CASE e # 0
  <2> DEFINE S == {i \in 0 .. e - 1 : Agree(i)}
  <2>1. 0 \in S
    BY <1>1, <1>3, LinesGoOn
  <2>2. ASSUME NEW i \in 0 .. e - 2, Agree(i) PROVE Agree(i + 1)
    <3>1. /\ i \in 0 .. e - 1 /\ i \in 0 .. e /\ i + 1 \in 0 .. e /\ i \in 0 .. Room - 2
          /\ LineOf(b, i) \in Nat /\ ColOf(b, i) \in Nat /\ ColOf(b, i) < SCREEN_WIDTH
      BY <1>1, LinesGoOn, AllInTheirLines DEF InItsLine
    <3>2. f[i] \in CountsType /\ f[i + 1] = Counted(b, i, f[i])
      BY <1>1, <3>1 DEF Offsets
    <3>3. b[i] # NewLine /\ LineOf(b, i) = 0 => ColOf(b, i) + 1 < SCREEN_WIDTH
      <4> SUFFICES ASSUME b[i] # NewLine, LineOf(b, i) = 0, ColOf(b, i) + 1 >= SCREEN_WIDTH
                   PROVE  FALSE
        BY <1>1, <3>1
      <4>1. i = ColOf(b, i)
        <5>1. LineOf(b, 0) = 0
          BY LinesGoOn
        <5>2. ColOf(b, i) <= i /\ (0 < i - ColOf(b, i) => LineOf(b, 0) < LineOf(b, i))
          BY <1>1, <3>1, AllInTheirLines DEF InItsLine
        <5> QED BY <3>1, <5>1, <5>2
      <4>2. i + 1 = SCREEN_WIDTH
        BY <1>1, <3>1, <4>1
      <4>3. \A j \in 0 .. i : b[j] \notin {NewLine, Nul}
        <5>1. \A j \in i - ColOf(b, i) .. i - 1 : b[j] # NewLine
          BY <3>1, AllInTheirLines DEF InItsLine
        <5> QED BY <1>1, <3>1, <4>1, <5>1
      <4>4. RowEnd(b, 0) = i + 1
        <5>1. 0 \in 0 .. e
          BY <1>1
        <5>2. /\ RowEnd(b, 0) \in 0 .. e /\ RowEnd(b, 0) <= 0 + SCREEN_WIDTH
              /\ RowEnd(b, 0) = 0 + SCREEN_WIDTH \/ b[RowEnd(b, 0)] \in {NewLine, Nul}
          BY <1>1, <5>1, RowEnds
        <5> QED BY <1>1, <4>2, <4>3, <5>2
      <4>5. b[i + 1] # Nul
        BY <1>1
      <4> QED BY <1>1, <3>1, <4>2, <4>4, <4>5 DEF Fits
    <3>4. CASE Breaks(b, i)
      <4>1. LineOf(b, i + 1) = LineOf(b, i) + 1 /\ ColOf(b, i + 1) = 0
        BY <3>1, <3>4, LinesGoOn
      <4>2. b[i] = NewLine \/ f[i].c >= SCREEN_WIDTH
        BY <1>1, <2>2, <3>1, <3>3, <3>4 DEF Breaks
      <4>3. f[i + 1] = [lines |-> f[i].lines - 1, c |-> 1]
        BY <3>2, <4>2 DEF Counted
      <4> QED BY <2>2, <3>1, <4>1, <4>3
    <3>5. CASE ~Breaks(b, i)
      <4>1. LineOf(b, i + 1) = LineOf(b, i) /\ ColOf(b, i + 1) = ColOf(b, i) + 1
        BY <3>1, <3>5, LinesGoOn
      <4>2. ~(b[i] = NewLine \/ f[i].c >= SCREEN_WIDTH)
        BY <1>1, <2>2, <3>1, <3>5 DEF Breaks
      <4>3. f[i + 1] = [lines |-> f[i].lines, c |-> f[i].c + 1]
        BY <3>2, <4>2 DEF Counted
      <4> QED BY <2>2, <3>1, <4>1, <4>3
    <3> QED BY <3>4, <3>5
  <2>3. \A i \in 0 .. (e - 1) - 1 : i \in S => i + 1 \in S
    BY <1>1, <2>2
  <2>4. \A i \in 0 .. e - 1 : i \in S
    <3> DEFINE m == e - 1
    <3>1. m \in Nat
      BY <1>1, <1>3
    <3> HIDE DEF S, m
    <3>2. \A i \in 0 .. m : i \in S
      BY <2>1, <2>3, <3>1, UpTo DEF m
    <3> QED BY <3>2 DEF m
  <2> QED BY <2>4
<1> QED BY <1>2, <1>3

\* Back from where an offset is shown to the offset.
LEMMA ThereAndBack ==
  ASSUME NEW b, NEW e, EndsAt(b, e), Fits(b), NEW i \in 0 .. e
  PROVE  linecol_to_buffer_offset(b, ColOf(b, i), LineOf(b, i)) = i
<1>1. /\ e \in Nat /\ e < Room /\ Room \in Nat /\ e \in Offsets
      /\ b \in [Offsets -> Bytes] /\ b[e] = Nul /\ \A j \in 0 .. e - 1 : b[j] # Nul
  BY SizeAssumption DEF EndsAt, Offsets
<1>2. LineOf(b, i) \in Nat /\ ColOf(b, i) \in Nat /\ InItsLine(b, i)
  BY LinesGoOn, AllInTheirLines
<1>3. PICK f \in [Offsets -> CountsType] :
        /\ f[0] = [lines |-> LineOf(b, i), c |-> 0]
        /\ \A j \in 0 .. Room - 2 : f[j + 1] = Counted(b, j, f[j])
        /\ StartOfLine(b, LineOf(b, i)) = Lowest({j \in Offsets : f[j].lines = 0 \/ b[j] = Nul})
  <2> DEFINE line == LineOf(b, i)
  <2>1. line \in Int
    BY <1>2
  <2> HIDE DEF line
  <2>2. \E f \in [Offsets -> CountsType] :
          /\ f[0] = [lines |-> line, c |-> 0]
          /\ \A j \in 0 .. Room - 2 : f[j + 1] = Counted(b, j, f[j])
          /\ StartOfLine(b, line) = Lowest({j \in Offsets : f[j].lines = 0 \/ b[j] = Nul})
    BY <2>1, LinesLeft
  <2> QED BY <2>2 DEF line
<1>4. \A j \in 0 .. e - 1 : f[j].lines = LineOf(b, i) - LineOf(b, j)
  BY <1>2, <1>3, CountsAgree
<1>5. StartOfLine(b, LineOf(b, i)) = i - ColOf(b, i)
  <2> DEFINE S == {j \in Offsets : f[j].lines = 0 \/ b[j] = Nul}
             k == i - ColOf(b, i)
  <2>1. k \in 0 .. i
    BY <1>1, <1>2 DEF InItsLine
  <2>2. k \in S
    <3>1. CASE k = e
      BY <1>1, <3>1
    <3>2. CASE k # e
      <4>1. k \in 0 .. e - 1 /\ k \in Offsets
        BY <1>1, <2>1, <3>2 DEF Offsets
      <4>2. LineOf(b, k) = LineOf(b, i)
        BY <1>1, <1>2, <2>1 DEF InItsLine
      <4> QED BY <1>2, <1>4, <4>1, <4>2
    <3> QED BY <3>1, <3>2
  <2>3. ASSUME NEW j \in S PROVE k <= j
    <3> SUFFICES ASSUME j < k PROVE FALSE
      BY <1>1, <2>1 DEF Offsets
    <3>1. j \in 0 .. e - 1 /\ j \in 0 .. i /\ j \in 0 .. e
      BY <1>1, <2>1 DEF Offsets
    <3>2. LineOf(b, j) < LineOf(b, i) /\ LineOf(b, j) \in Nat
      BY <1>1, <1>2, <3>1, LinesGoOn DEF InItsLine
    <3>3. f[j].lines # 0 /\ b[j] # Nul
      BY <1>1, <1>2, <1>4, <3>1, <3>2
    <3> QED BY <3>3
  <2>4. S \in SUBSET Offsets
    OBVIOUS
  <2>5. Lowest(S) = k
    <3> HIDE DEF S, k
    <3> QED BY <2>2, <2>3, <2>4, LowestIs
  <2> QED BY <1>3, <2>5
<1>6. Columnwise(b, i - ColOf(b, i), ColOf(b, i)) = i
  <2> DEFINE from == i - ColOf(b, i)
  <2>1. from \in Nat /\ from <= i /\ i \in Nat /\ i = from + ColOf(b, i) /\ i < Room
    BY <1>1, <1>2 DEF InItsLine
  <2>2. \A j \in from .. i - 1 : j # from + ColOf(b, i) /\ b[j] \notin {NewLine, Nul}
    BY <1>1, <1>2, <2>1 DEF InItsLine
  <2> HIDE DEF from
  <2>3. Columnwise(b, from, ColOf(b, i)) = i
    BY <1>2, <2>1, <2>2, ColumnwiseIs
  <2> QED BY <2>3 DEF from
<1> QED BY <1>5, <1>6 DEF linecol_to_buffer_offset

-----------------------------------------------------------------------------
(* What the screen shows of a text. *)

NextShown(b, from) == IF b[from] = Nul THEN from ELSE next_line(b, from)

\* The next row begins in the text too.
LEMMA NextIsInTheText ==
  ASSUME NEW b, NEW e, EndsAt(b, e), NEW from \in 0 .. e
  PROVE  NextShown(b, from) \in 0 .. e
<1>1. e \in Nat /\ b[e] = Nul
  BY DEF EndsAt, Offsets
<1>2. RowEnd(b, from) \in from .. e
  BY RowEnds
<1>3. b[RowEnd(b, from)] = NewLine => RowEnd(b, from) # e
  BY <1>1 DEF NewLine, Nul
<1> QED BY <1>1, <1>2, <1>3 DEF NextShown, next_line

\* Rows up to the n-th begin where a function says.
RowsBegin(b, n, f) == f[0] = 0 /\ \A i \in 0 .. n - 1 : f[i + 1] = NextShown(b, f[i])

\* The function that ShownFrom is defined by exists.
LEMMA ShownUpTo ==
  ASSUME NEW b, NEW e, EndsAt(b, e), NEW n \in Nat
  PROVE  \E f \in [0 .. n -> 0 .. e] : RowsBegin(b, n, f) /\ ShownFrom(b, n) = f[n]
<1> DEFINE V == 0 .. e
           g == [m \in 0 .. n - 1 |-> [p \in V |-> NextShown(b, p)]]
           Body(p) == IF b[p] = Nul THEN p ELSE next_line(b, p)
           from[i \in 0 .. n] == IF i = 0 THEN 0 ELSE Body(from[i - 1])
<1>1. 0 \in V
  BY DEF EndsAt, Offsets
<1>2. \A p \in V : NextShown(b, p) \in V
  BY NextIsInTheText
<1>3. \A p : Body(p) = NextShown(b, p)
  BY DEF NextShown
<1> HIDE DEF V, Body
<1>4. IsRule(n, V, 0, g)
  BY <1>1, <1>2 DEF IsRule
<1>5. \E f \in [0 .. n -> V] : f = [i \in 0 .. n |-> IF i = 0 THEN 0 ELSE g[i - 1][f[i - 1]]]
  <2> HIDE DEF g
  <2> QED BY <1>4, RecursiveFunction
<1>6. PICK f \in [0 .. n -> V] : f = [i \in 0 .. n |-> IF i = 0 THEN 0 ELSE g[i - 1][f[i - 1]]]
  BY <1>5
<1>7. ASSUME NEW i \in 0 .. n, i # 0 PROVE g[i - 1][f[i - 1]] = Body(f[i - 1])
  <2>1. i - 1 \in 0 .. n - 1 /\ i - 1 \in 0 .. n
    BY <1>7
  <2>2. f[i - 1] \in V
    BY <2>1
  <2>3. g[i - 1][f[i - 1]] = NextShown(b, f[i - 1])
    BY <2>1, <2>2
  <2> QED BY <1>3, <2>3
<1>8. f = [i \in 0 .. n |-> IF i = 0 THEN 0 ELSE Body(f[i - 1])]
  <2> HIDE DEF g
  <2> QED BY <1>6, <1>7
<1>9. from = [i \in 0 .. n |-> IF i = 0 THEN 0 ELSE Body(from[i - 1])]
  <2> HIDE DEF g
  <2> QED BY <1>8
<1>10. ShownFrom(b, n) = from[n]
  BY DEF ShownFrom, Body
<1> HIDE DEF from, g
<1>11. f[0] = 0 /\ \A i \in 0 .. n - 1 : f[i + 1] = Body(f[i])
  BY <1>8
<1>12. from[0] = 0 /\ \A i \in 0 .. n - 1 : from[i + 1] = Body(from[i])
  BY <1>9
<1>13. \A i \in 0 .. n : f[i] = from[i]
  <2> DEFINE S == {i \in 0 .. n : f[i] = from[i]}
  <2>1. 0 \in S
    BY <1>11, <1>12
  <2>2. \A i \in 0 .. n - 1 : i \in S => i + 1 \in S
    BY <1>11, <1>12
  <2>3. \A i \in 0 .. n : i \in S
    <3> HIDE DEF S
    <3> QED BY <2>1, <2>2, UpTo
  <2> QED BY <2>3
<1>14. f \in [0 .. n -> 0 .. e] /\ \A i \in 0 .. n - 1 : f[i + 1] = NextShown(b, f[i])
  BY <1>3, <1>11 DEF V
<1>15. RowsBegin(b, n, f)
  BY <1>11, <1>14 DEF RowsBegin
<1> QED BY <1>10, <1>13, <1>14, <1>15

\* Rows from one to the next.
LEMMA ShownGoesOn ==
  ASSUME NEW b, NEW e, EndsAt(b, e), NEW n \in Nat
  PROVE  /\ ShownFrom(b, 0) = 0
         /\ ShownFrom(b, n) \in 0 .. e
         /\ ShownFrom(b, n + 1) = NextShown(b, ShownFrom(b, n))
<1>1. PICK z \in [0 .. 0 -> 0 .. e] : RowsBegin(b, 0, z) /\ ShownFrom(b, 0) = z[0]
  BY ShownUpTo
<1>2. PICK f \in [0 .. n -> 0 .. e] : RowsBegin(b, n, f) /\ ShownFrom(b, n) = f[n]
  BY ShownUpTo
<1>3. PICK h \in [0 .. n + 1 -> 0 .. e] : RowsBegin(b, n + 1, h) /\ ShownFrom(b, n + 1) = h[n + 1]
  <2> DEFINE m == n + 1
  <2>1. m \in Nat
    OBVIOUS
  <2> HIDE DEF m
  <2>2. \E h \in [0 .. m -> 0 .. e] : RowsBegin(b, m, h) /\ ShownFrom(b, m) = h[m]
    BY <2>1, ShownUpTo
  <2> QED BY <2>2 DEF m
<1>4. f[n] = h[n]
  <2> DEFINE S == {i \in 0 .. n : f[i] = h[i]}
  <2>1. 0 \in S
    BY <1>2, <1>3 DEF RowsBegin
  <2>2. \A i \in 0 .. n - 1 : i \in S => i + 1 \in S
    BY <1>2, <1>3 DEF RowsBegin
  <2>3. \A i \in 0 .. n : i \in S
    <3> HIDE DEF S
    <3> QED BY <2>1, <2>2, UpTo
  <2> QED BY <2>3
<1>5. h[n + 1] = NextShown(b, h[n])
  BY <1>3 DEF RowsBegin
<1> QED BY <1>1, <1>2, <1>3, <1>4, <1>5 DEF RowsBegin

\* No newline that ends a line just where the screen does.
RegularText(b, e) ==
  \A i \in 0 .. e : ~(b[i] = NewLine /\ i > 0 /\ b[i - 1] # NewLine /\ ColOf(b, i) = 0)

\* The third way of counting agrees with the first, on a regular text: a line is shown
\* from the offset at which it begins.
LEMMA ShownFromItsStart ==
  ASSUME NEW b, NEW e, EndsAt(b, e), RegularText(b, e)
  PROVE  \A i \in 0 .. e : ShownFrom(b, LineOf(b, i)) = i - ColOf(b, i)
<1> DEFINE Right(i) == ShownFrom(b, LineOf(b, i)) = i - ColOf(b, i)
           S == {i \in 0 .. e : Right(i)}
<1>1. /\ e \in Nat /\ b[e] = Nul /\ \A j \in 0 .. e - 1 : b[j] # Nul
      /\ SCREEN_WIDTH \in Nat \ {0}
  BY SizeAssumption DEF EndsAt, Offsets
<1>2. 0 \in S
  BY <1>1, LinesGoOn, ShownGoesOn
<1>3. ASSUME NEW i \in 0 .. e - 1, Right(i) PROVE Right(i + 1)
  <2> DEFINE from == i - ColOf(b, i)
             line == LineOf(b, i)
  <2>1. /\ i \in 0 .. e /\ i + 1 \in 0 .. e /\ line \in Nat /\ ColOf(b, i) \in Nat
        /\ from \in 0 .. i /\ from \in 0 .. e /\ ColOf(b, i) < SCREEN_WIDTH
        /\ \A j \in from .. i - 1 : b[j] # NewLine
    BY <1>1, LinesGoOn, AllInTheirLines DEF InItsLine
  <2>2. b[from] # Nul /\ b[i] # Nul
    BY <1>1, <2>1
  <2>3. CASE ~Breaks(b, i)
    BY <1>1, <1>3, <2>1, <2>3, LinesGoOn
  <2>4. CASE Breaks(b, i)
    <3>1. LineOf(b, i + 1) = line + 1 /\ ColOf(b, i + 1) = 0
      BY <2>4, LinesGoOn
    <3>2. ShownFrom(b, line + 1) = next_line(b, from)
      <4> HIDE DEF line
      <4>1. ShownFrom(b, line + 1) = NextShown(b, ShownFrom(b, line))
        BY <2>1, ShownGoesOn
      <4> QED BY <1>3, <2>2, <4>1 DEF NextShown, line
    <3>3. /\ RowEnd(b, from) \in from .. e
          /\ RowEnd(b, from) <= from + SCREEN_WIDTH
          /\ RowEnd(b, from) = from + SCREEN_WIDTH \/ b[RowEnd(b, from)] \in {NewLine, Nul}
          /\ \A j \in from .. RowEnd(b, from) - 1 : b[j] \notin {NewLine, Nul}
      <4> HIDE DEF from
      <4> QED BY <2>1, RowEnds
    <3>4. RowEnd(b, from) >= i
      BY <1>1, <2>1, <3>3
    <3>5. CASE b[i] = NewLine
      <4>1. RowEnd(b, from) = i
        BY <1>1, <2>1, <3>3, <3>4, <3>5
      <4>2. next_line(b, from) = i + 1
        BY <3>5, <4>1 DEF next_line
      <4> QED BY <3>1, <3>2, <4>2
    <3>6. CASE b[i] # NewLine
      <4>1. ColOf(b, i) + 1 = SCREEN_WIDTH
        BY <1>1, <2>1, <2>4, <3>6 DEF Breaks
      <4>2. from + SCREEN_WIDTH = i + 1
        BY <2>1, <4>1
      <4>3. RowEnd(b, from) = i + 1
        BY <1>1, <2>1, <2>2, <3>3, <3>4, <3>6, <4>2
      <4>4. b[i + 1] # NewLine
        BY <2>1, <3>1, <3>6 DEF RegularText
      <4>5. next_line(b, from) = i + 1
        BY <4>3, <4>4 DEF next_line
      <4> QED BY <3>1, <3>2, <4>5
    <3> QED BY <3>5, <3>6
  <2> QED BY <2>3, <2>4
<1>4. \A i \in 0 .. e - 1 : i \in S => i + 1 \in S
  BY <1>1, <1>3
<1>5. \A i \in 0 .. e : i \in S
  <2> HIDE DEF S
  <2> QED BY <1>1, <1>2, <1>4, UpTo
<1> QED BY <1>5

Shapes(S) == [Rows -> [Columns -> S]]

\* Only characters of the text and spaces are shown.
LEMMA ShowsCharacters ==
  ASSUME NEW b, NEW e, EndsAt(b, e), NEW first \in Nat
  PROVE  show_buffer_at_line(b, first) \in Shapes(Chars \cup {Space})
<1> DEFINE From(r) == ShownFrom(b, first + r - 1)
           Cell(r, c) == IF From(r) + c < RowEnd(b, From(r)) THEN b[From(r) + c] ELSE Space
<1>1. ASSUME NEW r \in Rows, NEW c \in Columns PROVE Cell(r, c) \in Chars \cup {Space}
  <2>1. From(r) \in 0 .. e
    <3> DEFINE line == first + r - 1
    <3>1. line \in Nat
      BY DEF Rows
    <3> HIDE DEF line
    <3>2. ShownFrom(b, line) \in 0 .. e
      BY <3>1, ShownGoesOn
    <3> QED BY <3>2 DEF line
  <2> DEFINE from == From(r)
             end == RowEnd(b, from)
  <2>2. from \in 0 .. e
    BY <2>1
  <2> HIDE DEF from
  <2>3. end \in from .. e /\ \A j \in from .. end - 1 : b[j] \notin {NewLine, Nul}
    BY <2>2, RowEnds
  <2>4. ASSUME from + c < end PROVE b[from + c] \in Chars
    <3>1. e \in Offsets /\ b \in [Offsets -> Bytes]
      BY DEF EndsAt
    <3>2. c \in Nat /\ Room \in Nat
      BY SizeAssumption DEF Columns
    <3>3. from + c \in from .. end - 1 /\ from + c \in Offsets
      BY <2>2, <2>3, <2>4, <3>1, <3>2 DEF Offsets
    <3> QED BY <2>3, <3>1, <3>3 DEF Bytes
  <2> QED BY <2>4 DEF from
<1>2. show_buffer_at_line(b, first) = [r \in Rows |-> [c \in Columns |-> Cell(r, c)]]
  BY DEF show_buffer_at_line
<1> HIDE DEF Cell
<1> QED BY <1>1, <1>2 DEF Shapes

\* The character at an offset is shown in the row and the column that
\* buffer_offset_to_linecol says.
LEMMA ShownInItsPlace ==
  ASSUME NEW b, NEW e, EndsAt(b, e), RegularText(b, e), NEW i \in 0 .. e,
         NEW first \in Nat, NEW r \in Rows, first + r - 1 = LineOf(b, i)
  PROVE  show_buffer_at_line(b, first)[r][ColOf(b, i)] =
           IF b[i] \in {NewLine, Nul} THEN Space ELSE b[i]
<1> DEFINE from == ShownFrom(b, LineOf(b, i))
           col == ColOf(b, i)
<1>1. /\ e \in Nat /\ SCREEN_WIDTH \in Nat \ {0} /\ col \in Nat /\ InItsLine(b, i)
      /\ \A j \in 0 .. e - 1 : b[j] # Nul
  BY LinesGoOn, AllInTheirLines, SizeAssumption DEF EndsAt, Offsets
<1>2. col \in Columns
  BY <1>1 DEF InItsLine, Columns
<1>3. show_buffer_at_line(b, first)[r][col] =
        IF from + col < RowEnd(b, from) THEN b[from + col] ELSE Space
  BY <1>2 DEF show_buffer_at_line
<1>4. from = i - col
  BY ShownFromItsStart
<1>5. /\ from \in 0 .. e /\ from + col = i
      /\ \A j \in from .. i - 1 : b[j] \notin {NewLine, Nul}
  BY <1>1, <1>4 DEF InItsLine
<1> HIDE DEF from
<1>6. /\ RowEnd(b, from) \in from .. e
      /\ RowEnd(b, from) = from + SCREEN_WIDTH \/ b[RowEnd(b, from)] \in {NewLine, Nul}
      /\ \A j \in from .. RowEnd(b, from) - 1 : b[j] \notin {NewLine, Nul}
  BY <1>5, RowEnds
<1>7. i < from + SCREEN_WIDTH
  BY <1>1, <1>5 DEF InItsLine
<1>8. RowEnd(b, from) >= i
  BY <1>5, <1>6, <1>7, <1>1
<1>9. CASE b[i] \in {NewLine, Nul}
  <2>1. RowEnd(b, from) <= i
    BY <1>1, <1>5, <1>6, <1>9
  <2>2. ~(from + col < RowEnd(b, from))
    BY <1>1, <1>5, <1>6, <2>1
  <2> QED BY <1>3, <1>9, <2>2
<1>10. CASE b[i] \notin {NewLine, Nul}
  <2>1. RowEnd(b, from) # i
    BY <1>5, <1>6, <1>7, <1>10, <1>1
  <2>2. from + col < RowEnd(b, from)
    BY <1>1, <1>5, <1>6, <1>8, <2>1
  <2> QED BY <1>3, <1>5, <1>10, <2>2
<1> QED BY <1>9, <1>10

\* What editor_putchar leaves on a screen that is like its copy, or that nothing has been
\* written to.
LEMMA PutsWhatIsShown ==
  ASSUME NEW shown \in Shapes(Chars \cup {Space}), editor_putchar(shown),
         screen = screen_buff \/ screen_buff = [r \in Rows |-> [c \in Columns |-> Nul]]
  PROVE  screen_buff' = shown /\ screen' = shown
<1>1. screen_buff' = shown
      /\ screen' = [r \in Rows |->
                      [c \in Columns |-> IF shown[r][c] # screen_buff[r][c] THEN shown[r][c] ELSE screen[r][c]]]
  BY DEF editor_putchar
<1>2. ASSUME NEW r \in Rows, NEW c \in Columns
      PROVE  (IF shown[r][c] # screen_buff[r][c] THEN shown[r][c] ELSE screen[r][c]) = shown[r][c]
  <2>1. CASE screen = screen_buff
    BY <2>1
  <2>2. CASE screen_buff = [q \in Rows |-> [d \in Columns |-> Nul]]
    <3>1. shown[r][c] # Nul
      BY CharAssumption DEF Shapes, Nul, Space
    <3>2. screen_buff[r][c] = Nul
      BY <2>2
    <3> QED BY <3>1, <3>2
  <2> QED BY <2>1, <2>2
<1>3. shown = [r \in Rows |-> [c \in Columns |-> shown[r][c]]]
  BY DEF Shapes
<1>4. screen' = [r \in Rows |-> [c \in Columns |-> shown[r][c]]]
  BY <1>1, <1>2
<1> QED BY <1>1, <1>3, <1>4

-----------------------------------------------------------------------------
(* The invariant of the screen. *)

\* Before anything is shown the editor's copy of the screen is empty, and the text begins
\* in its first row.
Blank ==
  state = "start" =>
    current_line = 0 /\ screen_buff = [r \in Rows |-> [c \in Columns |-> Nul]]

\* The screen is like the editor's copy of it, which shows the text from the current line.
ShowsTheText ==
  Running => screen = screen_buff /\ screen_buff = show_buffer_at_line(buff, current_line)

\* The cursor is shown where its offset is, and the current line is chosen so that this is
\* in the screen.
CursorShown ==
  Running => /\ cursor = [col |-> Place.col, row |-> Place.line - current_line + 1]
             /\ cursor.row \in Rows

ScreenInv ==
  /\ state \in {"start", "running", "ended", "crashed"}
  /\ buff_size \in 0 .. Room /\ current_line \in 0 .. Room
  /\ screen_buff \in Shapes(Chars \cup {Space, Nul}) /\ screen \in Shapes(Chars \cup {Space})
  /\ Blank /\ ShowsTheText /\ CursorShown

\* The text that the invariant of the text speaks of.
LEMMA TextEnds ==
  ASSUME TextInv, Running, terminated
  PROVE  /\ EndsAt(buff, buff_size - 1)
         /\ buff_size \in 1 .. Room - 1 /\ buff_cursor_offset \in 0 .. buff_size - 1
BY SizeAssumption DEF TextInv, CursorInText, BufferFinishes, EndsAt, Offsets, End

\* Memory has a first 0, which is where a text without its own seems to end.
LEMMA MemoryEnds ==
  ASSUME NEW b \in [Offsets -> Bytes], b[Room - 1] = Nul
  PROVE  \E e : EndsAt(b, e)
<1> DEFINE S == {i \in Offsets : b[i] = Nul}
<1>1. Room - 1 \in Nat /\ S \in SUBSET (0 .. Room - 1) /\ S # {}
  <2>1. Room - 1 \in S /\ Room - 1 \in Nat
    BY SizeAssumption DEF Offsets
  <2> QED BY <2>1 DEF Offsets
<1>2. \E e \in S : \A j \in S : e <= j
  <2> HIDE DEF S
  <2> QED BY <1>1, LeastExists
<1>3. PICK e \in S : \A j \in S : e <= j
  BY <1>2
<1>4. ASSUME NEW i \in 0 .. e - 1 PROVE b[i] # Nul
  <2>1. i \in Offsets /\ i < e /\ e \in Int
    BY <1>3, SizeAssumption DEF Offsets
  <2> QED BY <1>3, <2>1
<1> QED BY <1>3, <1>4 DEF EndsAt

\* An offset behind that 0 is shown there.
LEMMA PlacesStop ==
  ASSUME NEW b, NEW e, EndsAt(b, e), NEW offset \in Offsets
  PROVE  \E i \in 0 .. e : /\ i <= offset
                           /\ LineOf(b, offset) = LineOf(b, i) /\ ColOf(b, offset) = ColOf(b, i)
<1>1. CASE offset <= e
  BY <1>1 DEF EndsAt, Offsets
<1>2. CASE offset > e
  <2>1. buffer_offset_to_linecol(b, offset) = buffer_offset_to_linecol(b, e)
    BY <1>2, Places
  <2> QED BY <1>2, <2>1 DEF EndsAt, Offsets, LineOf, ColOf
<1> QED BY <1>1, <1>2 DEF EndsAt, Offsets

\* Wherever the cursor is in the text, what every key ends with leaves it in the screen,
\* and the screen showing the text.
LEMMA DisplayKeeps ==
  ASSUME ScreenInv, Running, NEW b, NEW e, EndsAt(b, e), NEW offset \in Offsets, Display(b, offset)
  PROVE  /\ buff_cursor_offset' = offset /\ current_line' \in 0 .. Room
         /\ screen_buff' = show_buffer_at_line(b, current_line')
         /\ screen' = screen_buff' /\ screen_buff' \in Shapes(Chars \cup {Space})
         /\ cursor' = [col |-> ColOf(b, offset), row |-> LineOf(b, offset) - current_line' + 1]
         /\ cursor'.row \in Rows
<1> DEFINE line == LineOf(b, offset)
           first == FirstLine(line)
<1>1. /\ buff_cursor_offset' = offset /\ current_line' = first
      /\ editor_putchar(show_buffer_at_line(b, first))
      /\ cursor' = [col |-> ColOf(b, offset), row |-> line - first + 1]
  BY DEF Display, LineOf, ColOf
<1>2. /\ line \in Nat /\ line <= offset /\ offset \in Nat /\ offset < Room /\ Room \in Nat
      /\ current_line \in 0 .. Room /\ SCREEN_HEIGHT \in Nat /\ SCREEN_HEIGHT > 2
  <2>1. PICK i \in 0 .. e : i <= offset /\ line = LineOf(b, i)
    BY PlacesStop
  <2>2. LineOf(b, i) \in Nat /\ LineOf(b, i) <= i
    BY LinesGoOn, AllInTheirLines DEF InItsLine
  <2> HIDE DEF line
  <2> QED BY <2>1, <2>2, SizeAssumption DEF EndsAt, Offsets, ScreenInv
<1> HIDE DEF line
<1>3. first \in 0 .. Room /\ line - first + 1 \in Rows
  BY <1>2 DEF FirstLine, Rows
<1> HIDE DEF first
<1>4. show_buffer_at_line(b, first) \in Shapes(Chars \cup {Space})
  <2>1. first \in Nat
    BY <1>2, <1>3
  <2> QED BY <2>1, ShowsCharacters
<1>5. screen = screen_buff
  BY DEF ScreenInv, ShowsTheText
<1>6. screen_buff' = show_buffer_at_line(b, first) /\ screen' = show_buffer_at_line(b, first)
  BY <1>1, <1>4, <1>5, PutsWhatIsShown
<1> QED BY <1>1, <1>3, <1>4, <1>6 DEF line

\* Every key but Esc ends so.
LEMMA KeysDisplay ==
  ASSUME \/ KEY_UP \/ KEY_DOWN \/ KEY_LEFT \/ KEY_RIGHT \/ KEY_HOME \/ KEY_END \/ KEY_PG_DN \/ KEY_PG_UP
         \/ KEY_BACKSPACE \/ KEY_DEL
         \/ \E k \in Chars \cup {NewLine} : Type(k)
         \/ \E outcome \in {"saved", "error", "code"} : KEY_F1(outcome)
  PROVE  Crash \/ (Running /\ state' = "running" /\ \E offset : Display(buff', offset))
<1> DEFINE Goal == Crash \/ (Running /\ state' = "running" /\ \E offset : Display(buff', offset))
<1>1. ASSUME NEW offset, MoveTo(offset) PROVE Goal
  <2>1. Running /\ state' = "running" /\ buff = buff' /\ Display(buff', offset)
    BY <1>1 DEF MoveTo, Running, text
  <2> QED BY <2>1
<1>2. ASSUME NEW b, NEW size, NEW offset, Edit(b, size, offset), marked' = TRUE PROVE Goal
  <2>1. Running /\ state' = "running" /\ b = buff' /\ Display(buff', offset)
    BY <1>2 DEF Edit, Running
  <2> QED BY <1>2, <2>1
<1> SUFFICES Goal
  OBVIOUS
<1> HIDE DEF Goal
<1>3. CASE \/ KEY_UP \/ KEY_DOWN \/ KEY_LEFT \/ KEY_RIGHT \/ KEY_HOME \/ KEY_END
           \/ KEY_PG_DN \/ KEY_PG_UP
  <2>1. CASE KEY_UP
    BY <1>1, <2>1 DEF KEY_UP, MoveToPlace
  <2>2. CASE KEY_DOWN
    BY <1>1, <2>2 DEF KEY_DOWN, MoveToPlace
  <2>3. CASE KEY_LEFT
    BY <1>1, <2>3 DEF KEY_LEFT, MoveToPlace
  <2>4. CASE KEY_RIGHT
    BY <1>1, <2>4 DEF KEY_RIGHT, MoveToPlace
  <2>5. CASE KEY_HOME
    BY <1>1, <2>5 DEF KEY_HOME, MoveToPlace
  <2>6. CASE KEY_END
    BY <1>1, <2>6 DEF KEY_END, MoveToPlace
  <2>7. CASE KEY_PG_DN
    BY <1>1, <2>7 DEF KEY_PG_DN, MoveToPlace
  <2>8. CASE KEY_PG_UP
    BY <1>1, <2>8 DEF KEY_PG_UP, MoveToPlace
  <2> QED BY <1>3, <2>1, <2>2, <2>3, <2>4, <2>5, <2>6, <2>7, <2>8
<1>4. CASE KEY_BACKSPACE \/ KEY_DEL
  BY <1>2, <1>4 DEF KEY_BACKSPACE, KEY_DEL, Goal
<1>5. ASSUME NEW k \in Chars \cup {NewLine}, Type(k) PROVE Goal
  BY <1>2, <1>5 DEF Type, Goal
<1>6. ASSUME NEW outcome, KEY_F1(outcome) PROVE Goal
  <2>1. Running /\ state' = "running" /\ buff = buff' /\ Display(buff', buff_cursor_offset)
    BY <1>6 DEF KEY_F1, Running, text
  <2> QED BY <2>1 DEF Goal
<1>7. Goal
  BY <1>3, <1>4, <1>5, <1>6
<1> QED BY <1>7

\* At the start nothing is shown.
LEMMA ScreenInvInit == Init => ScreenInv
<1> SUFFICES ASSUME Init PROVE ScreenInv
  OBVIOUS
<1>1. screen_buff \in Shapes(Chars \cup {Space, Nul}) /\ screen \in Shapes(Chars \cup {Space})
  BY DEF Init, Shapes, Cleared
<1>2. Room \in Nat
  BY SizeAssumption
<1> QED BY <1>1, <1>2 DEF Init, ScreenInv, Blank, ShowsTheText, CursorShown, Running

\* What the invariant of the text says of the sizes after a step.
LEMMA EndHolds ==
  ASSUME TextInv', Running'
  PROVE  buff_size' \in 0 .. Room - 1 /\ End' \in Offsets /\ buff_cursor_offset' \in 0 .. End'
<1>1. CASE terminated'
  BY <1>1, SizeAssumption DEF TextInv, CursorInText, End, Offsets
<1>2. CASE ~terminated'
  BY <1>2, SizeAssumption DEF TextInv, CursorInText, End, Offsets
<1> QED BY <1>1, <1>2

\* Every step keeps what is shown and what the text is together.
LEMMA ScreenStep ==
  ASSUME TextInv, ScreenInv, [Next]_vars
  PROVE  ScreenInv'
<1>0. TextInv'
  BY TextStep
<1>1. CASE \/ KEY_UP \/ KEY_DOWN \/ KEY_LEFT \/ KEY_RIGHT \/ KEY_HOME \/ KEY_END
           \/ KEY_PG_DN \/ KEY_PG_UP \/ KEY_BACKSPACE \/ KEY_DEL
           \/ (\E k \in Chars \cup {NewLine} : Type(k))
           \/ (\E outcome \in {"saved", "error", "code"} : KEY_F1(outcome))
  <2>0. CASE Crash
    BY <2>0 DEF Crash, ScreenInv, Blank, ShowsTheText, CursorShown, Running, text
  <2> SUFFICES ASSUME ~Crash PROVE ScreenInv'
    BY <2>0
  <2>1. Running /\ state' = "running" /\ \E offset : Display(buff', offset)
    BY <1>1, KeysDisplay
  <2>2. PICK b, offset : b = buff' /\ Display(b, offset)
    BY <2>1
  <2>4. buff_cursor_offset' = offset
    BY <2>2 DEF Display
  <2>5. Running'
    BY <2>1 DEF Running
  <2>6. /\ b \in [Offsets -> Bytes] /\ b[Room - 1] = Nul
        /\ offset \in Offsets /\ buff_size' \in 0 .. Room
    <3>1. /\ buff_size' \in 0 .. Room - 1 /\ buff_cursor_offset' \in 0 .. End'
          /\ End' \in Offsets
      BY <1>0, <2>5, EndHolds
    <3> QED BY <1>0, <2>2, <2>4, <3>1, SizeAssumption DEF TextInv, Offsets
  <2>7. PICK e : EndsAt(b, e)
    BY <2>6, MemoryEnds
  <2>8. /\ current_line' \in 0 .. Room
        /\ screen_buff' = show_buffer_at_line(b, current_line')
        /\ screen' = screen_buff' /\ screen_buff' \in Shapes(Chars \cup {Space})
        /\ cursor' = [col |-> ColOf(b, offset), row |-> LineOf(b, offset) - current_line' + 1]
        /\ cursor'.row \in Rows
    BY <2>1, <2>2, <2>6, <2>7, DisplayKeeps
  <2>9. screen_buff' \in Shapes(Chars \cup {Space, Nul}) /\ screen' \in Shapes(Chars \cup {Space})
    BY <2>8 DEF Shapes
  <2>10. ShowsTheText'
    BY <2>2, <2>8 DEF ShowsTheText
  <2>11. CursorShown'
    BY <2>2, <2>4, <2>8 DEF CursorShown, Place, ColOf, LineOf
  <2> QED BY <2>1, <2>6, <2>8, <2>9, <2>10, <2>11 DEF ScreenInv, Blank
<1>2. CASE Started
  <2>1. /\ state = "start" /\ state' = "running" /\ current_line' = current_line
        /\ buff_cursor_offset' = buff_cursor_offset
        /\ editor_putchar(show_buffer_at_line(buff', 0)) /\ cursor' = [col |-> 0, row |-> 1]
    BY <1>2 DEF Started
  <2>2. /\ buff_cursor_offset = 0 /\ current_line = 0
        /\ screen_buff = [r \in Rows |-> [c \in Columns |-> Nul]]
    BY <2>1 DEF TextInv, Fresh, ScreenInv, Blank
  <2>3. PICK b : b = buff'
    OBVIOUS
  <2>4. Running'
    BY <2>1 DEF Running
  <2>5. b \in [Offsets -> Bytes] /\ b[Room - 1] = Nul /\ buff_size' \in 0 .. Room
    <3>1. buff_size' \in 0 .. Room - 1
      BY <1>0, <2>4, EndHolds
    <3> QED BY <1>0, <2>3, <3>1, SizeAssumption DEF TextInv, Offsets
  <2>6. PICK e : EndsAt(b, e)
    BY <2>5, MemoryEnds
  <2>7. show_buffer_at_line(b, 0) \in Shapes(Chars \cup {Space})
    BY <2>6, ShowsCharacters
  <2>8. screen_buff' = show_buffer_at_line(b, 0) /\ screen' = show_buffer_at_line(b, 0)
    BY <2>1, <2>2, <2>3, <2>7, PutsWhatIsShown
  <2>9. screen_buff' \in Shapes(Chars \cup {Space, Nul}) /\ screen' \in Shapes(Chars \cup {Space})
    BY <2>7, <2>8 DEF Shapes
  <2>10. ShowsTheText'
    BY <2>1, <2>2, <2>3, <2>8 DEF ShowsTheText
  <2>11. CursorShown'
    <3>1. buffer_offset_to_linecol(b, 0) = [line |-> 0, col |-> 0]
      BY <2>6, Places
    <3>2. 1 \in Rows
      BY SizeAssumption DEF Rows
    <3> QED BY <2>1, <2>2, <2>3, <3>1, <3>2 DEF CursorShown, Place
  <2>12. current_line' \in 0 .. Room
    BY <2>1, <2>2, SizeAssumption
  <2> QED BY <2>1, <2>5, <2>9, <2>10, <2>11, <2>12 DEF ScreenInv, Blank
<1>3. CASE Refused \/ KEY_ESC
  <2>1. /\ state' = "ended" /\ UNCHANGED <<text, current_line, screen_buff>>
        /\ screen' = screen \/ screen' = Cleared
    BY <1>3 DEF Refused, KEY_ESC
  <2>2. Cleared \in Shapes(Chars \cup {Space})
    BY DEF Cleared, Shapes
  <2> QED BY <2>1, <2>2 DEF ScreenInv, Blank, ShowsTheText, CursorShown, Running, text
<1>4. CASE UNCHANGED vars
  BY <1>4 DEF ScreenInv, Blank, ShowsTheText, CursorShown, Running, Place, vars, text
<1> QED BY <1>1, <1>2, <1>3, <1>4 DEF Next

\* So the screen shows the text in every state.
LEMMA ScreenHolds == Spec => [](TextInv /\ ScreenInv)
<1>1. TextInv /\ ScreenInv /\ [Next]_vars => TextInv' /\ ScreenInv'
  BY TextStep, ScreenStep
<1> QED BY <1>1, TextInvInit, ScreenInvInit, PTL DEF Spec

\* The title shows a * or it does not.
Marking == marked \in BOOLEAN

\* The keys that save decide which, and the others that change the text set it.
LEMMA MarkHolds == Spec => []Marking
<1>1. Init => Marking
  BY DEF Init, Marking
<1>2. Marking /\ [Next]_vars => Marking'
  <2> SUFFICES ASSUME marked \in BOOLEAN, [Next]_vars PROVE marked' \in BOOLEAN
    BY DEF Marking
  <2>1. CASE marked' = marked
    BY <2>1
  <2>2. CASE marked' = TRUE
    BY <2>2
  <2>3. CASE \E outcome \in {"saved", "error", "code"} : KEY_F1(outcome)
    <3>1. PICK outcome \in {"saved", "error", "code"} : KEY_F1(outcome)
      BY <2>3
    <3>2. marked' = (outcome = "error")
      BY <3>1 DEF KEY_F1
    <3> QED BY <3>2
  <2>4. CASE \/ KEY_UP \/ KEY_DOWN \/ KEY_LEFT \/ KEY_RIGHT \/ KEY_HOME \/ KEY_END
             \/ KEY_PG_DN \/ KEY_PG_UP
    BY <2>1, <2>4
       DEF KEY_UP, KEY_DOWN, KEY_LEFT, KEY_RIGHT, KEY_HOME, KEY_END, KEY_PG_DN, KEY_PG_UP,
           MoveToPlace, MoveTo
  <2>5. CASE KEY_BACKSPACE \/ KEY_DEL
    BY <2>1, <2>2, <2>5 DEF KEY_BACKSPACE, KEY_DEL, Crash
  <2>6. CASE \E k \in Chars \cup {NewLine} : Type(k)
    BY <2>1, <2>2, <2>6 DEF Type, Crash
  <2>7. CASE Refused \/ Started \/ KEY_ESC \/ UNCHANGED vars
    BY <2>1, <2>7 DEF Refused, Started, KEY_ESC, vars
  <2> QED BY <2>3, <2>4, <2>5, <2>6, <2>7 DEF Next
<1> QED BY <1>1, <1>2, PTL DEF Spec

-----------------------------------------------------------------------------
(* The theorems. *)

\* Whatever keys move it and whatever is typed and deleted, the cursor's offset is in
\* the text, if that had its 0 when it was opened, and in any case, while the text is shorter
\* than MaxSize, before the 0 that memory has behind what edit.c:173 allocates.
THEOREM CursorStays == Spec => []CursorInText
<1>1. TextInv => CursorInText
  BY DEF TextInv
<1> QED BY <1>1, TextHolds, PTL

\* A text that finishes with a 0 when it is opened, whatever memory malloc gave, does so
\* after any keys, has no other 0, and no key writes outside of the buffer.
THEOREM TextFinishes == Spec => []BufferFinishes
<1>1. TextInv => BufferFinishes
  BY DEF TextInv
<1> QED BY <1>1, TextHolds, PTL

\* A text without the * in the title is what is on the disk, if that is no floppy, with its
\* 0 or without it.
THEOREM UnsavedStaysMarked == Spec => []UnsavedIsMarked
<1>1. TextInv => UnsavedIsMarked
  BY DEF TextInv
<1> QED BY <1>1, TextHolds, PTL

\* A key changes one character of a text that has its 0, at the cursor.
THEOREM KeysChangeOneChar == Spec => OneCharAtATime
<1>1. TextInv /\ [Next]_vars =>
        [Running /\ terminated /\ Text' # Text =>
           \/ Text = Without(Text', buff_cursor_offset + 1)
           \/ Text' = Without(Text, buff_cursor_offset' + 1)]_vars
  BY TextStep DEF OneChar
<1> QED BY <1>1, TextHolds, PTL DEF Spec, OneCharAtATime

\* The buffer, the sizes and the screen keep their types, and while the editor runs its
\* cursor is in the text, in a column and in a row of the screen.
THEOREM EditorTypes == Spec => []TypeOK
<1>1. TextInv /\ ScreenInv /\ Marking => TypeOK
  <2> SUFFICES ASSUME TextInv, ScreenInv, marked \in BOOLEAN PROVE TypeOK
    BY DEF Marking
  <2>1. /\ state \in {"start", "running", "ended", "crashed"}
        /\ buff_size \in 0 .. Room /\ current_line \in 0 .. Room
        /\ screen_buff \in [Rows -> [Columns -> Chars \cup {Space, Nul}]]
        /\ screen \in [Rows -> [Columns -> Chars \cup {Space}]]
    BY DEF ScreenInv, Shapes
  <2>2. /\ buff \in [0 .. Room - 1 -> Chars \cup {NewLine, Nul}]
        /\ floppy \in BOOLEAN /\ terminated \in BOOLEAN
    BY DEF TextInv, Offsets, Bytes
  <2>3. ASSUME Running, terminated
        PROVE  /\ buff_cursor_offset \in 0 .. buff_size - 1
               /\ cursor.col \in Columns /\ cursor.row \in Rows
    <3>1. EndsAt(buff, buff_size - 1) /\ buff_cursor_offset \in 0 .. buff_size - 1
      BY <2>3, TextEnds
    <3>2. /\ ColOf(buff, buff_cursor_offset) \in Nat
          /\ ColOf(buff, buff_cursor_offset) < SCREEN_WIDTH
      BY <3>1, LinesGoOn, AllInTheirLines DEF InItsLine
    <3>3. cursor.col = ColOf(buff, buff_cursor_offset) /\ cursor.row \in Rows
      BY <2>3 DEF ScreenInv, CursorShown, Place, ColOf
    <3> QED BY <3>1, <3>2, <3>3, SizeAssumption DEF Columns
  <2> QED BY <2>1, <2>2, <2>3 DEF TypeOK
<1> QED BY <1>1, ScreenHolds, MarkHolds, PTL

\* The cursor is shown on the character at its offset, in any regular text.
THEOREM CursorIsOnItsChar == Spec => []CursorOnItsChar
<1>1. TextInv /\ ScreenInv => CursorOnItsChar
  <2> SUFFICES ASSUME TextInv, ScreenInv, Running, terminated, Regular
               PROVE  screen[cursor.row][cursor.col] =
                        IF buff[buff_cursor_offset] \in {NewLine, Nul} THEN Space
                        ELSE buff[buff_cursor_offset]
    BY DEF CursorOnItsChar
  <2>1. EndsAt(buff, buff_size - 1) /\ buff_cursor_offset \in 0 .. buff_size - 1
    BY TextEnds
  <2>2. RegularText(buff, buff_size - 1)
    BY DEF Regular, EndsAtTheEdge, RegularText, ColOf
  <2>3. /\ cursor.col = ColOf(buff, buff_cursor_offset)
        /\ cursor.row = LineOf(buff, buff_cursor_offset) - current_line + 1
        /\ cursor.row \in Rows /\ current_line \in Nat
        /\ screen = show_buffer_at_line(buff, current_line)
    BY SizeAssumption DEF ScreenInv, CursorShown, ShowsTheText, Place, ColOf, LineOf
  <2>4. LineOf(buff, buff_cursor_offset) \in Nat
    BY <2>1, LinesGoOn
  <2>5. current_line + cursor.row - 1 = LineOf(buff, buff_cursor_offset)
    BY <2>3, <2>4
  <2> QED BY <2>1, <2>2, <2>3, <2>5, ShownInItsPlace
<1> QED BY <1>1, ScreenHolds, PTL

\* linecol_to_buffer_offset is the inverse of buffer_offset_to_linecol on any text whose
\* first line fits in the screen.
THEOREM PlacesAlwaysAgree == Spec => []PlacesAgree
<1>1. TextInv => PlacesAgree
  <2> SUFFICES ASSUME TextInv, Running, terminated, FirstLineFits, NEW i \in 0 .. buff_size - 1
               PROVE  linecol_to_buffer_offset(buff, ColOf(buff, i), LineOf(buff, i)) = i
    BY DEF PlacesAgree, ColOf, LineOf
  <2>1. EndsAt(buff, buff_size - 1)
    BY TextEnds
  <2>2. Fits(buff)
    BY DEF FirstLineFits, Fits
  <2> QED BY <2>1, <2>2, ThereAndBack
<1> QED BY <1>1, TextHolds, PTL
=============================================================================
