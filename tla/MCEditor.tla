------------------------------ MODULE MCEditor ------------------------------
\* Two columns, two rows of text, and files of up to five characters, so that lines
\* are narrower than the screen, as wide and wider, and the text is longer than it; with
\* and without a 0 at their end, in memory that is clear and in memory that was used.
EXTENDS Editor
MCFiles == {NoFile, Directory, <<>>, <<"a">>, <<"a", "0">>, <<"a", "a", "0">>, <<"a", "\n", "a">>, <<"a", "a", "a", "a", "a">>}
Clear == {[i \in 0 .. Room - 1 |-> Nul]}
UsedOrClear == Clear \cup {[i \in 0 .. Room - 1 |-> IF i = Room - 1 THEN Nul ELSE "a"]}

\* malloc's memory with something in it, and short files of which one ends with a 0.
FewFiles == {NoFile, <<>>, <<"a">>, <<"a", "0">>}
Used == {[i \in 0 .. Room - 1 |-> IF i = Room - 1 THEN Nul ELSE k] : k \in {"a", "\n"}}
=============================================================================
