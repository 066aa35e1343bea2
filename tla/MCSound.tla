------------------------------- MODULE MCSound -------------------------------
\* Halves of two bytes; files of none, of less than a half and up to four halves and one
\* byte, among them those that are miscounted (16 bits and 1 or 5 bytes).
EXTENDS Sound
MCFiles == [bits : {8}, bytes : {0, 1, 4, 5, 6, 8}] \cup [bits : {16}, bytes : {1, 4, 5, 6, 7, 8, 10}]
=============================================================================
