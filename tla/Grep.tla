--------------------------------- MODULE Grep ---------------------------------
(***************************************************************************)
(* do_one_file of the grep program: it reads a file piecewise into a       *)
(* buffer, searches the lines in it, and carries the line that the end of  *)
(* the buffer cuts off to the front before the next read.  main calls it   *)
(* for every entry of the directory, so that a file may be a program:      *)
(* it holds any bytes, NULs among them.                                    *)
(***************************************************************************)
EXTENDS Integers, Sequences

CONSTANTS
    BUFSIZE,
    MaxFile,         \* bound on the length of the file
    MaxPattern       \* bound on the length of the argument of grep

NEWLINE == "newline"
NULBYTE == "nul"
Chars == {"a", "b", NEWLINE, NULBYTE}

ASSUME GrepAssumption ==
    /\ BUFSIZE \in Nat \ {0} /\ MaxFile \in Nat
    /\ MaxPattern \in Nat \ {0}

VARIABLES
    s,               \* the argument
    file,            \* the bytes of the file
    place,           \* how far it has been read
    data,            \* uint8_t data[BUFSIZE+1]
    stale,           \* history: what the byte data[BUFSIZE] was at first
    v,               \* the locals last, line_start, line_end and cnt
    at,              \* where do_one_file is
    printed          \* the lines that it has written

grepVars == <<s, file, place, data, stale, v, at, printed>>

\* The buffer is on the stack and not initialised: newlines or other bytes.
GrepInit ==
    /\ s \in UNION {[1 .. n -> Chars \ {NEWLINE, NULBYTE}] : n \in 1 .. MaxPattern}
    /\ file \in UNION {[1 .. n -> Chars] : n \in 0 .. MaxFile}
    /\ place = 0
    /\ stale \in {NEWLINE, NULBYTE}
    /\ \E other \in {NEWLINE, NULBYTE} :
            data = [i \in 0 .. BUFSIZE |-> IF i = BUFSIZE THEN stale ELSE other]
    /\ v = [last |-> 0, line_start |-> 0, line_end |-> 0, cnt |-> 0]
    /\ at = "open"
    /\ printed = <<>>

-----------------------------------------------------------------------------
\* The bytes from a place of the buffer to line_end, where a NUL is written first.
StringAt(start) == [i \in 1 .. v.line_end - start |-> data[start + i - 1]]

\* What strcpy and fdputs take of some bytes: those in front of the first NUL.
CString(bytes) ==
    SubSeq(bytes, 1, CHOOSE n \in 0 .. Len(bytes) :
                        /\ \A i \in 1 .. n : bytes[i] # NULBYTE
                        /\ n = Len(bytes) \/ bytes[n + 1] = NULBYTE)

\* The loop over check compares at every place up to line_end, NULs or not.
Matches(line) ==
    \E i \in 0 .. Len(line) - Len(s) : SubSeq(line, i + 1, i + Len(s)) = s

\* The file may be missing, or no descriptor free.
Open ==
    /\ at = "open"
    /\ at' \in {"read", "failed"}
    /\ UNCHANGED <<s, file, place, data, stale, v, printed>>

Smaller(a, b) == IF a <= b THEN a ELSE b

\* ece391_read (data + last, BUFSIZE - last)
Read ==
    /\ at = "read"
    /\ LET cnt == Smaller(BUFSIZE - v.last, Len(file) - place) IN
        /\ data' = [i \in 0 .. BUFSIZE |->
                        IF i - v.last \in 0 .. cnt - 1 THEN file[place + 1 + i - v.last]
                        ELSE data[i]]
        /\ place' = place + cnt
        /\ v' = [v EXCEPT !.cnt = cnt, !.last = @ + cnt, !.line_start = 0, !.line_end = 0]
    /\ at' = "scan"
    /\ UNCHANGED <<s, file, stale, printed>>

\* line_end runs to the newline or to last.
Scan ==
    /\ at = "scan"
    /\ IF v.line_end < v.last /\ data[v.line_end] # NEWLINE
       THEN v' = [v EXCEPT !.line_end = @ + 1] /\ UNCHANGED at
       ELSE at' = "cut_off" /\ UNCHANGED v
    /\ UNCHANGED <<s, file, place, data, stale, printed>>

\* Mutant of CutOff: a piece without a newline is carried over, whatever was read.
CutOffAlways == data[v.line_end] # NEWLINE

\* The line goes on behind the buffer, and there is room in front of it.
CutOff == data[v.line_end] # NEWLINE /\ v.cnt # 0 /\ v.line_start # 0

\* Mutant of Carried: last stays behind the old end of the line.
CarriedTooFar == v.last

\* Mutant of Carried: the next read begins on the last byte of the line.
CarriedShort == v.last - v.line_start - 1

Carried == v.last - v.line_start

\* ece391_strcpy (data, data + line_start): it ends at a NUL, last counts all of them.
CarryOver ==
    /\ at = "cut_off"
    /\ CutOff
    /\ LET piece == CString(StringAt(v.line_start)) IN
        data' = [i \in 0 .. BUFSIZE |->
                    IF i < Len(piece) THEN piece[i + 1]
                    ELSE IF i \in {Len(piece), v.line_end} THEN NULBYTE ELSE data[i]]
    /\ v' = [v EXCEPT !.last = Carried]
    /\ at' = "read"
    /\ UNCHANGED <<s, file, place, stale, printed>>

\* The line is printed once, at the first place where the pattern matches.
Search ==
    /\ at = "cut_off"
    /\ ~CutOff
    /\ data' = [data EXCEPT ![v.line_end] = NULBYTE]
    /\ printed' = IF Matches(StringAt(v.line_start))
                  THEN Append(printed, CString(StringAt(v.line_start))) ELSE printed
    /\ at' = "next_line"
    /\ UNCHANGED <<s, file, place, stale, v>>

NextLine ==
    /\ at = "next_line"
    /\ LET start == v.line_end + 1 IN
        IF start < v.last
        THEN at' = "scan" /\ v' = [v EXCEPT !.line_start = start, !.line_end = start]
        ELSE /\ at' = IF v.cnt = 0 THEN "done" ELSE "read"
             /\ v' = [v EXCEPT !.line_start = start, !.last = 0]
    /\ UNCHANGED <<s, file, place, data, stale, printed>>

GrepNext ==
    \/ Open
    \/ Read
    \/ Scan
    \/ CarryOver
    \/ Search
    \/ NextLine

GrepSpec == GrepInit /\ [][GrepNext]_grepVars

-----------------------------------------------------------------------------
(***************************************************************************)
(* Properties                                                              *)
(***************************************************************************)
NoNewline(first, last) == \A i \in first .. last : file[i] # NEWLINE

\* A line is given by the places of its first and its last byte; an empty one ends
\* before it begins.
Lines ==
    {l \in (1 .. Len(file) + 1) \X (0 .. Len(file)) :
        /\ l[1] <= l[2] + 1
        /\ l[1] = 1 \/ file[l[1] - 1] = NEWLINE
        /\ l[2] = Len(file) \/ file[l[2] + 1] = NEWLINE
        /\ NoNewline(l[1], l[2])}

Text(l) == SubSeq(file, l[1], l[2])
MatchingLines == {l \in Lines : Matches(Text(l))}

\* These lines have been printed, each once and whole, in the order of the file.
PrintedAre(lines) ==
    \E order \in [DOMAIN printed -> lines] :
        /\ lines = {order[i] : i \in DOMAIN printed}
        /\ \A i, j \in DOMAIN printed : i < j => order[i][1] < order[j][1]
        /\ \A i \in DOMAIN printed : printed[i] = Text(order[i])

\* Of any BUFSIZE + 1 bytes in a row one is a newline.
NoLongLine ==
    \A i \in 1 .. Len(file) - BUFSIZE : \E j \in i .. i + BUFSIZE : file[j] = NEWLINE

TextFile == \A i \in DOMAIN file : file[i] # NULBYTE

\* grep prints the lines that contain the pattern, all of them, once, whole and in
\* their order, wherever the reads cut the file: if the file holds no NUL, no line
\* is longer than the buffer, and the byte behind the buffer, which is compared
\* without having been written, is not a newline by chance.
GrepExact ==
    at = "done" /\ TextFile /\ stale # NEWLINE /\ NoLongLine => PrintedAre(MatchingLines)

\* Of every file without a NUL, however long its lines are and whatever the stack
\* held: what is printed contains the pattern and is a piece of a line of the file,
\* never a mixture of an old and a new read.
GrepSound ==
    TextFile => \A i \in DOMAIN printed :
        /\ Matches(printed[i])
        /\ \E first \in 1 .. Len(file) + 1, last \in 0 .. Len(file) :
              NoNewline(first, last) /\ printed[i] = SubSeq(file, first, last)

\* What is left to read of the file, and whether the end has still to be seen.
Rounds ==
    IF at \in {"done", "failed"} THEN 0
    ELSE (Len(file) - place)
         + IF at \in {"scan", "cut_off", "next_line"} /\ v.cnt = 0 THEN 0 ELSE 1

\* What is left to do with the buffer before the next read.
Steps ==
    CASE at = "open" -> 1
      [] at = "scan" -> 3 * (BUFSIZE + 1 - v.line_end) + 2
      [] at = "cut_off" -> 3 * (BUFSIZE + 1 - v.line_end) + 1
      [] at = "next_line" -> 3 * (BUFSIZE + 1 - v.line_end)
      [] OTHER -> 0

GrepNearer ==
    /\ Rounds' \in Nat /\ Steps' \in Nat
    /\ Rounds' < Rounds \/ (Rounds' = Rounds /\ Steps' < Steps)

\* Whatever the bytes of the file: each read takes something from it or is the last,
\* and between two reads the search goes forward in the buffer: a line that is
\* carried over, however long it is, never makes grep read again without coming
\* nearer to the end.
GrepGetsOn == [][GrepNearer]_grepVars
=============================================================================
