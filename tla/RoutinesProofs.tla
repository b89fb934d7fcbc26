---------------------------- MODULE RoutinesProofs ----------------------------
(***************************************************************************)
(* Proofs about the parts of Routines, the page tables and grep's search   *)
(* here and the routines of the libraries in LibraryProofs, and about the  *)
(* three together.                                                         *)
(***************************************************************************)
EXTENDS Routines, LibraryProofs

(***************************************************************************)
(* The page tables: programs are kept apart, however many processes.       *)
(*                                                                         *)
(* Between two calls the entry of the program page is the one of the       *)
(* running process, and so is what the TLB holds.  In the middle of        *)
(* update_user_addr the entry is another process's or nobody's and the TLB *)
(* may have seen any of them; the flush at its end is what the invariant   *)
(* rests on.                                                               *)
(***************************************************************************)
UserFlags == {"P", "RW", "US", "PCD", "PS"}

\* The directory of paging_init with another frame under the program page.
DirectoryWith(base) ==
    [i \in Directory |->
        CASE i = 0 -> Entry({"P", "RW"}, 0)
          [] i = 1 -> Entry({"P", "RW", "PCD", "PS", "G"}, KERNELPG)
          [] i = 32 -> Entry(UserFlags, base)
          [] i = 33 -> Entry({"P", "RW", "US"}, 0)
          [] OTHER -> Blank]

\* What the program page points to at each step.
Mapped ==
    \E base \in Nat :
        /\ page_directory = DirectoryWith(base)
        /\ step \in {"idle", "flush"} => base = FrameOf(running)
        /\ step = "and" => \E pid \in Nat : base = FrameOf(pid)
        /\ step = "or" => base = 0

PagesInv ==
    /\ running \in Nat
    /\ step \in {"paging_init", "idle", "and", "or", "flush"}
    /\ step = "paging_init" => tlb = None /\ running = 0
    /\ step # "paging_init" =>
           /\ Mapped
           /\ page_table1 = VideoTable({})
           /\ page_table2 = VideoTable({"US"})
    /\ step = "idle" => tlb \in {None, page_directory[32]}

\* The frame of a process has its lowest eight bits clear.
LEMMA FramesAligned ==
    ASSUME NEW pid \in Nat
    PROVE  FrameOf(pid) \in Nat /\ FrameOf(pid) % 256 = 0
<1>1. FrameOf(pid) = 256 * (8 + 4 * pid)
  BY DEF FrameOf, USERPG, KERNELPG
<1>2. 8 + 4 * pid \in Nat
  OBVIOUS
<1>3. \A n \in Nat : (256 * n) % 256 = 0 /\ 256 * n \in Nat
  OBVIOUS
<1>4. QED
  BY <1>1, <1>2, <1>3

LEMMA UserEntry ==
    ASSUME NEW base \in Nat
    PROVE  /\ DirectoryWith(base)[32] = Entry(UserFlags, base)
           /\ \A other \in Nat : [DirectoryWith(base) EXCEPT ![32] = Entry(UserFlags, other)]
                                  = DirectoryWith(other)
<1>1. 32 \in Directory  BY DEF Directory
<1>2. DirectoryWith(base)[32] = Entry(UserFlags, base)
  BY <1>1 DEF DirectoryWith
<1>3. ASSUME NEW other \in Nat
      PROVE  [DirectoryWith(base) EXCEPT ![32] = Entry(UserFlags, other)] = DirectoryWith(other)
  <2>1. \A i \in Directory : DirectoryWith(other)[i] =
            IF i = 32 THEN Entry(UserFlags, other) ELSE DirectoryWith(base)[i]
    BY DEF DirectoryWith
  <2>2. DirectoryWith(other) =
            [i \in Directory |-> IF i = 32 THEN Entry(UserFlags, other) ELSE DirectoryWith(base)[i]]
    BY <2>1 DEF DirectoryWith
  <2>3. DirectoryWith(base) = [i \in Directory |-> DirectoryWith(base)[i]]
    BY DEF DirectoryWith
  <2>4. QED  BY <2>2, <2>3
<1>4. QED  BY <1>2, <1>3

LEMMA PagingStart == PagingInit => PagesInv
  BY DEF PagingInit, PagesInv

LEMMA PagingStep == PagesInv /\ [PagingNext]_pagingVars => PagesInv'
<1>. SUFFICES ASSUME PagesInv, [PagingNext]_pagingVars
              PROVE  PagesInv'
  OBVIOUS
<1>1. CASE paging_init
  <2>1. page_directory' = DirectoryWith(USERPG)
    BY <1>1 DEF paging_init, DirectoryWith, UserFlags
  <2>2. running' = 0 /\ USERPG = FrameOf(running') /\ USERPG \in Nat
    BY <1>1 DEF paging_init, PagesInv, FrameOf, USERPG, KERNELPG
  <2>3. QED
    BY <1>1, <2>1, <2>2 DEF paging_init, PagesInv, Mapped
<1>2. CASE Call
  <2>1. running' \in Nat
    BY <1>2, PagingAssumption DEF Call, Pids
  <2>2. Mapped'
    BY <1>2 DEF Call, PagesInv, Mapped
  <2>3. QED
    BY <1>2, <2>1, <2>2 DEF Call, PagesInv
<1>3. CASE ClearBase
  <2>1. PICK pid \in Nat : page_directory = DirectoryWith(FrameOf(pid))
    BY <1>3 DEF ClearBase, PagesInv, Mapped
  <2>2. Kept = Entry(UserFlags, 0)
    BY <2>1, FramesAligned, UserEntry DEF Kept, Entry
  <2>3. page_directory' = DirectoryWith(0)
    BY <1>3, <2>1, <2>2, FramesAligned, UserEntry DEF ClearBase
  <2>4. Mapped'
    BY <1>3, <2>3 DEF ClearBase, Mapped
  <2>5. QED
    BY <1>3, <2>4 DEF ClearBase, PagesInv
<1>4. CASE SetBase
  <2>1. page_directory = DirectoryWith(0) /\ running \in Nat
    BY <1>4 DEF SetBase, PagesInv, Mapped
  <2>2. page_directory' = [page_directory EXCEPT ![32] = Entry(UserFlags, FrameOf(running))]
    <3>1. DirectoryWith(0)[32] = [flags |-> UserFlags, base |-> 0] /\ FrameOf(running) \in Nat
      BY <2>1, UserEntry, FramesAligned DEF Entry
    <3>2. [page_directory[32] EXCEPT !.base = @ + FrameOf(running)] = Entry(UserFlags, FrameOf(running))
      BY <2>1, <3>1 DEF Entry
    <3>3. QED  BY <1>4, <3>2 DEF SetBase
  <2>3. page_directory' = DirectoryWith(FrameOf(running))
    BY <2>1, <2>2, UserEntry, FramesAligned
  <2>4. Mapped'
    BY <1>4, <2>1, <2>3, FramesAligned DEF SetBase, Mapped
  <2>5. QED
    BY <1>4, <2>4 DEF SetBase, PagesInv
<1>5. CASE flush_tlb
  BY <1>5 DEF flush_tlb, Flushed, PagesInv, Mapped
<1>6. CASE Walk
  BY <1>6 DEF Walk, PagesInv, Mapped
<1>7. CASE UNCHANGED pagingVars
  BY <1>7 DEF pagingVars, PagesInv, Mapped
<1>8. QED
  BY <1>1, <1>2, <1>3, <1>4, <1>5, <1>6, <1>7 DEF PagingNext

\* What a program reaches while its entry is in the directory.
LEMMA ReachOf ==
    ASSUME NEW base \in Nat, page_directory = DirectoryWith(base),
           tlb \in {None, page_directory[32]},
           page_table1 = VideoTable({}), page_table2 = VideoTable({"US"})
    PROVE  Reach = Frames(base) \cup VideoPages
<1>1. \A i \in Directory : Seen(i) = DirectoryWith(base)[i]
  BY DEF Seen
<1>2. /\ \A i \in Directory : i \notin {32, 33} => "US" \notin Seen(i).flags
      /\ Seen(32) = Entry(UserFlags, base)
      /\ Seen(33) = Entry({"P", "RW", "US"}, 0)
  BY <1>1 DEF DirectoryWith, Directory, Entry, Blank
<1>3. InLargePages = Frames(base)
  <2>1. LargePages = {32}
    BY <1>2 DEF LargePages, Accessible, Entry, UserFlags, Directory
  <2>2. Seen(32).base = base
    BY <1>2 DEF Entry
  <2>3. {Frames(Seen(i).base) : i \in LargePages} = {Frames(base)}
    BY <2>1, <2>2
  <2>4. QED  BY <2>3 DEF InLargePages
<1>4. Through(0, page_table1) = {}
  BY <1>2 DEF Through, Accessible, Directory
<1>5. Through(33, page_table2) = VideoPages
  <2>1. Accessible(Seen(33))
    BY <1>2 DEF Accessible, Entry
  <2>2. VideoPages = {184, 185, 186, 187}
    BY DEF VideoPages, VIDMEM, TERM, Terminals
  <2>3. {k \in Table : Accessible(page_table2[k])} = VideoPages
    BY <2>2 DEF VideoTable, Accessible, Entry, Blank, Table
  <2>4. \A k \in VideoPages : page_table2[k].base = k
    BY <2>2 DEF VideoTable, Entry, Table
  <2>5. {page_table2[j].base : j \in VideoPages} = VideoPages
    BY <2>4
  <2>6. QED  BY <2>1, <2>3, <2>5 DEF Through
<1>6. QED
  BY <1>3, <1>4, <1>5 DEF Reach

\* No frame of a process is another's or a video page.
LEMMA FramesApart ==
    ASSUME NEW p \in Nat, NEW q \in Nat, p # q
    PROVE  (Frames(FrameOf(p)) \cup VideoPages) \cap Frames(FrameOf(q)) = {}
<1>1. VideoPages = {184, 185, 186, 187}
  BY DEF VideoPages, VIDMEM, TERM, Terminals
<1>2. ASSUME NEW f \in Frames(FrameOf(q))  PROVE f \notin Frames(FrameOf(p)) /\ f \notin VideoPages
  BY <1>1 DEF Frames, FrameOf, USERPG, KERNELPG
<1>3. QED
  BY <1>2

\* A program reaches its own 4 MB and the video pages and no frame of another
\* process, however many processes there are and whatever entries of the program page
\* the TLB has held: update_user_addr loads the directory again before it returns.
THEOREM ProgramsApart == PagingSpec => []OwnMemoryOnly
<1>1. PagesInv => OwnMemoryOnly
  <2>. SUFFICES ASSUME PagesInv, step = "idle"
                PROVE  /\ Reach = Frames(FrameOf(running)) \cup VideoPages
                       /\ \A other \in Pids \ {running} : Reach \cap Frames(FrameOf(other)) = {}
    BY DEF OwnMemoryOnly
  <2>1. /\ page_directory = DirectoryWith(FrameOf(running)) /\ running \in Nat
        /\ page_table1 = VideoTable({}) /\ page_table2 = VideoTable({"US"})
        /\ tlb \in {None, page_directory[32]}
    BY DEF PagesInv, Mapped
  <2>2. Reach = Frames(FrameOf(running)) \cup VideoPages
    BY <2>1, FramesAligned, ReachOf
  <2>3. ASSUME NEW other \in Pids \ {running}  PROVE Reach \cap Frames(FrameOf(other)) = {}
    <3>1. other \in Nat /\ other # running
      BY PagingAssumption DEF Pids
    <3>2. QED  BY <2>1, <2>2, <3>1, FramesApart
  <2>4. QED  BY <2>2, <2>3
<1>2. QED
  BY <1>1, PagingStart, PagingStep, PTL DEF PagingSpec

-----------------------------------------------------------------------------
(***************************************************************************)
(* grep: the buffer is a window on the file.  What the search has still to *)
(* look at are the bytes read last, in their order, wherever they have     *)
(* been moved to, and there is none left of an earlier read, provided the  *)
(* file holds no NUL: behind one nothing is carried over.                  *)
(***************************************************************************)
\* The place in the file of the byte in front of the buffer's first.
Base == place - v.last

\* Where the bytes of the buffer begin that are still to be searched.
Unsearched ==
    IF at = "next_line" THEN v.line_end + 1
    ELSE IF at \in {"scan", "cut_off"} THEN v.line_start ELSE 0

GrepTypes ==
    /\ s \in Seq(Chars) /\ Len(s) > 0 /\ file \in Seq(Chars)
    /\ place \in 0 .. Len(file)
    /\ data \in [0 .. BUFSIZE -> Chars]
    /\ v \in [last : 0 .. BUFSIZE, line_start : Nat, line_end : 0 .. BUFSIZE, cnt : Nat]
    /\ v.last <= place
    /\ at \in {"open", "read", "scan", "cut_off", "next_line", "done", "failed"}
    /\ printed \in Seq(Seq(Chars))

\* The buffer holds the bytes of the file that have been read last, from where the
\* search stands.
Faithful == \A i \in Unsearched .. v.last - 1 : data[i] = file[Base + 1 + i]

\* Where the locals point to, whatever the bytes, and no newline before line_end.
Window ==
    /\ TextFile => Faithful
    /\ at \in {"scan", "cut_off"} =>
          /\ v.line_start <= v.line_end /\ v.line_end <= v.last
          /\ \A i \in v.line_start .. v.line_end - 1 : data[i] # NEWLINE
    /\ at = "cut_off" => v.line_end = v.last \/ data[v.line_end] = NEWLINE
    /\ at = "next_line" => v.line_end <= v.last
    /\ at \in {"open", "read"} => v.last < BUFSIZE
    /\ at \in {"scan", "cut_off", "next_line"} =>
          /\ v.last = BUFSIZE \/ place = Len(file)
          /\ v.cnt = 0 => place = Len(file)
    /\ at = "done" => place = Len(file)

SoundInv == GrepTypes /\ Window /\ GrepSound

\* The piece of the file that the string from line_start to line_end is.
Piece == SubSeq(file, Base + v.line_start + 1, Base + v.line_end)

LEMMA CharsAreBytes == NEWLINE \in Chars /\ NULBYTE \in Chars /\ NEWLINE # NULBYTE
  BY DEF Chars, NEWLINE, NULBYTE

LEMMA LocalsAreNumbers ==
    ASSUME GrepTypes
    PROVE  /\ v.last \in Nat /\ v.line_start \in Nat /\ v.line_end \in Nat /\ v.cnt \in Nat
           /\ v.last <= BUFSIZE /\ v.line_end <= BUFSIZE /\ BUFSIZE \in Nat /\ BUFSIZE > 0
           /\ place \in Nat /\ place <= Len(file) /\ Len(file) \in Nat
           /\ Base \in Nat /\ Base + v.last = place
  <1>1. /\ v.last \in 0 .. BUFSIZE /\ v.line_start \in Nat /\ v.line_end \in 0 .. BUFSIZE
        /\ v.cnt \in Nat /\ place \in 0 .. Len(file) /\ v.last <= place
        /\ file \in Seq(Chars)
    BY DEF GrepTypes
  <1>2. BUFSIZE \in Nat /\ BUFSIZE > 0 /\ Len(file) \in Nat
    BY <1>1, GrepAssumption
  <1> QED
    BY <1>1, <1>2 DEF Base

\* Some bytes up to the first NUL: all of them, if there is none.
LEMMA StringEnds ==
    ASSUME NEW bytes \in Seq(Chars)
    PROVE  /\ CString(bytes) \in Seq(Chars)
           /\ (\A i \in 1 .. Len(bytes) : bytes[i] # NULBYTE) => CString(bytes) = bytes
  <1> DEFINE size == Len(bytes)
             Ends(n) == /\ \A i \in 1 .. n : bytes[i] # NULBYTE
                        /\ n = Len(bytes) \/ bytes[n + 1] = NULBYTE
             end == CHOOSE n \in 0 .. Len(bytes) : Ends(n)
             nuls == {i \in 1 .. size : bytes[i] = NULBYTE}
  <1>1. size \in Nat
    OBVIOUS
  <1>2. CString(bytes) = SubSeq(bytes, 1, end)
    BY DEF CString
  <1>3. CASE nuls = {}
    <2>1. \A i \in 1 .. size : bytes[i] # NULBYTE
      BY <1>3
    <2>2. Ends(size) /\ size \in 0 .. Len(bytes)
      BY <1>1, <2>1
    <2>3. \A n \in 0 .. Len(bytes) : Ends(n) => n = size
      <3> SUFFICES ASSUME NEW n \in 0 .. Len(bytes), Ends(n), n # size PROVE FALSE
        OBVIOUS
      <3>1. n + 1 \in 1 .. size /\ bytes[n + 1] = NULBYTE
        BY <1>1
      <3> QED
        BY <2>1, <3>1
    <2> HIDE DEF Ends
    <2>4. end = size
      BY <2>2, <2>3
    <2>5. SubSeq(bytes, 1, size) = bytes
      <3>1. \A i \in 1 .. 1 + size - 1 : i + 1 - 1 = i
        BY <1>1
      <3>2. SubSeq(bytes, 1, size) = [i \in 1 .. 1 + size - 1 |-> bytes[i + 1 - 1]]
        BY <1>1
      <3>3. bytes = [i \in 1 .. size |-> bytes[i]] /\ 1 + size - 1 = size
        BY <1>1
      <3> HIDE DEF size
      <3> QED
        BY <3>1, <3>2, <3>3
    <2>6. CString(bytes) = bytes
      BY <1>2, <2>4, <2>5
    <2> QED
      BY <2>6
  <1>4. CASE nuls # {}
    <2>1. nuls \in SUBSET Nat
      BY <1>1
    <2>2. PICK first \in nuls : \A m \in nuls : first <= m
      BY <1>4, <2>1, Least
    <2>3. first \in 1 .. size /\ bytes[first] = NULBYTE
      BY <2>2
    <2>4. \A i \in 1 .. first - 1 : bytes[i] # NULBYTE
      <3> SUFFICES ASSUME NEW i \in 1 .. first - 1, bytes[i] = NULBYTE PROVE FALSE
        OBVIOUS
      <3>1. i \in nuls /\ i < first
        BY <1>1, <2>3
      <3> QED
        BY <1>1, <2>2, <2>3, <3>1
    <2>5. first - 1 \in 0 .. Len(bytes) /\ (first - 1) + 1 = first
      BY <1>1, <2>3
    <2>6. Ends(first - 1)
      BY <2>3, <2>4, <2>5
    <2> HIDE DEF Ends
    <2>7. end \in 0 .. Len(bytes)
      BY <2>5, <2>6
    <2>8. CString(bytes) \in Seq(Chars)
      <3> HIDE DEF end
      <3> QED
        BY <1>2, <2>7
    <2> QED
      BY <2>3, <2>8
  <1> QED
    BY <1>3, <1>4

\* What the buffer holds up to line_end.
LEMMA StringHere ==
    ASSUME GrepTypes, Window, at = "cut_off"
    PROVE  /\ StringAt(v.line_start) \in Seq(Chars)
           /\ Len(StringAt(v.line_start)) = v.line_end - v.line_start
  <1> DEFINE a == v.line_start
             b == v.line_end
  <1>1. a \in Nat /\ b \in Nat /\ a <= b /\ b <= BUFSIZE /\ BUFSIZE \in Nat
    BY LocalsAreNumbers DEF Window
  <1>2. StringAt(a) = [i \in 1 .. b - a |-> data[a + i - 1]]
    BY DEF StringAt
  <1>3. data \in [0 .. BUFSIZE -> Chars]
    BY DEF GrepTypes
  <1> HIDE DEF a, b
  <1>4. \A i \in 1 .. b - a : a + i - 1 \in 0 .. BUFSIZE
    BY <1>1
  <1>5. StringAt(a) \in [1 .. b - a -> Chars] /\ b - a \in Nat
    BY <1>1, <1>2, <1>3, <1>4
  <1>6. StringAt(a) \in Seq(Chars) /\ Len(StringAt(a)) = b - a
    BY <1>5
  <1> QED
    BY <1>6 DEF a, b

LEMMA StringIsPiece ==
    ASSUME GrepTypes, Window, TextFile, at = "cut_off"
    PROVE  /\ StringAt(v.line_start) = Piece
           /\ CString(StringAt(v.line_start)) = Piece
           /\ StringAt(v.line_start) \in Seq(Chars)
           /\ Len(StringAt(v.line_start)) = v.line_end - v.line_start
           /\ NoNewline(Base + v.line_start + 1, Base + v.line_end)
           /\ Base + v.line_start + 1 \in 1 .. Len(file) + 1
           /\ Base + v.line_end \in 0 .. Len(file)
  <1> DEFINE a == v.line_start
             b == v.line_end
             base == Base
  <1>1. /\ a \in Nat /\ b \in Nat /\ base \in Nat /\ a <= b /\ b <= v.last
        /\ base + b <= Len(file) /\ Len(file) \in Nat /\ b <= BUFSIZE /\ BUFSIZE \in Nat
        /\ v.last \in Nat
    <2>1. a <= b /\ b <= v.last
      BY DEF Window
    <2> QED
      BY <2>1, LocalsAreNumbers
  <1>2. \A i \in a .. b - 1 : data[i] = file[base + 1 + i] /\ data[i] # NEWLINE /\ data[i] \in Chars
    <2>1. Unsearched = a
      BY DEF Unsearched
    <2>2. \A i \in a .. v.last - 1 : data[i] = file[base + 1 + i]
      BY <2>1 DEF Window, Faithful
    <2>3. \A i \in a .. b - 1 : data[i] # NEWLINE
      BY DEF Window
    <2>4. data \in [0 .. BUFSIZE -> Chars]
      BY DEF GrepTypes
    <2> HIDE DEF a, b, base
    <2>5. \A i \in a .. b - 1 : i \in a .. v.last - 1 /\ i \in 0 .. BUFSIZE
      BY <1>1
    <2> QED
      BY <2>2, <2>3, <2>4, <2>5
  <1>3. StringAt(a) = [i \in 1 .. b - a |-> data[a + i - 1]]
    BY DEF StringAt
  <1>0. file \in Seq(Chars)
    BY DEF GrepTypes
  <1>7. Piece = SubSeq(file, base + a + 1, base + b)
    BY DEF Piece
  <1> HIDE DEF a, b, base
  <1>4. \A i \in 1 .. b - a : /\ a + i - 1 \in a .. b - 1
                              /\ base + 1 + (a + i - 1) = base + a + i
    BY <1>1
  <1>5. \A i \in 1 .. b - a : data[a + i - 1] = file[base + a + i] /\ data[a + i - 1] \in Chars
    BY <1>2, <1>4
  <1>6. SubSeq(file, base + a + 1, base + b) = [i \in 1 .. b - a |-> file[base + a + i]]
    <2>1. base + a + 1 \in Nat /\ base + b \in Nat /\ base + b <= Len(file) /\ base + a <= base + b
      BY <1>1
    <2> DEFINE lo == base + a + 1
               hi == base + b
               sub == SubSeq(file, lo, hi)
    <2>2. sub = [i \in 1 .. 1 + hi - lo |-> file[i + lo - 1]]
      BY <1>0, <2>1
    <2>3. 1 + hi - lo = b - a /\ \A i \in 1 .. b - a : i + lo - 1 = base + a + i
      BY <1>1
    <2> HIDE DEF lo, hi
    <2>4. sub = [i \in 1 .. b - a |-> file[base + a + i]]
      BY <2>2, <2>3
    <2> QED
      BY <2>4 DEF sub, lo, hi
  <1>8. StringAt(a) = Piece
    BY <1>3, <1>5, <1>6, <1>7
  <1>9. StringAt(a) \in Seq(Chars) /\ Len(StringAt(a)) = b - a
    <2>1. StringAt(a) \in [1 .. b - a -> Chars]
      BY <1>3, <1>5
    <2>2. b - a \in Nat
      BY <1>1
    <2> QED
      BY <2>1, <2>2
  <1>10. NoNewline(base + a + 1, base + b)
    <2> SUFFICES ASSUME NEW k \in base + a + 1 .. base + b PROVE file[k] # NEWLINE
      BY DEF NoNewline
    <2>1. k - base - 1 \in a .. b - 1 /\ base + 1 + (k - base - 1) = k
      BY <1>1
    <2> QED
      BY <1>2, <2>1
  <1>11. base + a + 1 \in 1 .. Len(file) + 1 /\ base + b \in 0 .. Len(file)
    BY <1>1
  <1>12. CString(StringAt(a)) = StringAt(a)
    <2>1. \A i \in 1 .. b - a : base + a + i \in 1 .. Len(file)
      BY <1>1
    <2>2. \A i \in 1 .. b - a : StringAt(a)[i] # NULBYTE
      BY <1>0, <1>3, <1>5, <2>1 DEF TextFile
    <2> QED
      BY <1>9, <2>2, StringEnds
  <1> QED
    BY <1>8, <1>9, <1>10, <1>11, <1>12 DEF a, b, base

LEMMA GrepStart == GrepInit => GrepTypes /\ Window
  <1> SUFFICES ASSUME GrepInit PROVE GrepTypes /\ Window
    OBVIOUS
  <1>1. s \in Seq(Chars) /\ Len(s) > 0
    <2>1. PICK n \in 1 .. MaxPattern : s \in [1 .. n -> Chars \ {NEWLINE, NULBYTE}]
      BY DEF GrepInit
    <2>2. n \in Nat /\ n > 0
      BY <2>1, GrepAssumption
    <2>3. s \in [1 .. n -> Chars]
      BY <2>1
    <2> QED
      BY <2>2, <2>3
  <1>2. file \in Seq(Chars)
    <2>1. PICK n \in 0 .. MaxFile : file \in [1 .. n -> Chars]
      BY DEF GrepInit
    <2>2. n \in Nat
      BY <2>1, GrepAssumption
    <2> QED
      BY <2>1, <2>2
  <1>3. data \in [0 .. BUFSIZE -> Chars]
    BY CharsAreBytes DEF GrepInit
  <1>4. v = [last |-> 0, line_start |-> 0, line_end |-> 0, cnt |-> 0] /\ at = "open" /\ place = 0
        /\ printed = <<>> /\ BUFSIZE \in Nat /\ BUFSIZE > 0
    BY GrepAssumption DEF GrepInit
  <1>5. GrepTypes
    BY <1>1, <1>2, <1>3, <1>4 DEF GrepTypes
  <1>6. Window
    BY <1>4 DEF Window, Faithful, Unsearched
  <1> QED
    BY <1>5, <1>6

LEMMA OpenWindow ==
    ASSUME GrepTypes, Window, Open
    PROVE  GrepTypes' /\ Window'
  <1>1. /\ UNCHANGED <<s, file, place, data, v, printed>>
        /\ at = "open" /\ at' \in {"read", "failed"}
    BY DEF Open
  <1>2. Unsearched = 0 /\ Unsearched' = 0 /\ Base' = Base
    BY <1>1 DEF Unsearched, Base
  <1>3. GrepTypes'
    BY <1>1 DEF GrepTypes
  <1>4. v.last < BUFSIZE
    BY <1>1 DEF Window
  <1>5. Window'
    BY <1>1, <1>2, <1>4 DEF Window, Faithful, TextFile
  <1> QED
    BY <1>3, <1>5

LEMMA ReadWindow ==
    ASSUME GrepTypes, Window, Read
    PROVE  GrepTypes' /\ Window' /\ Base' = Base /\ v'.line_start = 0
  <1> DEFINE cnt == Smaller(BUFSIZE - v.last, Len(file) - place)
             new == [v EXCEPT !.cnt = cnt, !.last = v.last + cnt,
                              !.line_start = 0, !.line_end = 0]
             from(i) == i - v.last
  <1>1. /\ at = "read" /\ at' = "scan" /\ UNCHANGED <<s, file, stale, printed>>
        /\ data' = [i \in 0 .. BUFSIZE |->
                        IF from(i) \in 0 .. cnt - 1 THEN file[place + 1 + i - v.last]
                        ELSE data[i]]
        /\ place' = place + cnt /\ v' = new
    BY DEF Read
  <1>2. /\ v.last \in Nat /\ BUFSIZE \in Nat /\ place \in Nat /\ Len(file) \in Nat
        /\ v.last < BUFSIZE /\ place <= Len(file) /\ Base \in Nat /\ Base + v.last = place
    BY <1>1, LocalsAreNumbers DEF Window
  <1>3. /\ cnt \in Nat /\ v.last + cnt <= BUFSIZE /\ place + cnt <= Len(file)
        /\ v.last + cnt = BUFSIZE \/ place + cnt = Len(file)
        /\ cnt = 0 => place + cnt = Len(file)
    BY <1>2 DEF Smaller
  <1> HIDE DEF cnt
  <1>4. /\ new \in [last : 0 .. BUFSIZE, line_start : Nat, line_end : 0 .. BUFSIZE, cnt : Nat]
        /\ new.last = v.last + cnt /\ new.line_start = 0 /\ new.line_end = 0 /\ new.cnt = cnt
    <2>1. v \in [last : 0 .. BUFSIZE, line_start : Nat, line_end : 0 .. BUFSIZE, cnt : Nat]
      BY DEF GrepTypes
    <2>2. v.last + cnt \in 0 .. BUFSIZE /\ 0 \in 0 .. BUFSIZE
      BY <1>2, <1>3
    <2> QED
      BY <1>3, <2>1, <2>2
  <1> HIDE DEF new
  <1>5. Base' = Base
    BY <1>1, <1>2, <1>3, <1>4 DEF Base
  <1>6. data' \in [0 .. BUFSIZE -> Chars]
    <2> SUFFICES ASSUME NEW i \in 0 .. BUFSIZE
                 PROVE  (IF from(i) \in 0 .. cnt - 1 THEN file[place + 1 + i - v.last]
                         ELSE data[i]) \in Chars
      BY <1>1
    <2>1. CASE from(i) \in 0 .. cnt - 1
      <3>1. place + 1 + i - v.last \in 1 .. Len(file)
        <4> DEFINE last == v.last
                   size == Len(file)
        <4>1. last \in Nat /\ place \in Nat /\ size \in Nat /\ BUFSIZE \in Nat
          BY <1>2
        <4>2. cnt \in Nat /\ place + cnt <= size
          BY <1>3
        <4>3. i \in 0 .. BUFSIZE /\ i - last \in 0 .. cnt - 1
          BY <2>1
        <4> HIDE DEF last, size
        <4>4. place + 1 + i - last \in 1 .. size
          BY ONLY <4>1, <4>2, <4>3
        <4> QED
          BY ONLY <4>4 DEF last, size
      <3>2. file[place + 1 + i - v.last] \in Chars
        BY <3>1 DEF GrepTypes
      <3> QED
        BY <2>1, <3>2
    <2>2. CASE ~(from(i) \in 0 .. cnt - 1)
      BY <2>2 DEF GrepTypes
    <2> QED
      BY <2>1, <2>2
  <1>7. GrepTypes'
    <2>1. v'.last <= place' /\ place' \in 0 .. Len(file')
      BY <1>1, <1>2, <1>3, <1>4
    <2> QED
      BY <1>1, <1>4, <1>6, <2>1 DEF GrepTypes
  <1>8. TextFile => \A i \in 0 .. v.last + cnt - 1 : data'[i] = file[Base + 1 + i]
    <2> SUFFICES ASSUME TextFile, NEW i \in 0 .. v.last + cnt - 1
                 PROVE  data'[i] = file[Base + 1 + i]
      OBVIOUS
    <2>0. i \in 0 .. BUFSIZE /\ i \in Nat
      BY <1>2, <1>3
    <2>1. CASE i < v.last
      <3>1. ~(from(i) \in 0 .. cnt - 1) /\ i \in 0 .. v.last - 1
        BY <1>2, <1>3, <2>0, <2>1
      <3>2. data[i] = file[Base + 1 + i]
        BY <1>1, <3>1 DEF Window, Faithful, Unsearched
      <3> QED
        BY <1>1, <2>0, <3>1, <3>2
    <2>2. CASE ~(i < v.last)
      <3>1. from(i) \in 0 .. cnt - 1
        BY <1>2, <1>3, <2>0, <2>2
      <3>2. place + 1 + i - v.last = Base + 1 + i
        BY <1>2, <2>0
      <3> QED
        BY <1>1, <2>0, <3>1, <3>2
    <2> QED
      BY <2>1, <2>2
  <1>9. Unsearched' = 0 /\ v'.last = v.last + cnt
    <2>1. v'.last = v.last + cnt /\ v'.line_start = 0
      BY <1>1, <1>4
    <2>2. Unsearched' = v'.line_start
      BY <1>1 DEF Unsearched
    <2> QED
      BY <2>1, <2>2
  <1>10. TextFile' => Faithful'
    <2>1. file' = file /\ (TextFile' <=> TextFile)
      BY <1>1 DEF TextFile
    <2>2. \A i \in Unsearched' .. v'.last - 1 : i \in 0 .. v.last + cnt - 1
      BY <1>2, <1>3, <1>9
    <2> QED
      BY <1>5, <1>8, <2>1, <2>2 DEF Faithful
  <1>11. v'.last = BUFSIZE \/ place' = Len(file')
    BY <1>1, <1>3, <1>4
  <1>12. v'.cnt = 0 => place' = Len(file')
    BY <1>1, <1>3, <1>4
  <1>13. /\ v'.line_start <= v'.line_end /\ v'.line_end <= v'.last
         /\ \A i \in v'.line_start .. v'.line_end - 1 : data'[i] # NEWLINE
    BY <1>1, <1>2, <1>3, <1>4
  <1>14. Window'
    BY <1>1, <1>10, <1>11, <1>12, <1>13 DEF Window
  <1> QED
    BY <1>1, <1>4, <1>5, <1>7, <1>14

LEMMA ScanWindow ==
    ASSUME GrepTypes, Window, Scan
    PROVE  GrepTypes' /\ Window' /\ Base' = Base /\ v'.line_start = v.line_start
  <1>1. /\ at = "scan" /\ UNCHANGED <<s, file, place, data, stale, printed>>
        /\ v \in [last : 0 .. BUFSIZE, line_start : Nat, line_end : 0 .. BUFSIZE, cnt : Nat]
    BY DEF Scan, GrepTypes
  <1>2. CASE v.line_end < v.last /\ data[v.line_end] # NEWLINE
    <2>1. v' = [v EXCEPT !.line_end = v.line_end + 1] /\ at' = at
      BY <1>2 DEF Scan
    <2>2. /\ v'.line_end = v.line_end + 1 /\ v'.last = v.last /\ v'.line_start = v.line_start
          /\ v'.cnt = v.cnt
          /\ v' \in [last : 0 .. BUFSIZE, line_start : Nat, line_end : 0 .. BUFSIZE, cnt : Nat]
      BY <1>1, <1>2, <2>1, LocalsAreNumbers
    <2>3. Base' = Base /\ Unsearched' = Unsearched
      BY <1>1, <2>1, <2>2 DEF Base, Unsearched
    <2>4. /\ v'.line_start <= v'.line_end /\ v'.line_end <= v'.last
          /\ \A i \in v'.line_start .. v'.line_end - 1 : data'[i] # NEWLINE
      BY <1>1, <1>2, <2>2, LocalsAreNumbers DEF Window
    <2>5. GrepTypes'
      BY <1>1, <2>1, <2>2 DEF GrepTypes
    <2>6. Window'
      BY <1>1, <2>1, <2>2, <2>3, <2>4 DEF Window, Faithful, TextFile
    <2> QED
      BY <2>2, <2>3, <2>5, <2>6
  <1>3. CASE ~(v.line_end < v.last /\ data[v.line_end] # NEWLINE)
    <2>1. at' = "cut_off" /\ v' = v
      BY <1>3 DEF Scan
    <2>2. v.line_end = v.last \/ data[v.line_end] = NEWLINE
      BY <1>1, <1>3, LocalsAreNumbers DEF Window
    <2>3. Base' = Base /\ Unsearched' = Unsearched
      BY <1>1, <2>1 DEF Base, Unsearched
    <2>4. GrepTypes'
      BY <1>1, <2>1 DEF GrepTypes
    <2>5. Window'
      BY <1>1, <2>1, <2>2, <2>3 DEF Window, Faithful, TextFile
    <2> QED
      BY <2>1, <2>3, <2>4, <2>5
  <1> QED
    BY <1>2, <1>3

LEMMA CarryWindow ==
    ASSUME GrepTypes, Window, CarryOver
    PROVE  GrepTypes' /\ Window' /\ Base' = Base + v.line_start
  <1> DEFINE piece == CString(StringAt(v.line_start))
             a == v.line_start
             new == [v EXCEPT !.last = Carried]
  <1>1. /\ at = "cut_off" /\ at' = "read" /\ UNCHANGED <<s, file, place, stale, printed>>
        /\ data' = [i \in 0 .. BUFSIZE |->
                        IF i < Len(piece) THEN piece[i + 1]
                        ELSE IF i \in {Len(piece), v.line_end} THEN NULBYTE ELSE data[i]]
        /\ v' = new
        /\ data[v.line_end] # NEWLINE /\ a # 0
    BY DEF CarryOver, CutOff
  <1>2. /\ a \in Nat /\ v.last \in Nat /\ a <= v.last /\ v.line_end = v.last
        /\ v.last <= BUFSIZE /\ BUFSIZE \in Nat /\ place \in Nat
        /\ Base \in Nat /\ Base + v.last = place /\ place <= Len(file) /\ Len(file) \in Nat
    <2>1. v.line_end = v.last /\ a <= v.line_end
      BY <1>1 DEF Window
    <2> QED
      BY <2>1, LocalsAreNumbers
  <1>3. /\ piece \in Seq(Chars)
        /\ TextFile => piece = Piece /\ Len(piece) = v.last - a
    <2>1. piece \in Seq(Chars)
      BY <1>1, StringHere, StringEnds
    <2>2. TextFile => piece = Piece /\ Len(piece) = v.last - a
      BY <1>1, <1>2, StringIsPiece
    <2> QED
      BY <2>1, <2>2
  <1> HIDE DEF piece
  <1>4. /\ new \in [last : 0 .. BUFSIZE, line_start : Nat, line_end : 0 .. BUFSIZE, cnt : Nat]
        /\ new.last = v.last - a
    <2>1. v \in [last : 0 .. BUFSIZE, line_start : Nat, line_end : 0 .. BUFSIZE, cnt : Nat]
      BY DEF GrepTypes
    <2>2. Carried \in 0 .. BUFSIZE /\ Carried = v.last - a
      BY <1>2 DEF Carried
    <2> QED
      BY <2>1, <2>2
  <1> HIDE DEF new
  <1>5. Base' = Base + a
    <2> DEFINE last == v.last
    <2>1. Base = place - last /\ Base' = place - (last - a)
      BY <1>1, <1>4 DEF Base
    <2>2. place \in Nat /\ last \in Nat /\ a \in Nat
      BY <1>2
    <2> HIDE DEF last, a
    <2> QED
      BY ONLY <2>1, <2>2
  <1>6. TextFile => \A i \in 0 .. v.last - a - 1 : piece[i + 1] = file[Base + a + 1 + i]
    <2> SUFFICES ASSUME TextFile
                 PROVE  \A i \in 0 .. v.last - a - 1 : piece[i + 1] = file[Base + a + 1 + i]
      OBVIOUS
    <2> DEFINE lo == Base + a + 1
               hi == Base + v.last
    <2>1. piece = SubSeq(file, lo, hi)
      BY <1>2, <1>3 DEF Piece
    <2>2. lo \in Nat /\ hi \in Nat /\ hi <= Len(file) /\ 1 <= lo
      BY <1>2
    <2>3. file \in Seq(Chars)
      BY DEF GrepTypes
    <2>4. \A i \in 0 .. v.last - a - 1 : i + 1 \in 1 .. 1 + hi - lo /\ (i + 1) + lo - 1 = lo + i
      <3> DEFINE base == Base
                 last == v.last
      <3>1. base \in Nat /\ last \in Nat /\ a \in Nat
        BY <1>2
      <3>2. lo = base + a + 1 /\ hi = base + last
        OBVIOUS
      <3> HIDE DEF base, last, lo, hi, a
      <3>3. \A i \in 0 .. last - a - 1 :
                i + 1 \in 1 .. 1 + hi - lo /\ (i + 1) + lo - 1 = lo + i
        BY ONLY <3>1, <3>2
      <3> QED
        BY ONLY <3>3 DEF last
    <2> HIDE DEF lo, hi
    <2>5. SubSeq(file, lo, hi) = [i \in 1 .. 1 + hi - lo |-> file[i + lo - 1]]
      BY <2>2, <2>3
    <2>6. \A i \in 0 .. v.last - a - 1 : piece[i + 1] = file[lo + i]
      BY <2>1, <2>4, <2>5
    <2> QED
      BY <2>6 DEF lo
  <1>7. data' \in [0 .. BUFSIZE -> Chars]
    <2> SUFFICES ASSUME NEW i \in 0 .. BUFSIZE
                 PROVE  (IF i < Len(piece) THEN piece[i + 1]
                         ELSE IF i \in {Len(piece), v.line_end} THEN NULBYTE ELSE data[i]) \in Chars
      BY <1>1
    <2>1. i < Len(piece) => piece[i + 1] \in Chars
      BY <1>3
    <2>2. NULBYTE \in Chars /\ data[i] \in Chars
      BY CharsAreBytes DEF GrepTypes
    <2> QED
      BY <2>1, <2>2
  <1>8. GrepTypes'
    <2>1. v'.last <= place' /\ place' = place /\ file' = file
      BY <1>1, <1>2, <1>4
    <2> QED
      BY <1>1, <1>4, <1>7, <2>1 DEF GrepTypes
  <1>9. TextFile => \A i \in 0 .. v'.last - 1 : data'[i] = file'[Base' + 1 + i]
    <2> SUFFICES ASSUME TextFile, NEW i \in 0 .. v'.last - 1 PROVE data'[i] = file'[Base' + 1 + i]
      OBVIOUS
    <2>1. i \in 0 .. v.last - a - 1
      BY <1>1, <1>2, <1>4
    <2>2. i \in 0 .. BUFSIZE /\ i < Len(piece)
      BY <1>2, <1>3, <2>1
    <2>3. data'[i] = file[Base + a + 1 + i]
      BY <1>1, <1>6, <2>1, <2>2
    <2>4. Base' + 1 + i = Base + a + 1 + i
      BY <1>2, <1>5, <2>1
    <2> QED
      BY <1>1, <2>3, <2>4
  <1>10. Unsearched' = 0
    BY <1>1 DEF Unsearched
  <1>11. v'.last < BUFSIZE
    BY <1>1, <1>2, <1>4
  <1>12. Window'
    BY <1>1, <1>9, <1>10, <1>11 DEF Window, Faithful, TextFile
  <1> QED
    BY <1>5, <1>8, <1>12

LEMMA SearchWindow ==
    ASSUME GrepTypes, Window, Search
    PROVE  GrepTypes' /\ Window' /\ Base' = Base
  <1>1. /\ at = "cut_off" /\ at' = "next_line" /\ UNCHANGED <<s, file, place, stale, v>>
        /\ data' = [data EXCEPT ![v.line_end] = NULBYTE]
        /\ printed' = IF Matches(StringAt(v.line_start))
                      THEN Append(printed, CString(StringAt(v.line_start))) ELSE printed
    BY DEF Search
  <1>2. /\ v.line_end \in Nat /\ v.line_end <= v.last /\ v.last \in Nat
        /\ v.last <= BUFSIZE /\ BUFSIZE \in Nat
        /\ v.line_start \in Nat /\ v.line_start <= v.line_end
    BY <1>1, LocalsAreNumbers DEF Window
  <1>3. data \in [0 .. BUFSIZE -> Chars] /\ data' \in [0 .. BUFSIZE -> Chars]
    BY <1>1, <1>2, CharsAreBytes DEF GrepTypes
  <1>4. printed' \in Seq(Seq(Chars))
    <2>1. printed \in Seq(Seq(Chars)) /\ CString(StringAt(v.line_start)) \in Seq(Chars)
      BY <1>1, StringHere, StringEnds DEF GrepTypes
    <2> QED
      BY <1>1, <2>1
  <1>5. GrepTypes'
    BY <1>1, <1>3, <1>4 DEF GrepTypes
  <1>6. Base' = Base /\ Unsearched = v.line_start /\ Unsearched' = v.line_end + 1
    BY <1>1 DEF Base, Unsearched
  <1>7. TextFile' => Faithful'
    <2> SUFFICES ASSUME TextFile, NEW i \in v.line_end + 1 .. v.last - 1
                 PROVE  data'[i] = file[Base + 1 + i]
      BY <1>1, <1>6 DEF Faithful, TextFile
    <2>1. i \in v.line_start .. v.last - 1 /\ i # v.line_end /\ i \in 0 .. BUFSIZE
      BY <1>2
    <2>2. data[i] = file[Base + 1 + i]
      BY <1>6, <2>1 DEF Window, Faithful
    <2> QED
      BY <1>1, <1>3, <2>1, <2>2
  <1>8. Window'
    BY <1>1, <1>2, <1>7 DEF Window
  <1> QED
    BY <1>5, <1>6, <1>8

LEMMA NextLineWindow ==
    ASSUME GrepTypes, Window, NextLine
    PROVE  /\ GrepTypes' /\ Window'
           /\ v.line_end + 1 < v.last
                 => Base' = Base /\ v'.line_start = v.line_end + 1 /\ at' = "scan"
           /\ ~(v.line_end + 1 < v.last) => Base' = place /\ at' \in {"read", "done"}
  <1> DEFINE start == v.line_end + 1
  <1>1. at = "next_line" /\ UNCHANGED <<s, file, place, data, stale, printed>>
    BY DEF NextLine
  <1>2. /\ v.line_end \in Nat /\ v.line_end <= v.last /\ v.last \in Nat /\ place \in Nat
        /\ v.last <= BUFSIZE /\ BUFSIZE \in Nat /\ BUFSIZE > 0 /\ v.last <= place
    BY <1>1, LocalsAreNumbers DEF Window, GrepTypes
  <1>3. v \in [last : 0 .. BUFSIZE, line_start : Nat, line_end : 0 .. BUFSIZE, cnt : Nat]
    BY DEF GrepTypes
  <1>4. CASE start < v.last
    <2> DEFINE new == [v EXCEPT !.line_start = start, !.line_end = start]
    <2>1. at' = "scan" /\ v' = new
      BY <1>4 DEF NextLine
    <2>2. start \in Nat /\ start \in 0 .. BUFSIZE
      BY <1>2, <1>4
    <2>3. /\ new \in [last : 0 .. BUFSIZE, line_start : Nat, line_end : 0 .. BUFSIZE, cnt : Nat]
          /\ new.last = v.last /\ new.line_start = start /\ new.line_end = start
          /\ new.cnt = v.cnt
      BY <1>3, <2>2
    <2> HIDE DEF new
    <2>4. Base' = Base /\ Unsearched' = start /\ Unsearched = start
      BY <1>1, <2>1, <2>3 DEF Base, Unsearched
    <2>5. GrepTypes'
      BY <1>1, <2>1, <2>3 DEF GrepTypes
    <2>6. v'.line_start <= v'.line_end /\ v'.line_end <= v'.last
      BY <1>2, <1>4, <2>1, <2>2, <2>3
    <2>7. \A i \in v'.line_start .. v'.line_end - 1 : data'[i] # NEWLINE
      BY <2>1, <2>2, <2>3
    <2>8. Window'
      BY <1>1, <2>1, <2>3, <2>4, <2>6, <2>7 DEF Window, Faithful, TextFile
    <2> QED
      BY <1>4, <2>1, <2>3, <2>4, <2>5, <2>8
  <1>5. CASE ~(start < v.last)
    <2> DEFINE new == [v EXCEPT !.line_start = start, !.last = 0]
    <2>1. at' = (IF v.cnt = 0 THEN "done" ELSE "read") /\ v' = new
      BY <1>5 DEF NextLine
    <2>2. start \in Nat /\ 0 \in 0 .. BUFSIZE
      BY <1>2
    <2>3. /\ new \in [last : 0 .. BUFSIZE, line_start : Nat, line_end : 0 .. BUFSIZE, cnt : Nat]
          /\ new.last = 0
      BY <1>3, <2>2
    <2> HIDE DEF new
    <2>4. Base' = place /\ Unsearched' = 0
      BY <1>1, <1>2, <2>1, <2>3 DEF Base, Unsearched
    <2>5. GrepTypes'
      BY <1>1, <1>2, <2>1, <2>3 DEF GrepTypes
    <2>6. Faithful'
      BY <2>1, <2>3, <2>4 DEF Faithful
    <2>7. at' = "done" => place' = Len(file')
      BY <1>1, <2>1 DEF Window
    <2>8. v'.last < BUFSIZE
      BY <1>2, <2>1, <2>3
    <2>9. Window'
      BY <1>1, <2>1, <2>6, <2>7, <2>8 DEF Window
    <2> QED
      BY <1>5, <2>1, <2>4, <2>5, <2>9
  <1> QED
    BY <1>4, <1>5

LEMMA WindowStep ==
    ASSUME GrepTypes, Window, [GrepNext]_grepVars
    PROVE  GrepTypes' /\ Window'
  <1>1. CASE UNCHANGED grepVars
    BY <1>1 DEF grepVars, GrepTypes, Window, Faithful, TextFile, Unsearched, Base
  <1> QED
    BY <1>1, OpenWindow, ReadWindow, ScanWindow, CarryWindow, SearchWindow, NextLineWindow
       DEF GrepNext

\* The lines that are printed, and the file and the pattern they are compared with.
LEMMA PrintedStep ==
    ASSUME [GrepNext]_grepVars
    PROVE  UNCHANGED <<s, file, stale>> /\ (Search \/ UNCHANGED printed)
  BY DEF GrepNext, grepVars, Open, Read, Scan, CarryOver, Search, NextLine

\* A piece without a newline that contains the pattern.
SoundLine(line) ==
    /\ Matches(line)
    /\ \E first \in 1 .. Len(file) + 1, last \in 0 .. Len(file) :
          NoNewline(first, last) /\ line = SubSeq(file, first, last)

LEMMA SoundStep ==
    ASSUME SoundInv, [GrepNext]_grepVars
    PROVE  SoundInv'
  <1>0. GrepTypes /\ Window /\ GrepTypes' /\ Window'
    BY WindowStep DEF SoundInv
  <1>2. UNCHANGED <<s, file>> /\ (Search \/ UNCHANGED printed)
    BY PrintedStep
  <1> SUFFICES ASSUME TextFile PROVE GrepSound'
    BY <1>0, <1>2 DEF SoundInv, GrepSound, TextFile
  <1>1. GrepTypes /\ Window /\ \A i \in DOMAIN printed : SoundLine(printed[i])
    BY <1>0 DEF SoundInv, GrepSound, SoundLine
  <1>3. \A i \in DOMAIN printed' : SoundLine(printed'[i])
    <2>1. CASE UNCHANGED printed
      BY <1>1, <2>1
    <2>2. CASE Search /\ ~UNCHANGED printed
      <3> DEFINE line == StringAt(v.line_start)
      <3>1. at = "cut_off" /\ Matches(line) /\ printed' = Append(printed, line)
        <4>1. at = "cut_off" /\ Matches(line) /\ printed' = Append(printed, CString(line))
          BY <2>2 DEF Search
        <4> QED
          BY <1>1, <4>1, StringIsPiece
      <3>2. SoundLine(line)
        <4> DEFINE first == Base + v.line_start + 1
                   last == Base + v.line_end
        <4>1. /\ line = SubSeq(file, first, last) /\ NoNewline(first, last)
              /\ first \in 1 .. Len(file) + 1 /\ last \in 0 .. Len(file)
          BY <1>1, <3>1, StringIsPiece DEF Piece
        <4> HIDE DEF first, last, line
        <4> QED
          BY <3>1, <4>1 DEF SoundLine
      <3>3. printed \in Seq(Seq(Chars)) /\ line \in Seq(Chars)
        BY <1>1, <3>1, StringIsPiece DEF GrepTypes
      <3> HIDE DEF line
      <3>4. \A i \in DOMAIN printed' :
                \/ i \in DOMAIN printed /\ printed'[i] = printed[i]
                \/ printed'[i] = line
        BY <3>1, <3>3
      <3> QED
        BY <1>1, <3>2, <3>4
    <2> QED
      BY <1>2, <2>1, <2>2
  <1>4. GrepSound'
    <2>1. \A i \in DOMAIN printed' : SoundLine(printed[i])'
      BY <1>2, <1>3 DEF SoundLine, Matches, NoNewline
    <2> QED
      BY <2>1 DEF GrepSound, SoundLine
  <1> QED
    BY <1>4

\* Of a file without a NUL: a line that grep prints contains the pattern and is a piece
\* of a line of the file, for every size of the buffer, every length of the lines and
\* whatever the stack held.
THEOREM GrepStaysSound == GrepSpec => []GrepSound
  <1>1. GrepInit => SoundInv
    <2>1. GrepInit => GrepSound
      BY DEF GrepInit, GrepSound
    <2> QED
      BY <2>1, GrepStart DEF SoundInv
  <1>2. SoundInv /\ [GrepNext]_grepVars => SoundInv'
    BY SoundStep
  <1>3. SoundInv => GrepSound
    BY DEF SoundInv
  <1> QED
    BY <1>1, <1>2, <1>3, PTL DEF GrepSpec

(***************************************************************************)
(* All of them, and in their order.  Up to where the search stands the     *)
(* lines that match have been printed.  It stands at the beginning of a    *)
(* line, or at the newline that ends one which has filled the buffer and   *)
(* has been printed already.                                               *)
(***************************************************************************)

\* The matching lines whose newline, or end of the file, is not behind a place.
LinesTo(k) == {l \in MatchingLines : l[2] < k}

BeginsBehind(k) == k = 0 \/ file[k] = NEWLINE
EndsBefore(k) == k = Len(file) + 1 \/ file[k] = NEWLINE

\* PrintedAre of a sequence that is not yet printed.
Lists(texts, lines) ==
    \E order \in [DOMAIN texts -> lines] :
        /\ lines = {order[i] : i \in DOMAIN texts}
        /\ \A i, j \in DOMAIN texts : i < j => order[i][1] < order[j][1]
        /\ \A i \in DOMAIN texts : texts[i] = Text(order[i])

PrintedTo(k) ==
    \/ BeginsBehind(k) /\ Lists(printed, LinesTo(k))
    \/ EndsBefore(k + 1) /\ Lists(printed, LinesTo(k + 1))

\* A line that ends between two places.
LEMMA LineBetween ==
    ASSUME GrepTypes, NEW a \in 1 .. Len(file) + 1, NEW b \in 0 .. Len(file), a <= b + 1,
           NoNewline(a, b), BeginsBehind(a - 1), EndsBefore(b + 1)
    PROVE  LinesTo(b + 1) = LinesTo(a - 1) \cup
               (IF Matches(SubSeq(file, a, b)) THEN {<<a, b>>} ELSE {})
  <1>0. Len(file) \in Nat
    BY LocalsAreNumbers
  <1>1. ASSUME NEW l \in Lines, ~(l[2] < a - 1), l[2] < b + 1
        PROVE  l = <<a, b>>
    <2>0. /\ l \in (1 .. Len(file) + 1) \X (0 .. Len(file)) /\ l[1] <= l[2] + 1
          /\ l[1] = 1 \/ file[l[1] - 1] = NEWLINE
          /\ l[2] = Len(file) \/ file[l[2] + 1] = NEWLINE
          /\ NoNewline(l[1], l[2])
      BY DEF Lines
    <2> DEFINE x == l[1]
               y == l[2]
    <2>1. x \in 1 .. Len(file) + 1 /\ y \in 0 .. Len(file) /\ l = <<x, y>> /\ x <= y + 1
      BY <2>0
    <2>2. /\ x = 1 \/ file[x - 1] = NEWLINE
          /\ y = Len(file) \/ file[y + 1] = NEWLINE
          /\ NoNewline(x, y)
      BY <2>0
    <2> HIDE DEF x, y
    <2>3. a - 1 <= y /\ y <= b
      BY <1>0, <1>1, <2>1 DEF y
    <2>4. y = b
      <3> SUFFICES ASSUME y < b PROVE FALSE
        BY <2>1, <2>3
      <3>1. y + 1 \in a .. b /\ y # Len(file)
        BY <1>0, <2>1, <2>3
      <3> QED
        BY <2>2, <3>1 DEF NoNewline
    <2>5. ~(x < a)
      <3> SUFFICES ASSUME x < a PROVE FALSE
        OBVIOUS
      <3>1. a - 1 \in x .. y /\ a - 1 # 0
        BY <1>0, <2>1, <2>3
      <3> QED
        BY <2>2, <3>1 DEF NoNewline, BeginsBehind
    <2>6. ~(a < x)
      <3> SUFFICES ASSUME a < x PROVE FALSE
        OBVIOUS
      <3>1. x - 1 \in a .. b /\ x # 1
        BY <1>0, <2>1, <2>4
      <3> QED
        BY <2>2, <3>1 DEF NoNewline
    <2> QED
      BY <1>0, <2>1, <2>4, <2>5, <2>6
  <1>2. <<a, b>> \in Lines
    <2>1. /\ a = 1 \/ file[a - 1] = NEWLINE
          /\ b = Len(file) \/ file[b + 1] = NEWLINE
      BY <1>0 DEF BeginsBehind, EndsBefore
    <2> QED
      BY <2>1 DEF Lines
  <1>3. Text(<<a, b>>) = SubSeq(file, a, b)
    BY DEF Text
  <1>4. ASSUME NEW l \in MatchingLines
        PROVE  l[2] < b + 1 <=> l[2] < a - 1 \/ l = <<a, b>>
    <2>1. l \in Lines /\ l[2] \in Nat
      BY DEF MatchingLines, Lines
    <2>2. l[2] < a - 1 => l[2] < b + 1
      BY <1>0, <2>1
    <2> QED
      BY <1>0, <1>1, <2>1, <2>2
  <1>5. <<a, b>> \in MatchingLines <=> Matches(SubSeq(file, a, b))
    BY <1>2, <1>3 DEF MatchingLines
  <1> QED
    BY <1>4, <1>5 DEF LinesTo

LEMMA EmptyMatchesNothing ==
    ASSUME GrepTypes, NEW line, Len(line) = 0
    PROVE  ~Matches(line)
  <1>1. Len(s) \in Nat /\ Len(s) > 0
    BY DEF GrepTypes
  <1>2. 0 .. Len(line) - Len(s) = {}
    BY <1>1
  <1> QED
    BY <1>2 DEF Matches

\* One more line at the end of the list.
LEMMA ListGrows ==
    ASSUME GrepTypes, NEW texts \in Seq(Seq(Chars)), NEW a \in 1 .. Len(file) + 1,
           NEW b \in 0 .. Len(file), <<a, b>> \in MatchingLines,
           NEW k, k = a - 1, Lists(texts, LinesTo(k)), SubSeq(file, a, b) \in Seq(Chars)
    PROVE  Lists(Append(texts, SubSeq(file, a, b)), LinesTo(k) \cup {<<a, b>>})
  <1> DEFINE old == LinesTo(k)
             all == old \cup {<<a, b>>}
             text == SubSeq(file, a, b)
             longer == Append(texts, text)
             n == Len(texts) + 1
  <1>1. PICK order \in [DOMAIN texts -> old] :
            /\ old = {order[i] : i \in DOMAIN texts}
            /\ \A i, j \in DOMAIN texts : i < j => order[i][1] < order[j][1]
            /\ \A i \in DOMAIN texts : texts[i] = Text(order[i])
    BY DEF Lists
  <1> DEFINE next == [i \in 1 .. n |-> IF i = n THEN <<a, b>> ELSE order[i]]
  <1>0. Text(<<a, b>>) = text
    BY DEF Text
  <1>2. \A l \in old : l[1] \in Nat /\ l[1] < a
    <2> SUFFICES ASSUME NEW l \in old PROVE l[1] \in Nat /\ l[1] < a
      OBVIOUS
    <2>1. /\ l \in (1 .. Len(file) + 1) \X (0 .. Len(file)) /\ l[1] <= l[2] + 1
          /\ l[2] < a - 1
      BY DEF LinesTo, MatchingLines, Lines
    <2>2. Len(file) \in Nat
      BY LocalsAreNumbers
    <2>3. l[1] \in Nat /\ l[2] \in Nat /\ a \in Nat
      BY <2>1, <2>2
    <2> QED
      BY ONLY <2>1, <2>3
  <1> HIDE DEF old, text
  <1>3. /\ n \in Nat /\ DOMAIN texts = 1 .. n - 1 /\ DOMAIN longer = 1 .. n
        /\ longer[n] = text /\ \A i \in 1 .. n - 1 : longer[i] = texts[i]
    <2>1. texts \in Seq(Seq(Chars)) /\ text \in Seq(Chars)
      BY DEF text
    <2>2. /\ Len(texts) \in Nat /\ DOMAIN texts = 1 .. Len(texts)
          /\ DOMAIN longer = 1 .. Len(texts) + 1 /\ longer[Len(texts) + 1] = text
          /\ \A i \in 1 .. Len(texts) : longer[i] = texts[i]
      BY ONLY <2>1
    <2>3. Len(texts) + 1 - 1 = Len(texts)
      BY ONLY <2>2
    <2> HIDE DEF longer
    <2> QED
      BY ONLY <2>2, <2>3
  <1> HIDE DEF n, longer
  <1>4. \A i \in 1 .. n : i # n => i \in 1 .. n - 1
    BY <1>3
  <1>5. next \in [1 .. n -> all]
    <2>1. \A i \in 1 .. n : (IF i = n THEN <<a, b>> ELSE order[i]) \in all
      <3> TAKE i \in 1 .. n
      <3>1. CASE i = n
        BY <3>1
      <3>2. CASE i # n
        <4>1. order[i] \in old
          BY <1>1, <1>3, <1>4, <3>2
        <4> QED
          BY <3>2, <4>1
      <3> QED
        BY <3>1, <3>2
    <2> HIDE DEF all
    <2> QED
      BY <2>1
  <1>6. /\ next[n] = <<a, b>> /\ n \in 1 .. n
        /\ \A i \in 1 .. n - 1 : next[i] = order[i] /\ i \in 1 .. n /\ order[i] \in old
    <2>1. n \in 1 .. n
      BY <1>3, <1>1 DEF n
    <2>2. \A i \in 1 .. n : next[i] = IF i = n THEN <<a, b>> ELSE order[i]
      OBVIOUS
    <2> HIDE DEF next
    <2>3. n \in Nat /\ DOMAIN texts = 1 .. n - 1
      BY <1>3
    <2>4. \A i \in 1 .. n - 1 : i \in 1 .. n /\ i # n
      BY ONLY <2>3
    <2>5. \A i \in 1 .. n - 1 : order[i] \in old
      BY ONLY <2>3, order \in [DOMAIN texts -> old]
    <2> QED
      BY ONLY <2>1, <2>2, <2>4, <2>5
  <1> HIDE DEF next
  <1>7. all = {next[i] : i \in 1 .. n}
    BY <1>1, <1>3, <1>4, <1>6
  <1>8. \A i, j \in 1 .. n : i < j => next[i][1] < next[j][1]
    <2> SUFFICES ASSUME NEW i \in 1 .. n, NEW j \in 1 .. n, i < j
                 PROVE  next[i][1] < next[j][1]
      OBVIOUS
    <2>1. i \in 1 .. n - 1
      BY <1>3
    <2>2. CASE j = n
      BY <1>2, <1>6, <2>1, <2>2
    <2>3. CASE j # n
      BY <1>1, <1>3, <1>4, <1>6, <2>1, <2>3
    <2> QED
      BY <2>2, <2>3
  <1>9. \A i \in 1 .. n : longer[i] = Text(next[i])
    BY <1>0, <1>1, <1>3, <1>4, <1>6
  <1> QED
    BY <1>3, <1>5, <1>7, <1>8, <1>9 DEF Lists, longer, text, old

\* Wherever the search of a line ends, a line of the file ends there.
LEMMA SearchEndsLine ==
    ASSUME GrepTypes, Window, TextFile, Search, NoLongLine, data[BUFSIZE] # NEWLINE
    PROVE  /\ EndsBefore(Base + v.line_end + 1)
           /\ v.line_end < v.last => file[Base + v.line_end + 1] = NEWLINE
  <1> DEFINE b == v.line_end
  <1>1. at = "cut_off" /\ ~CutOff
    BY DEF Search
  <1>2. /\ b \in Nat /\ v.last \in Nat /\ b <= v.last /\ v.last <= BUFSIZE /\ BUFSIZE \in Nat
        /\ Base \in Nat /\ Base + v.last = place /\ place <= Len(file) /\ Len(file) \in Nat
        /\ v.line_start \in Nat /\ BUFSIZE > 0
    BY <1>1, LocalsAreNumbers DEF Window
  <1>3. b < v.last => file[Base + b + 1] = NEWLINE
    <2> SUFFICES ASSUME b < v.last PROVE file[Base + b + 1] = NEWLINE
      OBVIOUS
    <2>1. data[b] = NEWLINE
      BY <1>1, <1>2 DEF Window
    <2>2. Unsearched = v.line_start /\ v.line_start <= b
      BY <1>1 DEF Unsearched, Window
    <2>3. b \in Unsearched .. v.last - 1
      BY <1>2, <2>2
    <2>4. data[b] = file[Base + 1 + b]
      BY <2>3 DEF Window, Faithful
    <2> QED
      BY <1>2, <2>1, <2>4
  <1>4. CASE b < v.last
    BY <1>3, <1>4 DEF EndsBefore
  <1>5. CASE b = v.last /\ place = Len(file)
    <2>1. Base + b + 1 = Len(file) + 1
      BY <1>2, <1>5
    <2> QED
      BY <1>3, <2>1 DEF EndsBefore
  <1>6. CASE b = v.last /\ place # Len(file)
    <2>1. v.last = BUFSIZE /\ v.cnt # 0
      BY <1>1, <1>6 DEF Window
    <2>2. v.line_start = 0
      BY <1>1, <1>6, <2>1 DEF CutOff
    <2>3. NoNewline(Base + 1, Base + BUFSIZE)
      <3>1. NoNewline(Base + v.line_start + 1, Base + b)
        BY <1>1, StringIsPiece
      <3> QED
        BY <1>2, <1>6, <2>1, <2>2, <3>1
    <2>4. Base + 1 \in 1 .. Len(file) - BUFSIZE
      BY <1>2, <1>6, <2>1
    <2>5. PICK j \in Base + 1 .. Base + 1 + BUFSIZE : file[j] = NEWLINE
      BY <2>4 DEF NoLongLine
    <2>6. j = Base + BUFSIZE + 1
      BY <1>2, <2>3, <2>5 DEF NoNewline
    <2>7. Base + b + 1 = j
      BY <1>2, <1>6, <2>1, <2>6
    <2>8. file[Base + b + 1] = NEWLINE
      BY <2>5, <2>7
    <2> QED
      BY <1>3, <2>8 DEF EndsBefore
  <1> QED
    BY <1>2, <1>4, <1>5, <1>6

\* After the search every matching line up to the end of this one has been printed.
LEMMA SearchPrints ==
    ASSUME GrepTypes, Window, TextFile, Search, NoLongLine, data[BUFSIZE] # NEWLINE,
           PrintedTo(Base + v.line_start)
    PROVE  Lists(printed', LinesTo(Base + v.line_end + 1))
  <1> DEFINE a == Base + v.line_start + 1
             b == Base + v.line_end
             line == StringAt(v.line_start)
  <1>1. /\ at = "cut_off"
        /\ printed' = IF Matches(line) THEN Append(printed, line) ELSE printed
    <2>1. /\ at = "cut_off"
          /\ printed' = IF Matches(line) THEN Append(printed, CString(line)) ELSE printed
      BY DEF Search
    <2> QED
      BY <2>1, StringIsPiece
  <1>2. /\ line = SubSeq(file, a, b) /\ line \in Seq(Chars)
        /\ Len(line) = v.line_end - v.line_start
        /\ NoNewline(a, b) /\ a \in 1 .. Len(file) + 1 /\ b \in 0 .. Len(file)
    BY <1>1, StringIsPiece DEF Piece
  <1>3. /\ v.line_start \in Nat /\ v.line_end \in Nat /\ v.line_start <= v.line_end
        /\ Base \in Nat /\ Len(file) \in Nat /\ v.last \in Nat /\ v.line_end <= v.last
        /\ Base + v.last = place /\ place <= Len(file)
    BY <1>1, LocalsAreNumbers DEF Window
  <1>4. EndsBefore(b + 1)
    BY SearchEndsLine
  <1>5. printed \in Seq(Seq(Chars))
    BY DEF GrepTypes
  <1>6. a - 1 = Base + v.line_start /\ a <= b + 1
    BY <1>3
  <1>7. (BeginsBehind(a - 1) /\ Lists(printed, LinesTo(a - 1)))
        \/ (EndsBefore(a) /\ Lists(printed, LinesTo(a)))
    BY <1>6 DEF PrintedTo
  <1> SUFFICES Lists(printed', LinesTo(b + 1))
    OBVIOUS
  <1> HIDE DEF a, b, line
  <1>8. CASE BeginsBehind(a - 1) /\ Lists(printed, LinesTo(a - 1))
    <2>1. LinesTo(b + 1) = LinesTo(a - 1) \cup (IF Matches(line) THEN {<<a, b>>} ELSE {})
      BY <1>2, <1>4, <1>6, <1>8, LineBetween
    <2>2. CASE Matches(line)
      <3>1. <<a, b>> \in MatchingLines
        BY <2>1, <2>2 DEF LinesTo
      <3>2. /\ GrepTypes /\ printed \in Seq(Seq(Chars))
            /\ a \in 1 .. Len(file) + 1 /\ b \in 0 .. Len(file)
            /\ Lists(printed, LinesTo(a - 1)) /\ SubSeq(file, a, b) \in Seq(Chars)
        BY <1>2, <1>5, <1>8
      <3>3. Lists(Append(printed, SubSeq(file, a, b)), LinesTo(a - 1) \cup {<<a, b>>})
        <4> DEFINE k == a - 1
        <4>1. k = a - 1 /\ Lists(printed, LinesTo(k))
          BY <3>2
        <4> HIDE DEF k
        <4>2. Lists(Append(printed, SubSeq(file, a, b)), LinesTo(k) \cup {<<a, b>>})
          BY ONLY <3>1, <3>2, <4>1, ListGrows
        <4> QED
          BY ONLY <4>2 DEF k
      <3>4. /\ printed' = Append(printed, SubSeq(file, a, b))
            /\ LinesTo(b + 1) = LinesTo(a - 1) \cup {<<a, b>>}
        BY <1>1, <1>2, <2>1, <2>2
      <3> QED
        BY ONLY <3>3, <3>4
    <2>3. CASE ~Matches(line)
      BY <1>1, <1>8, <2>1, <2>3
    <2> QED
      BY <2>2, <2>3
  <1>9. CASE EndsBefore(a) /\ Lists(printed, LinesTo(a))
    <2>1. v.line_end = v.line_start
      <3> SUFFICES ASSUME v.line_start < v.line_end PROVE FALSE
        BY <1>3
      <3>1. a \in a .. b /\ a # Len(file) + 1
        <4> DEFINE base == Base
                   start == v.line_start
                   end == v.line_end
                   last == v.last
                   size == Len(file)
        <4>1. /\ base \in Nat /\ start \in Nat /\ end \in Nat /\ last \in Nat
              /\ size \in Nat /\ start < end /\ end <= last /\ base + last <= size
          BY <1>3
        <4>2. a = base + start + 1 /\ b = base + end
          BY DEF a, b
        <4> HIDE DEF base, start, end, last, size
        <4>3. a \in a .. b /\ a # size + 1
          BY ONLY <4>1, <4>2
        <4> QED
          BY ONLY <4>3 DEF size
      <3> QED
        BY <1>2, <1>9, <3>1 DEF NoNewline, EndsBefore
    <2>2. ~Matches(line)
      <3>1. Len(line) = 0
        BY <1>2, <1>3, <2>1
      <3> QED
        BY <3>1, EmptyMatchesNothing
    <2>3. a = b + 1
      BY <2>1 DEF a, b
    <2> QED
      BY <1>1, <1>9, <2>2, <2>3
  <1> QED
    BY <1>7, <1>8, <1>9

\* What the stack behind the buffer holds.
LEMMA ByteBehind ==
    ASSUME GrepTypes, Window, TextFile, data[BUFSIZE] # NEWLINE, [GrepNext]_grepVars
    PROVE  data'[BUFSIZE] # NEWLINE
  <1>0. /\ v.last \in Nat /\ v.last <= BUFSIZE /\ BUFSIZE \in Nat /\ BUFSIZE \in 0 .. BUFSIZE
        /\ place \in Nat /\ place <= Len(file) /\ Len(file) \in Nat
        /\ v.line_end \in Nat /\ v.line_start \in Nat /\ v.line_end <= BUFSIZE
    BY LocalsAreNumbers
  <1>1. CASE Read
    <2> DEFINE cnt == Smaller(BUFSIZE - v.last, Len(file) - place)
    <2>1. data' = [i \in 0 .. BUFSIZE |->
                      IF i - v.last \in 0 .. cnt - 1 THEN file[place + 1 + i - v.last]
                      ELSE data[i]]
      BY <1>1 DEF Read
    <2>2. cnt \in Nat /\ cnt <= BUFSIZE - v.last
      BY <1>0 DEF Smaller
    <2> HIDE DEF cnt
    <2>3. BUFSIZE - v.last \notin 0 .. cnt - 1
      BY <1>0, <2>2
    <2> QED
      BY <1>0, <2>1, <2>3
  <1>2. CASE CarryOver
    <2> DEFINE piece == CString(StringAt(v.line_start))
    <2>1. /\ at = "cut_off"
          /\ data' = [i \in 0 .. BUFSIZE |->
                          IF i < Len(piece) THEN piece[i + 1]
                          ELSE IF i \in {Len(piece), v.line_end} THEN NULBYTE ELSE data[i]]
      BY <1>2 DEF CarryOver
    <2>2. Len(piece) = v.line_end - v.line_start
      BY <2>1, StringIsPiece, StringHere
    <2> HIDE DEF piece
    <2>3. ~(BUFSIZE < Len(piece))
      BY <1>0, <2>2
    <2> QED
      BY <1>0, <2>1, <2>3, CharsAreBytes
  <1>3. CASE Search
    <2>1. data' = [data EXCEPT ![v.line_end] = NULBYTE] /\ data \in [0 .. BUFSIZE -> Chars]
      BY <1>3 DEF Search, GrepTypes
    <2> QED
      BY <1>0, <2>1, CharsAreBytes
  <1>4. CASE UNCHANGED data
    BY <1>4
  <1>5. Read \/ CarryOver \/ Search \/ UNCHANGED data
    BY DEF GrepNext, grepVars, Open, Scan, NextLine
  <1> QED
    BY <1>1, <1>2, <1>3, <1>4, <1>5

\* Up to which place of the file every matching line has been printed.
Searched ==
    CASE at \in {"scan", "cut_off"} -> Base + v.line_start
      [] at = "next_line" -> Base + Smaller(v.line_end + 1, v.last)
      [] OTHER -> Base

ExactInv ==
    /\ GrepTypes /\ Window
    /\ at = "done" => v.last = 0
    /\ TextFile /\ stale # NEWLINE /\ NoLongLine => data[BUFSIZE] # NEWLINE /\ PrintedTo(Searched)

\* Nothing is printed and the search stands where it stood.
LEMMA SearchStands ==
    ASSUME UNCHANGED <<s, file>>, NEW k,
           \/ BeginsBehind(k) /\ Lists(printed', LinesTo(k))
           \/ EndsBefore(k + 1) /\ Lists(printed', LinesTo(k + 1)),
           Searched' = k
    PROVE  PrintedTo(Searched)'
  <1>1. Lines' = Lines
    BY DEF Lines, NoNewline
  <1>2. MatchingLines' = MatchingLines
    BY <1>1 DEF MatchingLines, Matches, Text
  <1>3. \A c : LinesTo(c)' = LinesTo(c)
    BY <1>2 DEF LinesTo
  <1>4. ASSUME NEW lines PROVE Lists(printed, lines)' <=> Lists(printed', lines)
    BY DEF Lists, Text
  <1>5. PrintedTo(k)'
    BY <1>3, <1>4 DEF PrintedTo, BeginsBehind, EndsBefore
  <1> QED
    BY <1>5

LEMMA ExactStep ==
    ASSUME ExactInv, [GrepNext]_grepVars
    PROVE  ExactInv'
  <1>0. GrepTypes /\ Window /\ GrepTypes' /\ Window'
    BY WindowStep DEF ExactInv
  <1>1. UNCHANGED <<s, file, stale>> /\ (Search \/ UNCHANGED printed)
    BY PrintedStep
  <1>2. at' = "done" => v'.last = 0
    <2>1. CASE NextLine
      <3>1. v \in [last : 0 .. BUFSIZE, line_start : Nat, line_end : 0 .. BUFSIZE, cnt : Nat]
        BY <1>0 DEF GrepTypes
      <3> QED
        BY <2>1, <3>1 DEF NextLine
    <2>2. CASE UNCHANGED grepVars
      BY <2>2 DEF grepVars, ExactInv
    <2>3. CASE ~NextLine /\ ~UNCHANGED grepVars
      BY <2>3 DEF GrepNext, Open, Read, Scan, CarryOver, Search
    <2> QED
      BY <2>1, <2>2, <2>3
  <1>3. (NoLongLine' <=> NoLongLine) /\ (TextFile' <=> TextFile)
    BY <1>1 DEF NoLongLine, TextFile
  <1> SUFFICES ASSUME TextFile, stale # NEWLINE, NoLongLine
               PROVE  data'[BUFSIZE] # NEWLINE /\ PrintedTo(Searched)'
    BY <1>0, <1>1, <1>2, <1>3 DEF ExactInv
  <1>4. data[BUFSIZE] # NEWLINE /\ PrintedTo(Searched)
    BY DEF ExactInv
  <1>5. data'[BUFSIZE] # NEWLINE
    BY <1>0, <1>4, ByteBehind
  <1> SUFFICES PrintedTo(Searched)'
    BY <1>5
  <1>6. ASSUME UNCHANGED printed, Searched' = Searched
        PROVE  PrintedTo(Searched)'
    BY <1>1, <1>4, <1>6, SearchStands DEF PrintedTo
  <1>7. CASE Open
    <2>1. Searched' = Searched
      BY <1>7 DEF Open, Searched, Base
    <2> QED
      BY <1>6, <1>7, <2>1 DEF Open
  <1>8. CASE Read
    <2>1. Base' = Base /\ v'.line_start = 0 /\ at = "read" /\ at' = "scan" /\ Base \in Nat
      BY <1>0, <1>8, ReadWindow, LocalsAreNumbers DEF Read
    <2>2. Searched' = Searched
      BY <2>1 DEF Searched
    <2> QED
      BY <1>6, <1>8, <2>2 DEF Read
  <1>9. CASE Scan
    <2>1. Base' = Base /\ v'.line_start = v.line_start
      BY <1>0, <1>9, ScanWindow
    <2>2. at = "scan" /\ at' \in {"scan", "cut_off"}
      BY <1>9 DEF Scan
    <2>3. Searched' = Searched
      BY <2>1, <2>2 DEF Searched
    <2> QED
      BY <1>6, <1>9, <2>3 DEF Scan
  <1>10. CASE CarryOver
    <2>1. Base' = Base + v.line_start /\ at = "cut_off" /\ at' = "read"
      BY <1>0, <1>10, CarryWindow DEF CarryOver
    <2>2. Searched' = Searched
      BY <2>1 DEF Searched
    <2> QED
      BY <1>6, <1>10, <2>2 DEF CarryOver
  <1>11. CASE Search
    <2> DEFINE k == Base + Smaller(v.line_end + 1, v.last)
    <2>1. /\ at = "cut_off" /\ at' = "next_line" /\ Base' = Base /\ v' = v
      BY <1>0, <1>11, SearchWindow DEF Search
    <2>2. Searched = Base + v.line_start
      BY <2>1 DEF Searched
    <2>3. Lists(printed', LinesTo(Base + v.line_end + 1))
      BY <1>0, <1>4, <1>11, <2>2, SearchPrints
    <2>4. /\ EndsBefore(Base + v.line_end + 1)
          /\ v.line_end < v.last => file[Base + v.line_end + 1] = NEWLINE
      BY <1>0, <1>4, <1>11, SearchEndsLine
    <2>5. /\ v.line_end \in Nat /\ v.last \in Nat /\ Base \in Nat /\ v.line_end <= v.last
      BY <1>0, <2>1, LocalsAreNumbers DEF Window
    <2>6. Searched' = k
      BY <2>1 DEF Searched
    <2>7. CASE v.line_end < v.last
      <3>1. k = Base + v.line_end + 1
        BY <2>5, <2>7 DEF Smaller
      <3>2. BeginsBehind(k) /\ Lists(printed', LinesTo(k))
        BY <2>3, <2>4, <2>7, <3>1 DEF BeginsBehind
      <3> HIDE DEF k
      <3> QED
        BY <1>1, <2>6, <3>2, SearchStands
    <2>8. CASE ~(v.line_end < v.last)
      <3>1. k + 1 = Base + v.line_end + 1
        BY <2>5, <2>8 DEF Smaller
      <3>2. EndsBefore(k + 1) /\ Lists(printed', LinesTo(k + 1))
        BY <2>3, <2>4, <3>1
      <3> HIDE DEF k
      <3> QED
        BY <1>1, <2>6, <3>2, SearchStands
    <2> QED
      BY <2>7, <2>8
  <1>12. CASE NextLine
    <2>1. at = "next_line" /\ UNCHANGED printed
      BY <1>12 DEF NextLine
    <2>2. /\ v.line_end \in Nat /\ v.last \in Nat /\ Base \in Nat /\ Base + v.last = place
      BY <1>0, LocalsAreNumbers
    <2>3. CASE v.line_end + 1 < v.last
      <3>1. Base' = Base /\ v'.line_start = v.line_end + 1 /\ at' = "scan"
        BY <1>0, <1>12, <2>3, NextLineWindow
      <3>2. Searched' = Searched
        BY <2>1, <2>2, <2>3, <3>1 DEF Searched, Smaller
      <3> QED
        BY <1>6, <2>1, <3>2
    <2>4. CASE ~(v.line_end + 1 < v.last)
      <3>1. Base' = place /\ at' \in {"read", "done"}
        BY <1>0, <1>12, <2>4, NextLineWindow
      <3>2. Smaller(v.line_end + 1, v.last) = v.last
        BY <2>2, <2>4 DEF Smaller
      <3>3. Searched' = Searched
        BY <2>1, <2>2, <3>1, <3>2 DEF Searched
      <3> QED
        BY <1>6, <2>1, <3>3
    <2> QED
      BY <2>3, <2>4
  <1>13. CASE UNCHANGED grepVars
    <2>1. Searched' = Searched /\ UNCHANGED printed
      BY <1>13 DEF grepVars, Searched, Base
    <2> QED
      BY <1>6, <2>1
  <1> QED
    BY <1>7, <1>8, <1>9, <1>10, <1>11, <1>12, <1>13 DEF GrepNext

LEMMA NothingListed ==
    ASSUME GrepTypes
    PROVE  Lists(<<>>, LinesTo(0))
  <1>1. LinesTo(0) = {}
    BY LocalsAreNumbers DEF LinesTo, MatchingLines, Lines
  <1>2. DOMAIN <<>> = {}
    OBVIOUS
  <1>3. [i \in {} |-> 0] \in [{} -> LinesTo(0)] /\ {[j \in {} |-> 0][i] : i \in {}} = {}
    OBVIOUS
  <1> QED
    BY <1>1, <1>2, <1>3 DEF Lists

\* At the end of the file everything has been searched.
LEMMA AllListed ==
    ASSUME GrepTypes, PrintedTo(Len(file))
    PROVE  Lists(printed, MatchingLines)
  <1> DEFINE n == Len(file)
  <1>1. n \in Nat
    BY LocalsAreNumbers
  <1>2. MatchingLines = LinesTo(n + 1)
    <2>1. \A l \in MatchingLines : l[2] \in 0 .. n
      BY DEF MatchingLines, Lines
    <2> QED
      BY <1>1, <2>1 DEF LinesTo
  <1>3. CASE BeginsBehind(n) /\ Lists(printed, LinesTo(n))
    <2>1. NoNewline(n + 1, n) /\ EndsBefore(n + 1) /\ (n + 1) - 1 = n
      BY <1>1 DEF NoNewline, EndsBefore
    <2>2. LinesTo(n + 1) = LinesTo(n) \cup
              (IF Matches(SubSeq(file, n + 1, n)) THEN {<<n + 1, n>>} ELSE {})
      <3> DEFINE a == n + 1
      <3>1. a \in 1 .. n + 1 /\ n \in 0 .. n /\ a <= n + 1 /\ a - 1 = n
        BY <1>1
      <3> HIDE DEF a
      <3> QED
        BY <1>3, <2>1, <3>1, LineBetween DEF a
    <2>3. Len(SubSeq(file, n + 1, n)) = 0
      BY <1>1 DEF GrepTypes
    <2> QED
      BY <1>2, <1>3, <2>2, <2>3, EmptyMatchesNothing
  <1>4. CASE EndsBefore(n + 1) /\ Lists(printed, LinesTo(n + 1))
    BY <1>2, <1>4
  <1> QED
    BY <1>3, <1>4 DEF PrintedTo

\* Where the file holds no NUL, no line is longer than the buffer and the byte behind
\* the buffer is no newline by chance, grep prints the lines that contain the pattern:
\* all of them, each once, whole and in their order, for every size of the buffer,
\* every pattern and every such file, wherever the reads cut its lines.
THEOREM GrepStaysExact == GrepSpec => []GrepExact
  <1>1. GrepInit => ExactInv
    <2> SUFFICES ASSUME GrepInit PROVE ExactInv
      OBVIOUS
    <2>1. GrepTypes /\ Window
      BY GrepStart
    <2>2. /\ at = "open" /\ printed = <<>> /\ place = 0 /\ v.last = 0
          /\ data[BUFSIZE] = stale
      BY GrepAssumption DEF GrepInit
    <2>3. Searched = 0
      BY <2>2 DEF Searched, Base
    <2>4. PrintedTo(0)
      BY <2>1, <2>2, NothingListed DEF PrintedTo, BeginsBehind
    <2> QED
      BY <2>1, <2>2, <2>3, <2>4 DEF ExactInv
  <1>2. ExactInv /\ [GrepNext]_grepVars => ExactInv'
    BY ExactStep
  <1>3. ExactInv => GrepExact
    <2> SUFFICES ASSUME ExactInv, at = "done", TextFile, stale # NEWLINE, NoLongLine
                 PROVE  PrintedAre(MatchingLines)
      BY DEF GrepExact
    <2>1. GrepTypes /\ place = Len(file) /\ v.last = 0
      BY DEF ExactInv, Window
    <2>2. Searched = Len(file)
      BY <2>1, LocalsAreNumbers DEF Searched, Base
    <2>3. PrintedTo(Len(file))
      BY <2>2 DEF ExactInv
    <2> QED
      BY <2>1, <2>3, AllListed DEF Lists, PrintedAre
  <1> QED
    BY <1>1, <1>2, <1>3, PTL DEF GrepSpec

(***************************************************************************)
(* It comes to the end of the file: what is left to read and what is left  *)
(* to do with the buffer are numbers, and every step makes the pair of     *)
(* them smaller.                                                           *)
(***************************************************************************)
Nearer == Rounds' < Rounds \/ (Rounds' = Rounds /\ Steps' < Steps)

LEMMA RoundsAndSteps ==
    ASSUME GrepTypes
    PROVE  Rounds \in Nat /\ Steps \in Nat
  <1>1. /\ place \in Nat /\ Len(file) \in Nat /\ place <= Len(file)
        /\ v.line_end \in Nat /\ BUFSIZE \in Nat /\ v.line_end <= BUFSIZE
    BY LocalsAreNumbers
  <1>2. Len(file) - place \in Nat /\ BUFSIZE + 1 - v.line_end \in Nat
    BY <1>1
  <1>3. Rounds \in Nat
    BY <1>2 DEF Rounds
  <1>4. Steps \in Nat
    <2> DEFINE left == BUFSIZE + 1 - v.line_end
    <2>1. 3 * left + 2 \in Nat /\ 3 * left + 1 \in Nat /\ 3 * left \in Nat
      <3> HIDE DEF left
      <3> QED
        BY <1>2 DEF left
    <2>2. /\ at = "scan" => Steps = 3 * left + 2
          /\ at = "cut_off" => Steps = 3 * left + 1
          /\ at = "next_line" => Steps = 3 * left
          /\ at = "open" => Steps = 1
          /\ at \notin {"scan", "cut_off", "next_line", "open"} => Steps = 0
      BY DEF Steps
    <2> QED
      BY ONLY <2>1, <2>2
  <1> QED
    BY <1>3, <1>4

LEMMA StepIsNearer ==
    ASSUME GrepTypes, Window, GrepNext
    PROVE  Nearer
  <1>1. /\ place \in Nat /\ Len(file) \in Nat /\ place <= Len(file)
        /\ v.line_end \in Nat /\ BUFSIZE \in Nat /\ v.line_end <= BUFSIZE /\ v.cnt \in Nat
    BY LocalsAreNumbers
  <1>2. v \in [last : 0 .. BUFSIZE, line_start : Nat, line_end : 0 .. BUFSIZE, cnt : Nat]
    BY DEF GrepTypes
  <1>3. Len(file) - place \in Nat
    BY <1>1
  <1>4. UNCHANGED file
    BY DEF GrepNext, Open, Read, Scan, CarryOver, Search, NextLine
  <1>5. CASE Open
    <2>1. at = "open" /\ at' \in {"read", "failed"} /\ UNCHANGED <<place, v>>
      BY <1>5 DEF Open
    <2>2. Rounds = Len(file) - place + 1 /\ Steps = 1 /\ Steps' = 0
      BY <2>1 DEF Rounds, Steps
    <2>3. Rounds' = 0 \/ Rounds' = Len(file) - place + 1
      BY <1>4, <2>1 DEF Rounds
    <2> QED
      BY <1>3, <2>2, <2>3 DEF Nearer
  <1>6. CASE Read
    <2> DEFINE cnt == Smaller(BUFSIZE - v.last, Len(file) - place)
    <2>1. /\ at = "read" /\ at' = "scan" /\ place' = place + cnt
          /\ v' = [v EXCEPT !.cnt = cnt, !.last = @ + cnt, !.line_start = 0, !.line_end = 0]
      BY <1>6 DEF Read
    <2>2. cnt \in Nat
      <3>1. v.last \in Nat /\ v.last <= BUFSIZE
        BY LocalsAreNumbers
      <3> QED
        BY <1>1, <3>1 DEF Smaller
    <2> HIDE DEF cnt
    <2>3. v'.cnt = cnt
      BY <1>2, <2>1
    <2>4. Rounds = Len(file) - place + 1
      BY <2>1 DEF Rounds
    <2>5. Rounds' = Len(file) - (place + cnt) + (IF cnt = 0 THEN 0 ELSE 1)
      BY <1>4, <2>1, <2>3 DEF Rounds
    <2>6. Rounds' < Rounds
      BY <1>1, <2>2, <2>4, <2>5
    <2> QED
      BY <2>6 DEF Nearer
  <1>7. CASE Scan
    <2>1. at = "scan" /\ UNCHANGED place
      BY <1>7 DEF Scan
    <2>2. CASE v' = [v EXCEPT !.line_end = @ + 1] /\ UNCHANGED at
      <3>1. v'.line_end = v.line_end + 1 /\ v'.cnt = v.cnt
        BY <1>2, <2>2
      <3>2. Rounds' = Rounds
        BY <1>4, <2>1, <2>2, <3>1 DEF Rounds
      <3>3. /\ Steps = 3 * (BUFSIZE + 1 - v.line_end) + 2
            /\ Steps' = 3 * (BUFSIZE + 1 - (v.line_end + 1)) + 2
        BY <2>1, <2>2, <3>1 DEF Steps
      <3>4. Steps' < Steps
        <4> DEFINE m == BUFSIZE + 1 - v.line_end
        <4>1. m \in Nat /\ BUFSIZE + 1 - (v.line_end + 1) = m - 1
          BY <1>1
        <4> HIDE DEF m
        <4>2. 3 * (m - 1) + 2 < 3 * m + 2
          BY ONLY <4>1
        <4> QED
          BY <3>3, <4>1, <4>2 DEF m
      <3> QED
        BY <3>2, <3>4 DEF Nearer
    <2>3. CASE at' = "cut_off" /\ UNCHANGED v
      <3>1. Rounds' = Rounds
        BY <1>4, <2>1, <2>3 DEF Rounds
      <3>2. /\ Steps = 3 * (BUFSIZE + 1 - v.line_end) + 2
            /\ Steps' = 3 * (BUFSIZE + 1 - v.line_end) + 1
        BY <2>1, <2>3 DEF Steps
      <3>3. Steps' < Steps
        BY <1>1, <3>2
      <3> QED
        BY <3>1, <3>3 DEF Nearer
    <2> QED
      BY <1>7, <2>2, <2>3 DEF Scan
  <1>8. CASE CarryOver
    <2>1. /\ at = "cut_off" /\ at' = "read" /\ UNCHANGED place /\ v.cnt # 0
      BY <1>8 DEF CarryOver, CutOff
    <2>2. Rounds = Len(file) - place + 1 /\ Rounds' = Len(file) - place + 1
      BY <1>4, <2>1 DEF Rounds
    <2>3. Steps = 3 * (BUFSIZE + 1 - v.line_end) + 1 /\ Steps' = 0
      BY <2>1 DEF Steps
    <2>4. Steps' < Steps
      BY <1>1, <2>3
    <2> QED
      BY <2>2, <2>4 DEF Nearer
  <1>9. CASE Search
    <2>1. at = "cut_off" /\ at' = "next_line" /\ UNCHANGED <<place, v>>
      BY <1>9 DEF Search
    <2>2. Rounds' = Rounds
      BY <1>4, <2>1 DEF Rounds
    <2>3. /\ Steps = 3 * (BUFSIZE + 1 - v.line_end) + 1
          /\ Steps' = 3 * (BUFSIZE + 1 - v.line_end)
      BY <2>1 DEF Steps
    <2>4. Steps' < Steps
      BY <1>1, <2>3
    <2> QED
      BY <2>2, <2>4 DEF Nearer
  <1>10. CASE NextLine
    <2>1. at = "next_line" /\ UNCHANGED place
      BY <1>10 DEF NextLine
    <2>2. Steps = 3 * (BUFSIZE + 1 - v.line_end) /\ Steps > 0
      <3>1. Steps = 3 * (BUFSIZE + 1 - v.line_end)
        BY <2>1 DEF Steps
      <3> QED
        BY <1>1, <3>1
    <2>3. CASE v.line_end + 1 < v.last
      <3>1. /\ at' = "scan"
            /\ v' = [v EXCEPT !.line_start = v.line_end + 1, !.line_end = v.line_end + 1]
        BY <1>10, <2>3 DEF NextLine
      <3>2. v'.line_end = v.line_end + 1 /\ v'.cnt = v.cnt
        BY <1>2, <3>1
      <3>3. Rounds' = Rounds
        BY <1>4, <2>1, <3>1, <3>2 DEF Rounds
      <3>4. Steps' = 3 * (BUFSIZE + 1 - (v.line_end + 1)) + 2
        BY <3>1, <3>2 DEF Steps
      <3>5. Steps' < Steps
        <4> DEFINE m == BUFSIZE + 1 - v.line_end
        <4>1. m \in Nat /\ BUFSIZE + 1 - (v.line_end + 1) = m - 1
          BY <1>1
        <4> HIDE DEF m
        <4>2. 3 * (m - 1) + 2 < 3 * m
          BY ONLY <4>1
        <4> QED
          BY <2>2, <3>4, <4>1, <4>2 DEF m
      <3> QED
        BY <3>3, <3>5 DEF Nearer
    <2>4. CASE ~(v.line_end + 1 < v.last)
      <3>1. at' = IF v.cnt = 0 THEN "done" ELSE "read"
        BY <1>10, <2>4 DEF NextLine
      <3>2. Steps' = 0
        BY <3>1 DEF Steps
      <3>3. Rounds' = 0 \/ Rounds' = Rounds
        BY <1>4, <2>1, <3>1 DEF Rounds
      <3>4. Rounds \in Nat
        BY RoundsAndSteps
      <3> QED
        BY <2>2, <3>2, <3>3, <3>4 DEF Nearer
    <2> QED
      BY <2>3, <2>4
  <1> QED
    BY <1>5, <1>6, <1>7, <1>8, <1>9, <1>10 DEF GrepNext

LEMMA RoundsAndStepsNext ==
    ASSUME GrepTypes'
    PROVE  Rounds' \in Nat /\ Steps' \in Nat
  <1>1. (GrepTypes => Rounds \in Nat /\ Steps \in Nat)'
    BY RoundsAndSteps, PTL
  <1> QED
    BY <1>1

\* grep comes nearer to its end with every step, for every buffer, pattern and file,
\* NULs or not:
\* also with lines longer than the buffer it reads only finitely often.
THEOREM GrepAlwaysGetsOn == GrepSpec => GrepGetsOn
  <1>1. GrepInit => GrepTypes /\ Window
    BY GrepStart
  <1>2. GrepTypes /\ Window /\ [GrepNext]_grepVars => GrepTypes' /\ Window'
    BY WindowStep
  <1>3. GrepTypes /\ Window /\ (GrepTypes' /\ Window') /\ [GrepNext]_grepVars
            => [GrepNearer]_grepVars
    <2> SUFFICES ASSUME GrepTypes, Window, GrepTypes', GrepNext  PROVE GrepNearer
      OBVIOUS
    <2>1. Rounds' \in Nat /\ Steps' \in Nat
      BY RoundsAndStepsNext
    <2> QED
      BY <2>1, StepIsNearer DEF Nearer, GrepNearer
  <1> QED
    BY <1>1, <1>2, <1>3, PTL DEF GrepSpec, GrepGetsOn

-----------------------------------------------------------------------------
(***************************************************************************)
(* The three parts together: whichever runs, the other two stand still in  *)
(* one of their initial states, so that every part keeps its own           *)
(* specification and what is proved of it.                                 *)
(***************************************************************************)
LEMMA LibraryRestsInitially ==
    ASSUME LibraryRests
    PROVE  LibraryInit
  <1>1. SIZE \in Nat /\ SIZE > 0 /\ 0 \in Addr /\ 0 \in Byte
    BY LibraryAssumption DEF Addr, Byte
  <1>2. entry \in [Addr -> Byte]
    BY <1>1 DEF LibraryRests, NUL
  <1>3. \E routine \in Routines, dest \in Addr :
            \E src \in Sources(routine), n \in Numbers(routine), c \in Parameters(routine) :
                call = [routine |-> routine, dest |-> dest, src |-> src, n |-> n, c |-> c]
    <2>1. "memset" \in Routines /\ "memset" \in Blocks
      BY DEF Routines, Blocks
    <2>2. 0 \in Sources("memset") /\ 0 \in Numbers("memset") /\ 0 \in Parameters("memset")
      <3>1. 0 \in Sources("memset")
        BY DEF Sources
      <3>2. 0 \in Numbers("memset")
        BY <1>1, <2>1 DEF Numbers
      <3>3. 0 \in Parameters("memset")
        BY <1>1 DEF Parameters
      <3> QED
        BY <3>1, <3>2, <3>3
    <2> QED
      BY <1>1, <2>1, <2>2 DEF LibraryRests, NoCall
  <1>4. Legal
    <2>1. call.routine = "memset" /\ call.dest = 0 /\ call.n = 0 /\ call.c = 0
      BY DEF LibraryRests, NoCall
    <2> QED
      BY <1>1, <2>1 DEF Legal, Fits
  <1> QED
    BY <1>2, <1>3, <1>4 DEF LibraryInit, LibraryRests

LEMMA GrepRestsInitially ==
    ASSUME GrepRests
    PROVE  GrepInit
  <1>1. s \in UNION {[1 .. n -> Chars \ {NEWLINE, NULBYTE}] : n \in 1 .. MaxPattern}
    <2>1. 1 \in 1 .. MaxPattern
      BY GrepAssumption
    <2>2. s \in [1 .. 1 -> Chars \ {NEWLINE, NULBYTE}]
      BY DEF GrepRests, Chars, NEWLINE, NULBYTE
    <2> QED
      BY <2>1, <2>2
  <1>2. file \in UNION {[1 .. n -> Chars] : n \in 0 .. MaxFile}
    <2>1. 0 \in 0 .. MaxFile
      BY GrepAssumption
    <2>2. file \in [1 .. 0 -> Chars]
      BY DEF GrepRests
    <2> QED
      BY <2>1, <2>2
  <1>3. \E other \in {NEWLINE, NULBYTE} :
            data = [i \in 0 .. BUFSIZE |-> IF i = BUFSIZE THEN stale ELSE other]
    BY DEF GrepRests
  <1> QED
    BY <1>1, <1>2, <1>3 DEF GrepInit, GrepRests

\* Every behaviour of the composition is a behaviour of each of its three parts.
THEOREM PartsKeepTheirSpecs == Spec => LibrarySpec /\ GrepSpec /\ PagingSpec
  <1>1. Init => LibraryInit /\ GrepInit /\ PagingInit
    BY LibraryRestsInitially, GrepRestsInitially DEF Init
  <1>2. [Next]_vars =>
            [LibraryNext]_libraryVars /\ [GrepNext]_grepVars /\ [PagingNext]_pagingVars
    BY DEF Next, vars
  <1> QED
    BY <1>1, <1>2, PTL DEF Spec, LibrarySpec, GrepSpec, PagingSpec

\* So in the composition, too, the routines do what they promise, grep prints what
\* it should and programs stay apart: what holds of a part holds of the whole.
THEOREM PartsStayRight ==
    Spec => [](/\ BlocksRight /\ CopiesRight /\ ComparesRight /\ ConversionsRight
               /\ GrepSound /\ GrepExact
               /\ OwnMemoryOnly)
  <1>1. LibrarySpec => [](BlocksRight /\ CopiesRight /\ ComparesRight /\ ConversionsRight)
    BY BlocksStayRight, CopiesStayRight, ComparesStayRight, ConversionsStayRight, PTL
  <1>2. GrepSpec => [](GrepSound /\ GrepExact)
    BY GrepStaysSound, GrepStaysExact, PTL
  <1> QED
    BY <1>1, <1>2, PartsKeepTheirSpecs, ProgramsApart, PTL

\* No part goes round in a circle in the composition: what is left to do of a call and
\* of the file that grep reads becomes less with every step of either.
THEOREM PartsGetOn == Spec => GetsOn
  <1>1. [Next]_vars /\ [CallNearer]_libraryVars /\ [GrepNearer]_grepVars
            => [/\ subject = "library" => CallNearer
                /\ subject = "grep" => GrepNearer]_vars
    <2> SUFFICES ASSUME Next, ~UNCHANGED vars, [CallNearer]_libraryVars,
                        [GrepNearer]_grepVars
                 PROVE  /\ subject = "library" => CallNearer
                        /\ subject = "grep" => GrepNearer
      OBVIOUS
    <2>1. subject = "library" => ~UNCHANGED libraryVars
      BY DEF Next, vars
    <2>2. subject = "grep" => ~UNCHANGED grepVars
      BY DEF Next, vars
    <2> QED
      BY ONLY <2>1, <2>2, [CallNearer]_libraryVars, [GrepNearer]_grepVars
  <1>2. Spec => [][CallNearer]_libraryVars /\ [][GrepNearer]_grepVars
    BY PartsKeepTheirSpecs, CallAlwaysGetsOn, GrepAlwaysGetsOn DEF CallGetsOn, GrepGetsOn
  <1> QED
    BY <1>1, <1>2, PTL DEF Spec, GetsOn
=============================================================================
