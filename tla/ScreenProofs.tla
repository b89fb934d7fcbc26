----------------------------- MODULE ScreenProofs -----------------------------
(***************************************************************************)
(* Which buffer a terminal has, where the cursor can be, that the echo of  *)
(* a line stays behind its prompt, and that a switch shows again what the  *)
(* user left.                                                              *)
(*                                                                         *)
(* In the middle of a putc the cursor may stand anywhere: keys that are    *)
(* echoed there bring it back, the statements that follow store what was   *)
(* computed before the key.  CursorInv says what brings it back for good:  *)
(* from the store of the column on only the row can be off the screen, and *)
(* the scroll sees to that one.                                            *)
(***************************************************************************)
EXTENDS Screen, TLAPS, SequenceTheorems

-----------------------------------------------------------------------------
(***************************************************************************)
(* Buffers                                                                 *)
(***************************************************************************)
BufferInv ==
    /\ on_screen \in Terminals /\ curr_terminal \in Terminals /\ pit_count \in Nat
    /\ DOMAIN video_buffer = Terminals
    /\ video_buffer = [t \in Terminals |-> video_buffer[t]]
    /\ OwnBuffers

LEMMA BufferStep == BufferInv /\ [Next]_vars => BufferInv'
<1>. SUFFICES ASSUME BufferInv, [Next]_vars  PROVE BufferInv'
  OBVIOUS
<1>1. VIDEO \notin Terminals /\ 0 \in Terminals
  BY ScreenAssumption DEF VIDEO, Terminals
<1>2. CASE UNCHANGED <<terminals, pit_count>>
  BY <1>2 DEF BufferInv, OwnBuffers, terminals
<1>3. ASSUME NEW target \in Terminals, SwitchTerminal(target)
      PROVE  BufferInv'
  <2>1. on_screen' = target /\ curr_terminal' = target /\ target # on_screen
        /\ pit_count' = pit_count
        /\ video_buffer' = [video_buffer EXCEPT ![on_screen] = on_screen]
    BY <1>3 DEF SwitchTerminal, Buffers, UnchangedByKey
  <2>2. \A t \in Terminals : video_buffer'[t] = t
    BY <1>1, <2>1 DEF BufferInv, OwnBuffers
  <2>3. QED
    BY <2>1, <2>2 DEF BufferInv, OwnBuffers
<1>4. CASE StartShell
  <2>1. curr_terminal' = pit_count /\ pit_count < NUMBER_OF_TERMINALS
        /\ pit_count' = pit_count + 1 /\ UNCHANGED <<video_buffer, on_screen>>
    BY <1>4 DEF StartShell
  <2>2. curr_terminal' \in Terminals
    BY <2>1, ScreenAssumption DEF BufferInv, Terminals
  <2>3. QED
    BY <2>1, <2>2 DEF BufferInv, OwnBuffers
<1>5. CASE FirstTerminalTick
  <2>1. curr_terminal' = 0 /\ pit_count' = pit_count + 1 /\ UNCHANGED on_screen
        /\ video_buffer' = [video_buffer EXCEPT ![0] = BufferOf(0)]
    BY <1>5 DEF FirstTerminalTick
  <2>2. QED
    BY <1>1, <2>1 DEF BufferInv, OwnBuffers, BufferOf
<1>6. CASE Tick
  <2>1. UNCHANGED <<on_screen, curr_terminal, pit_count>>
        /\ video_buffer' = [video_buffer EXCEPT ![curr_terminal] = BufferOf(curr_terminal)]
    BY <1>6 DEF Tick
  <2>2. QED
    BY <1>1, <2>1 DEF BufferInv, OwnBuffers, BufferOf
<1>7. CASE Program
  BY <1>2, <1>7
  DEF Program, PutcCall, PutcStart, PutcTest, PutcAim, PutcAddress, PutcPut, PutcLoad, PutcStore,
      PutcScroll, PutcMove, PutcBottom, PutcRestore, UnchangedByPutc
<1>8. CASE Keyboard
  BY <1>2, <1>3, <1>8 DEF Keyboard, TypeKey, EnterKey, Backspace, ClearKey, UnchangedByKey
<1>9. QED
  BY <1>2, <1>4, <1>5, <1>6, <1>7, <1>8 DEF Next, Timer, vars

\* For any size of the screen, any number of terminals and any interleaving of keys,
\* ticks and the statements of putc, the boot's ticks included: a terminal's buffer
\* is its own page, or the video memory while the terminal is on the screen.
THEOREM BuffersStayOwn == Spec => []OwnBuffers
<1>1. Init => BufferInv
  BY ScreenAssumption DEF Init, BufferInv, OwnBuffers, Terminals, VIDEO
<1>2. BufferInv => OwnBuffers
  BY DEF BufferInv
<1>3. QED
  BY <1>1, <1>2, BufferStep, PTL DEF Spec

-----------------------------------------------------------------------------
(***************************************************************************)
(* What the functions on the screen do to the cursor                       *)
(***************************************************************************)
Shaped(s) == s = [mem |-> s.mem, at |-> s.at, x |-> s.x, y |-> s.y]
On(s) == s.x \in 0 .. COLS - 1 /\ s.y \in 0 .. ROWS - 1

LEMMA Columns ==
    ASSUME NEW x \in Nat
    PROVE  /\ x % COLS \in 0 .. COLS - 1
           /\ x \div COLS \in Nat
           /\ x <= COLS => x \div COLS <= 1
<1>1. COLS \in Nat \ {0}  BY ScreenAssumption
<1>2. x % COLS \in 0 .. COLS - 1  BY <1>1
<1>3. x \div COLS \in Nat  BY <1>1
<1>4. ASSUME x <= COLS  PROVE x \div COLS <= 1
  BY <1>1, <1>4
<1>5. QED  BY <1>2, <1>3, <1>4

\* A screen t with the cursor and the page of screen s.
SameButCells(t, s) == Shaped(t) /\ t.at = s.at /\ t.x = s.x /\ t.y = s.y

LEMMA FillKeeps ==
    ASSUME NEW s, Shaped(s), NEW page, NEW first, NEW n, NEW ink
    PROVE  SameButCells(Fill(s, page, first, n, ink), s)
<1>. DEFINE mem == [p \in Pages |-> [i \in Cells |->
                       IF (p - page) * PAGE + i \in first .. first + n - 1
                       THEN ink ELSE s.mem[p][i]]]
<1>1. Fill(s, page, first, n, ink) = [s EXCEPT !.mem = mem]
  BY DEF Fill
<1>2. s = [mem |-> s.mem, at |-> s.at, x |-> s.x, y |-> s.y]
  BY DEF Shaped
<1>. HIDE DEF mem
<1>3. [s EXCEPT !.mem = mem] = [mem |-> mem, at |-> s.at, x |-> s.x, y |-> s.y]
  BY ONLY <1>2
<1>4. QED
  BY ONLY <1>1, <1>3 DEF SameButCells, Shaped

LEMMA DrawKeeps ==
    ASSUME NEW s, Shaped(s)
    PROVE  SameButCells(Draw(s), s)
BY FillKeeps DEF Draw

LEMMA RowsUpGoes ==
    ASSUME NEW s, Shaped(s)
    PROVE  Shaped(RowsUp(s)) /\ RowsUp(s).x = s.x /\ RowsUp(s).y = ROWS - 1
<1>. DEFINE up == [i \in Cells |-> IF i < MOVED
                                 THEN s.mem[s.at][i + COLS] ELSE s.mem[s.at][i]]
<1>1. RowsUp(s) = [[s EXCEPT !.y = ROWS - 1] EXCEPT !.mem = [@ EXCEPT ![s.at] = up]]
  BY DEF RowsUp, Shaped
<1>. HIDE DEF up
<1>2. QED
  BY <1>1 DEF Shaped

LEMMA ScrollLands ==
    ASSUME NEW s, Shaped(s), s.x \in Nat, s.y \in Nat
    PROVE  Shaped(Scroll(s)) /\ Scroll(s).x = s.x /\ Scroll(s).y \in 0 .. ROWS - 1
<1>1. CASE s.y >= ROWS
  <2>1. Scroll(s) = Fill(RowsUp(s), s.at, Position(RowsUp(s)), COLS, FALSE)
    BY <1>1 DEF Scroll, Overflows
  <2>2. Shaped(Scroll(s)) /\ Scroll(s).x = s.x /\ Scroll(s).y = ROWS - 1
    <3>1. Shaped(RowsUp(s)) /\ RowsUp(s).x = s.x /\ RowsUp(s).y = ROWS - 1
      BY RowsUpGoes
    <3>. DEFINE up == RowsUp(s)
    <3>. HIDE DEF up
    <3>2. Shaped(up) /\ up.x = s.x /\ up.y = ROWS - 1  BY <3>1 DEF up
    <3>3. SameButCells(Fill(up, s.at, Position(up), COLS, FALSE), up)
      BY ONLY <3>2, FillKeeps
    <3>4. Scroll(s) = Fill(up, s.at, Position(up), COLS, FALSE)  BY <2>1 DEF up
    <3>5. SameButCells(Scroll(s), up)  BY ONLY <3>3, <3>4
    <3>6. QED  BY ONLY <3>2, <3>5 DEF SameButCells
  <2>3. QED  BY <2>2, ScreenAssumption
<1>2. CASE ~(s.y >= ROWS)
  <2>1. Scroll(s) = s  BY <1>2 DEF Scroll, Overflows
  <2>2. s.y \in 0 .. ROWS - 1  BY <1>2, ScreenAssumption
  <2>3. QED  BY <2>1, <2>2
<1>3. QED  BY <1>1, <1>2

\* A putc that runs undisturbed ends on the screen, or leaves the cursor alone.
LEMMA PutcLands ==
    ASSUME NEW s, Shaped(s), s.x \in Nat, s.y \in Nat, NEW c, NEW buffer,
           NEW visible \in BOOLEAN
    PROVE  /\ Shaped(Putc(s, c, buffer, visible))
           /\ \/ On(Putc(s, c, buffer, visible))
              \/ /\ Putc(s, c, buffer, visible).x = s.x
                 /\ Putc(s, c, buffer, visible).y = s.y
<1>1. CASE Returns(s, c)
  BY <1>1 DEF Putc, Shaped
<1>2. CASE ~Returns(s, c)
  <2>. DEFINE to == [s EXCEPT !.at = IF visible THEN VIDEO ELSE buffer]
              moved == IF c = "newline" THEN Newline(to) ELSE Advance(Draw(to))
  <2>1. Shaped(to) /\ to.x = s.x /\ to.y = s.y
    BY DEF Shaped
  <2>2. Shaped(Draw(to)) /\ Draw(to).x = s.x /\ Draw(to).y = s.y
    <3>. HIDE DEF to
    <3>1. SameButCells(Draw(to), to)  BY ONLY <2>1, DrawKeeps
    <3>2. QED  BY ONLY <2>1, <3>1 DEF SameButCells
  <2>3. Shaped(moved) /\ moved.x \in 0 .. COLS - 1 /\ moved.y \in Nat
    <3>. HIDE DEF to
    <3>1. CASE c = "newline"
      <4>1. moved = [to EXCEPT !.x = 0, !.y = @ + 1]  BY <3>1 DEF Newline
      <4>2. Shaped(moved) /\ moved.x = 0 /\ moved.y = s.y + 1
        BY <2>1, <4>1 DEF Shaped
      <4>3. QED  BY <4>2, ScreenAssumption
    <3>2. CASE c # "newline"
      <4>1. /\ Advance(Draw(to)).x = (s.x + 1) % COLS
            /\ Advance(Draw(to)).y = s.y + (s.x + 1) \div COLS
            /\ Shaped(Advance(Draw(to)))
        <5>. DEFINE drawn == Draw(to)
        <5>. HIDE DEF drawn
        <5>1. Advance(drawn) = [drawn EXCEPT !.x = (drawn.x + 1) % COLS,
                                             !.y = drawn.y + (drawn.x + 1) \div COLS]
          BY DEF Advance
        <5>2. Shaped(drawn) /\ drawn.x = s.x /\ drawn.y = s.y
          BY <2>2 DEF drawn
        <5>3. Advance(drawn).x = (s.x + 1) % COLS
              /\ Advance(drawn).y = s.y + (s.x + 1) \div COLS /\ Shaped(Advance(drawn))
          BY <5>1, <5>2 DEF Shaped
        <5>4. QED  BY <5>3 DEF drawn
      <4>2. QED
        BY <3>2, <4>1, Columns
    <3>3. QED  BY <3>1, <3>2
  <2>4. Putc(s, c, buffer, visible) =
            [Scroll(moved) EXCEPT !.at = IF visible THEN s.at ELSE buffer]
    BY <1>2 DEF Putc
  <2>. HIDE DEF moved
  <2>5. /\ Shaped(Scroll(moved)) /\ Scroll(moved).x = moved.x
        /\ Scroll(moved).y \in 0 .. ROWS - 1
    BY <2>3, ScrollLands, ScreenAssumption
  <2>6. QED
    BY <2>3, <2>4, <2>5 DEF Shaped, On
<1>3. QED  BY <1>1, <1>2

LEMMA AnnounceLands ==
    ASSUME NEW s, Shaped(s), NEW at \in Cursors, NEW buffer, NEW visible \in BOOLEAN,
           NEW t, t = Putc(Putc([s EXCEPT !.x = at.x, !.y = at.y], "char", buffer, visible),
                           "newline", buffer, visible)
    PROVE  Shaped(t) /\ On(t)
<1>. DEFINE placed == [s EXCEPT !.x = at.x, !.y = at.y]
            named == Putc(placed, "char", buffer, visible)
<1>1. at.x \in 0 .. COLS - 1 /\ at.y \in 0 .. ROWS - 1
  BY DEF Cursors
<1>2. placed = [mem |-> s.mem, at |-> s.at, x |-> at.x, y |-> at.y]
  <2>1. PICK p : p = [s EXCEPT !.x = at.x, !.y = at.y]
    OBVIOUS
  <2>2. p = [mem |-> s.mem, at |-> s.at, x |-> at.x, y |-> at.y]
    BY <2>1 DEF Shaped
  <2>3. QED
    BY <2>1, <2>2
<1>. HIDE DEF placed
<1>3. Shaped(placed) /\ On(placed) /\ placed.x \in Nat /\ placed.y \in Nat
  BY <1>1, <1>2, ScreenAssumption DEF Shaped, On
<1>4. Shaped(named) /\ On(named)
  BY <1>3, PutcLands DEF On
<1>5. named.x \in Nat /\ named.y \in Nat
  BY <1>4, ScreenAssumption DEF On
<1>6. t = Putc(named, "newline", buffer, visible)
  BY DEF placed
<1>. HIDE DEF named
<1>7. Shaped(Putc(named, "newline", buffer, visible)) /\ On(Putc(named, "newline", buffer, visible))
  BY <1>4, <1>5, PutcLands DEF On
<1>8. QED
  BY <1>6, <1>7

-----------------------------------------------------------------------------
(***************************************************************************)
(* Types                                                                   *)
(***************************************************************************)
Screens == [mem : [Pages -> [Cells -> BOOLEAN]], at : Pages, x : Nat, y : Nat]
Places == [x : Nat, y : Nat]

Statements == InHand \cup {"idle", "start", "test", "aim", "draw", "put", "load_x", "store_x",
                          "load_y", "newline", "clear", "blank", "restore"}
Chars == {"char", "newline", "return", "nul"}
Putcs == [pc : Statements, c : Chars, backup : Pages, reg : Nat,
          page : Pages, from : Pages, idx : Nat]

TypeInv ==
    /\ screen \in Screens
    /\ putc \in Putcs
    /\ cursor \in [Terminals -> Places]
    /\ video_buffer \in [Terminals -> Pages]
    /\ on_screen \in Terminals /\ curr_terminal \in Terminals
    /\ pit_count \in 0 .. NUMBER_OF_TERMINALS + 1
    /\ astray \in BOOLEAN

\* The screen with its cursor or video_mem elsewhere.
LEMMA Placed ==
    ASSUME NEW s \in Screens, NEW at \in Pages, NEW x \in Nat, NEW y \in Nat
    PROVE  /\ [s EXCEPT !.at = at] \in Screens
           /\ [s EXCEPT !.x = x] \in Screens
           /\ [s EXCEPT !.y = y] \in Screens
           /\ [s EXCEPT !.x = x, !.y = y] \in Screens
BY DEF Screens

LEMMA FillType ==
    ASSUME NEW s \in Screens, NEW page, NEW first, NEW n, NEW ink \in BOOLEAN
    PROVE  Fill(s, page, first, n, ink) \in Screens
<1>. DEFINE mem == [p \in Pages |-> [i \in Cells |->
                       IF (p - page) * PAGE + i \in first .. first + n - 1
                       THEN ink ELSE s.mem[p][i]]]
<1>1. mem \in [Pages -> [Cells -> BOOLEAN]]
  BY DEF Screens
<1>2. Fill(s, page, first, n, ink) = [s EXCEPT !.mem = mem]
  BY DEF Fill
<1>. HIDE DEF mem
<1>3. QED
  BY <1>1, <1>2 DEF Screens

LEMMA RowCells ==
    ASSUME NEW i \in Cells, i < MOVED
    PROVE  i + COLS \in Cells
<1>1. COLS \in Nat /\ ROWS \in Nat /\ PAGE \in Nat /\ PAGE >= ROWS * COLS
  BY ScreenAssumption
<1>2. COLS * (ROWS - 1) + COLS = ROWS * COLS
  BY <1>1
<1>. DEFINE above == COLS * (ROWS - 1)
            all == ROWS * COLS
<1>3. above \in Int /\ all \in Int
  BY <1>1
<1>. HIDE DEF above, all
<1>4. above + COLS = all /\ PAGE >= all /\ i < above
  BY <1>1, <1>2 DEF above, all, MOVED
<1>5. QED
  BY <1>1, <1>3, <1>4 DEF Cells

\* The locals of a putc that starts, and after a step of it.
LEMMA LocalsStart ==
    ASSUME NEW pc \in Statements, NEW c \in Chars, NEW backup \in Pages
    PROVE  Locals(pc, c, backup) \in Putcs
BY DEF Locals, Putcs, Pages

LEMMA LocalsBetween ==
    ASSUME TypeInv, NEW pc \in Statements, NEW n \in Nat
    PROVE  /\ Idle \in Putcs /\ Between(pc) \in Putcs
           /\ [Between(pc) EXCEPT !.reg = n] \in Putcs
           /\ [Between(pc) EXCEPT !.idx = n] \in Putcs
<1>1. VIDEO \in Pages /\ putc.backup \in Pages
  BY DEF Pages, TypeInv, Putcs
<1>2. Idle \in Putcs
  BY <1>1, LocalsStart DEF Idle, Statements, Chars
<1>3. Between(pc) \in Putcs
  BY <1>1, LocalsStart DEF Between, Chars
<1>. DEFINE between == Between(pc)
<1>. HIDE DEF between
<1>4. [between EXCEPT !.reg = n] \in Putcs /\ [between EXCEPT !.idx = n] \in Putcs
  BY <1>3 DEF Putcs, between
<1>5. QED
  BY <1>2, <1>3, <1>4 DEF between

\* The cells that the scroll moves up lie on the page.
LEMMA MovedCells ==
    ASSUME NEW i \in Nat, i < MOVED
    PROVE  i \in Cells /\ i + COLS \in Cells
<1>1. COLS \in Nat /\ ROWS \in Nat /\ PAGE \in Nat /\ PAGE >= ROWS * COLS
  BY ScreenAssumption
<1>2. COLS * (ROWS - 1) + COLS = ROWS * COLS
  BY <1>1
<1>. DEFINE above == COLS * (ROWS - 1)
            all == ROWS * COLS
<1>3. above \in Int /\ all \in Int
  BY <1>1
<1>. HIDE DEF above, all
<1>4. above + COLS = all /\ PAGE >= all /\ i < above
  BY <1>1, <1>2 DEF above, all, MOVED
<1>5. i \in Cells
  BY <1>1, <1>3, <1>4 DEF Cells
<1>6. QED
  BY <1>5, RowCells

LEMMA RowsUpType ==
    ASSUME NEW s \in Screens
    PROVE  RowsUp(s) \in Screens
<1>. DEFINE up == [i \in Cells |-> IF i < MOVED
                                   THEN s.mem[s.at][i + COLS] ELSE s.mem[s.at][i]]
<1>1. up \in [Cells -> BOOLEAN]
  BY RowCells DEF Screens
<1>. DEFINE mem == [s.mem EXCEPT ![s.at] = up]
<1>2. RowsUp(s) = [s EXCEPT !.y = ROWS - 1, !.mem = mem]
  BY DEF RowsUp, Screens
<1>. HIDE DEF up
<1>3. mem \in [Pages -> [Cells -> BOOLEAN]]
  BY <1>1 DEF Screens
<1>. HIDE DEF mem
<1>4. ROWS - 1 \in Nat
  BY ScreenAssumption
<1>5. QED
  BY <1>2, <1>3, <1>4 DEF Screens

LEMMA ScrollType ==
    ASSUME NEW s \in Screens
    PROVE  Scroll(s) \in Screens
BY RowsUpType, FillType DEF Scroll

LEMMA PutcKeepsType ==
    ASSUME NEW s \in Screens, NEW c, NEW buffer \in Pages, NEW visible \in BOOLEAN
    PROVE  Putc(s, c, buffer, visible) \in Screens
<1>. DEFINE to == [s EXCEPT !.at = IF visible THEN VIDEO ELSE buffer]
            drawn == Draw(to)
            moved == IF c = "newline" THEN Newline(to) ELSE Advance(drawn)
<1>1. to \in Screens
  BY Placed DEF Pages
<1>2. s.at \in Pages
  BY DEF Screens
<1>. HIDE DEF to
<1>3. drawn \in Screens
  BY <1>1, FillType DEF Draw
<1>. HIDE DEF drawn
<1>4. moved \in Screens
  <2>1. Newline(to) \in Screens
    <3>1. to.y + 1 \in Nat
      BY <1>1 DEF Screens
    <3>2. Newline(to) = [mem |-> to.mem, at |-> to.at, x |-> 0, y |-> to.y + 1]
      <4>1. to = [mem |-> to.mem, at |-> to.at, x |-> to.x, y |-> to.y]
        BY <1>1 DEF Screens
      <4>2. Newline(to) = [to EXCEPT !.x = 0, !.y = to.y + 1]
        BY DEF Newline
      <4>3. QED
        BY <4>1, <4>2
    <3>3. QED  BY <1>1, <3>1, <3>2 DEF Screens
  <2>2. Advance(drawn) \in Screens
    <3>1. drawn.x + 1 \in Nat /\ drawn.y \in Nat
      BY <1>3 DEF Screens
    <3>2. (drawn.x + 1) % COLS \in Nat /\ drawn.y + (drawn.x + 1) \div COLS \in Nat
      BY <3>1, Columns, ScreenAssumption
    <3>3. Advance(drawn) = [drawn EXCEPT !.x = (drawn.x + 1) % COLS,
                                         !.y = drawn.y + (drawn.x + 1) \div COLS]
      BY DEF Advance
    <3>. DEFINE column == (drawn.x + 1) % COLS
                row == drawn.y + (drawn.x + 1) \div COLS
    <3>4. column \in Nat /\ row \in Nat /\ Advance(drawn) = [drawn EXCEPT !.x = column, !.y = row]
      BY <3>2, <3>3
    <3>. HIDE DEF column, row
    <3>5. QED  BY <1>3, <3>4 DEF Screens
  <2>3. QED  BY <2>1, <2>2
<1>5. Putc(s, c, buffer, visible) =
        IF Returns(s, c) THEN [s EXCEPT !.at = buffer]
        ELSE [Scroll(moved) EXCEPT !.at = IF visible THEN s.at ELSE buffer]
  BY DEF Putc, moved, drawn, to
<1>. HIDE DEF moved
<1>6. QED
  <2>1. Scroll(moved) \in Screens
    BY <1>4, ScrollType
  <2>2. \A at \in Pages : [s EXCEPT !.at = at] \in Screens
    BY Placed
  <2>3. \A at \in Pages : [Scroll(moved) EXCEPT !.at = at] \in Screens
    BY <2>1, Placed
  <2>4. QED
    BY <1>2, <1>5, <2>2, <2>3

LEMMA TypeStep == TypeInv /\ [Next]_vars => TypeInv'
<1>. SUFFICES ASSUME TypeInv, [Next]_vars  PROVE TypeInv'
  OBVIOUS
<1>1. /\ VIDEO \in Pages /\ Terminals \subseteq Pages /\ 0 \in Terminals
      /\ screen.at \in Pages /\ screen.x \in Nat /\ screen.y \in Nat
      /\ Here \in Places
      /\ \A t \in Terminals : video_buffer[t] \in Pages /\ cursor[t] \in Places
  BY ScreenAssumption DEF TypeInv, Screens, Pages, Terminals, Here, Places
<1>2. ASSUME NEW c  PROVE Echo(screen, c) \in Screens
  BY <1>1, PutcKeepsType DEF TypeInv, Echo
<1>3. ASSUME UNCHANGED <<terminals, pit_count, putc>>, screen' \in Screens, KeepAstray
      PROVE  TypeInv'
  BY <1>3 DEF TypeInv, Putcs, terminals, KeepAstray
<1>4. CASE Program
  <2>1. /\ putc.reg \in Nat /\ putc.idx \in Nat /\ putc.backup \in Pages
        /\ putc.page \in Pages /\ putc.from \in Pages /\ putc \in Putcs
    BY DEF TypeInv, Putcs
  <2>2. ASSUME \/ putc' = Idle
               \/ \E pc \in Statements : Goto(pc) \/ putc' = [putc EXCEPT !.pc = pc]
        PROVE  putc' \in Putcs
    <3>1. CASE putc' = Idle
      <4>1. Idle \in Putcs  BY LocalsBetween DEF Statements
      <4>2. QED  BY <3>1, <4>1
    <3>2. ASSUME NEW pc \in Statements, Goto(pc)  PROVE putc' \in Putcs
      <4>1. Between(pc) \in Putcs  BY LocalsBetween
      <4>2. QED  BY <3>2, <4>1 DEF Goto
    <3>3. ASSUME NEW pc \in Statements, putc' = [putc EXCEPT !.pc = pc]  PROVE putc' \in Putcs
      BY <2>1, <3>3 DEF Putcs
    <3>4. QED
      BY <2>2, <3>1, <3>2, <3>3
  <2>3. ASSUME putc' \in Putcs, screen' \in Screens, UnchangedByPutc \/ UNCHANGED <<terminals, pit_count>>,
               astray' = astray \/ KeepAstray
        PROVE  TypeInv'
    BY <2>3 DEF UnchangedByPutc, TypeInv, terminals, KeepAstray
  <2>4. ASSUME NEW c \in Chars, PutcCall(c)  PROVE TypeInv'
    <3>1. c \in Chars /\ putc' = Locals("start", c, screen.at)
      BY <2>4 DEF PutcCall
    <3>2. putc' \in Putcs
      BY <1>1, <3>1, LocalsStart DEF Statements
    <3>3. QED
      BY <2>3, <2>4, <3>2 DEF PutcCall, TypeInv, history
  <2>5. CASE PutcStart
    <3>1. screen' \in Screens
      BY <1>1, <2>5, Placed DEF PutcStart, TypeInv
    <3>2. QED
      BY <2>2, <2>3, <2>5, <3>1 DEF PutcStart, history, Statements
  <2>6. CASE PutcTest
    <3>1. putc' \in Putcs
      BY <2>2, <2>6 DEF PutcTest, Statements
    <3>2. QED
      BY <2>3, <2>6, <3>1 DEF PutcTest, TypeInv, history
  <2>7. CASE PutcAim
    <3>1. screen' \in Screens
      BY <1>1, <2>7, Placed DEF PutcAim, TypeInv
    <3>2. putc' \in Putcs
      BY <2>2, <2>7 DEF PutcAim, Statements
    <3>3. QED
      BY <2>3, <2>7, <3>1, <3>2 DEF PutcAim, history
  <2>8. CASE PutcAddress
    <3>. DEFINE cell == Position(screen)
    <3>1. cell \in Nat
      <4>1. COLS * screen.y \in Nat
        BY <1>1, ScreenAssumption
      <4>2. QED
        BY <1>1, <4>1 DEF Position
    <3>2. \/ putc' = [putc EXCEPT !.pc = "put", !.page = screen.at, !.reg = cell]
          \/ putc' = [putc EXCEPT !.pc = "blank", !.page = screen.at, !.reg = cell + putc.idx]
      BY <2>8 DEF PutcAddress
    <3>. HIDE DEF cell
    <3>3. putc' \in Putcs
      <4>1. cell + putc.idx \in Nat
        BY <2>1, <3>1
      <4>2. QED
        BY <1>1, <2>1, <3>1, <3>2, <4>1 DEF Putcs, Statements
    <3>4. QED
      BY <2>3, <2>8, <3>3 DEF PutcAddress, TypeInv, history
  <2>9. CASE PutcPut
    <3>1. screen' \in Screens
      <4>1. \/ screen' = Fill(screen, putc.page, putc.reg, 1, TRUE)
            \/ screen' = Fill(screen, putc.page, putc.reg, 1, FALSE)
        BY <2>9 DEF PutcPut
      <4>2. QED
        BY <4>1, FillType DEF TypeInv
    <3>2. \/ Goto("load_x")
          \/ putc' = [Between("clear") EXCEPT !.idx = putc.idx + 1]
      BY <2>9 DEF PutcPut
    <3>3. putc' \in Putcs
      <4>1. putc.idx + 1 \in Nat
        BY <2>1
      <4>2. QED
        <5>1. [Between("clear") EXCEPT !.idx = putc.idx + 1] \in Putcs
          BY <4>1, LocalsBetween DEF Statements
        <5>2. QED
          BY <2>2, <3>2, <5>1 DEF Statements
    <3>4. QED
      BY <2>3, <2>9, <3>1, <3>3 DEF PutcPut
  <2>10. CASE PutcLoad
    <3>1. /\ screen.x + 1 \in Nat /\ screen.y + 1 \in Nat
          /\ screen.y + screen.x \div COLS \in Nat /\ screen.x % COLS \in Nat
      BY <1>1, Columns, ScreenAssumption
    <3>2. putc' \in Putcs
      <4>1. PICK pc \in Statements, n \in Nat : putc' = [Between(pc) EXCEPT !.reg = n]
        BY <2>10, <3>1 DEF PutcLoad, Calc, Statements, InHand
      <4>2. QED
        BY <4>1, LocalsBetween
    <3>3. QED
      BY <2>3, <2>10, <3>2 DEF PutcLoad, TypeInv, history
  <2>11. CASE PutcStore
    <3>1. screen' \in Screens
      <4>1. \/ screen' = [screen EXCEPT !.x = putc.reg]
            \/ screen' = [screen EXCEPT !.x = 0]
            \/ screen' = [screen EXCEPT !.y = putc.reg]
        BY <2>11 DEF PutcStore
      <4>2. QED
        BY <1>1, <2>1, <4>1, Placed DEF TypeInv
    <3>2. putc' \in Putcs
      BY <2>2, <2>11 DEF PutcStore, Statements, InHand
    <3>3. QED
      BY <2>3, <2>11, <3>1, <3>2 DEF PutcStore
  <2>12. CASE PutcScroll
    <3>1. \/ \E pc \in Statements : Goto(pc)
          \/ putc' = [putc EXCEPT !.pc = "load_page", !.from = screen.at]
          \/ putc' = [putc EXCEPT !.pc = "move", !.page = screen.at, !.idx = 0]
      BY <2>12 DEF PutcScroll, Statements, InHand
    <3>2. putc' \in Putcs
      <4>1. CASE putc' = [putc EXCEPT !.pc = "load_page", !.from = screen.at]
        BY <1>1, <2>1, <4>1 DEF Putcs, Statements, InHand
      <4>2. CASE putc' = [putc EXCEPT !.pc = "move", !.page = screen.at, !.idx = 0]
        BY <1>1, <2>1, <4>2 DEF Putcs, Statements, InHand
      <4>3. QED
        BY <2>2, <3>1, <4>1, <4>2
    <3>3. QED
      BY <2>3, <2>12, <3>2 DEF PutcScroll, TypeInv, history
  <2>13. CASE PutcMove
    <3>. DEFINE cell == screen.mem[putc.from][putc.idx + COLS]
    <3>1. cell \in BOOLEAN
      BY <2>1, <2>13, MovedCells DEF PutcMove, TypeInv, Screens
    <3>2. screen' = [screen EXCEPT !.mem[putc.page][putc.idx] = cell]
          /\ putc' = [putc EXCEPT !.idx = putc.idx + 1]
      BY <2>13 DEF PutcMove
    <3>. HIDE DEF cell
    <3>3. screen' \in Screens
      BY <3>1, <3>2 DEF TypeInv, Screens
    <3>4. putc' \in Putcs
      <4>1. putc.idx + 1 \in Nat
        BY <2>1
      <4>2. QED
        BY <2>1, <3>2, <4>1 DEF Putcs
    <3>5. QED
      BY <2>3, <2>13, <3>3, <3>4 DEF PutcMove
  <2>14. CASE PutcBottom
    <3>1. screen' \in Screens
      <4>1. ROWS - 1 \in Nat
        BY ScreenAssumption
      <4>2. QED
        BY <1>1, <2>14, <4>1, Placed DEF PutcBottom, TypeInv
    <3>2. putc' \in Putcs
      BY <2>2, <2>14 DEF PutcBottom, Statements
    <3>3. QED
      BY <2>3, <2>14, <3>1, <3>2 DEF PutcBottom
  <2>15. CASE PutcRestore
    <3>1. screen' \in Screens
      BY <2>1, <2>15, Placed DEF PutcRestore, TypeInv
    <3>2. putc' \in Putcs
      BY <2>2, <2>15 DEF PutcRestore, Statements
    <3>3. QED
      BY <2>3, <2>15, <3>1, <3>2 DEF PutcRestore, history
  <2>16. QED
    BY <1>4, <2>4, <2>5, <2>6, <2>7, <2>8, <2>9, <2>10, <2>11, <2>12, <2>13, <2>14, <2>15
    DEF Program, Chars
<1>5. ASSUME NEW c, TypeKey(c)  PROVE TypeInv'
  BY <1>2, <1>3, <1>5 DEF TypeKey, UnchangedByKey
<1>6. CASE EnterKey
  BY <1>2, <1>3, <1>6 DEF EnterKey, UnchangedByKey
<1>7. CASE Backspace
  <2>1. CASE NothingRemoved(screen)
    BY <1>1, <1>3, <1>7, <2>1, Placed DEF Backspace, UnchangedByKey, Removed, TypeInv
  <2>2. CASE ~NothingRemoved(screen)
    <3>. DEFINE erased == Fill(screen, VIDEO, Position(screen) - 1, 1, FALSE)
    <3>1. screen' = Back(erased)
      BY <1>7, <2>2 DEF Backspace, Removed
    <3>2. Shaped(screen)
      BY DEF TypeInv, Shaped, Screens
    <3>3. erased \in Screens /\ erased.x = screen.x /\ erased.y = screen.y
      <4>1. erased \in Screens
        BY FillType DEF TypeInv
      <4>2. SameButCells(erased, screen)
        BY ONLY <3>2, FillKeeps
      <4>. HIDE DEF erased
      <4>3. QED
        BY ONLY <4>1, <4>2 DEF SameButCells
    <3>. HIDE DEF erased
    <3>4. Back(erased) \in Screens
      <4>1. erased.x > 0 => erased.x - 1 \in Nat
        BY <1>1, <3>3
      <4>2. ~(erased.x > 0) => erased.y - 1 \in Nat
        BY <1>1, <2>2, <3>3 DEF NothingRemoved
      <4>3. COLS - 1 \in Nat
        BY ScreenAssumption
      <4>4. QED
        BY <3>3, <4>1, <4>2, <4>3 DEF Back, Screens
    <3>5. screen' \in Screens
      BY <3>1, <3>4
    <3>6. QED
      BY <1>3, <1>7, <3>5 DEF Backspace, UnchangedByKey
  <2>3. QED
    BY <2>1, <2>2
<1>8. CASE ClearKey
  <2>. DEFINE echoed == Echo(screen, "char")
              blank == Fill(echoed, echoed.at, 0, ROWS * COLS, FALSE)
              buffer == video_buffer[on_screen]
  <2>1. echoed \in Screens
    BY <1>2
  <2>2. screen' = [blank EXCEPT !.mem[buffer] = blank.mem[echoed.at], !.x = 0, !.y = 0]
    BY <1>8 DEF ClearKey, Cleared
  <2>. HIDE DEF echoed
  <2>3. blank \in Screens /\ echoed.at \in Pages
    BY <2>1, FillType DEF Screens
  <2>. HIDE DEF blank
  <2>4. screen' \in Screens
    BY <2>2, <2>3 DEF Screens
  <2>5. QED
    BY <1>3, <1>8, <2>4 DEF ClearKey, UnchangedByKey
<1>9. ASSUME NEW target \in Terminals, SwitchTerminal(target)
      PROVE  TypeInv'
  <2>1. /\ cursor' = [cursor EXCEPT ![on_screen] = Here]
        /\ video_buffer' = [video_buffer EXCEPT ![on_screen] = on_screen]
        /\ on_screen' = target /\ curr_terminal' = target
        /\ UNCHANGED <<pit_count, putc>>
    BY <1>9 DEF SwitchTerminal, Buffers, UnchangedByKey
  <2>2. screen' = [screen EXCEPT !.mem = Exchanged(screen.mem, target),
                                 !.x = cursor[target].x, !.y = cursor[target].y]
    BY <1>9 DEF SwitchTerminal
  <2>3. Exchanged(screen.mem, target) \in [Pages -> [Cells -> BOOLEAN]]
    BY <1>1 DEF Exchanged, TypeInv, Screens
  <2>4. cursor[target].x \in Nat /\ cursor[target].y \in Nat
    BY <1>1 DEF Places
  <2>5. screen' \in Screens
    BY <2>2, <2>3, <2>4 DEF TypeInv, Screens
  <2>6. astray' \in BOOLEAN
    BY <1>9 DEF SwitchTerminal, TakeOver
  <2>7. QED
    BY <1>1, <2>1, <2>5, <2>6 DEF TypeInv
<1>10. CursorsAt(0) \in [Terminals -> Places] /\ \A t : CursorsAt(t) = CursorsAt(0)
  BY <1>1 DEF CursorsAt, TypeInv
<1>11. CASE StartShell
  <2>. DEFINE target == pit_count
              at == cursor'[target]
              visible == on_screen = target
              buffer == video_buffer[target]
              placed == [screen EXCEPT !.x = at.x, !.y = at.y]
              named == Putc(placed, "char", buffer, visible)
  <2>1. /\ cursor' = CursorsAt(target) /\ curr_terminal' = target /\ pit_count' = target + 1
        /\ target < NUMBER_OF_TERMINALS
        /\ putc' = Idle /\ UNCHANGED <<video_buffer, on_screen>> /\ astray' \in BOOLEAN
        /\ screen' = Putc(named, "newline", buffer, visible)
    BY <1>11 DEF StartShell, Announced, TakeOver
  <2>2. target \in Terminals /\ pit_count' \in 0 .. NUMBER_OF_TERMINALS + 1
    BY <2>1, ScreenAssumption DEF TypeInv, Terminals
  <2>3. cursor' \in [Terminals -> Places] /\ at.x \in Nat /\ at.y \in Nat /\ buffer \in Pages
    BY <1>1, <1>10, <2>1, <2>2 DEF Places
  <2>4. placed \in Screens
    BY <2>3, Placed DEF TypeInv
  <2>5. visible \in BOOLEAN
    OBVIOUS
  <2>. HIDE DEF placed, buffer, visible
  <2>6. named \in Screens
    BY <2>3, <2>4, <2>5, PutcKeepsType
  <2>. HIDE DEF named
  <2>7. screen' \in Screens
    BY <2>1, <2>3, <2>5, <2>6, PutcKeepsType
  <2>8. QED
    BY <1>1, <2>1, <2>2, <2>3, <2>7, LocalsStart DEF TypeInv, Idle, Statements, Chars
<1>12. CASE FirstTerminalTick
  <2>1. /\ cursor' \in [Terminals -> Places] /\ pit_count = NUMBER_OF_TERMINALS
        /\ pit_count' = pit_count + 1
        /\ curr_terminal' = 0 /\ UNCHANGED <<on_screen, putc>> /\ astray' \in BOOLEAN
        /\ screen' = [screen EXCEPT !.x = cursor'[0].x, !.y = cursor'[0].y]
        /\ video_buffer' = [video_buffer EXCEPT ![0] = BufferOf(0)]
    BY <1>10, <1>12 DEF FirstTerminalTick, AllStarted, TakeOver
  <2>2. cursor'[0].x \in Nat /\ cursor'[0].y \in Nat /\ BufferOf(0) \in Pages
    BY <1>1, <2>1 DEF Places, BufferOf
  <2>3. screen' \in Screens
    BY <2>1, <2>2, Placed DEF TypeInv
  <2>4. pit_count' \in 0 .. NUMBER_OF_TERMINALS + 1
    BY <2>1, ScreenAssumption
  <2>5. QED
    BY <1>1, <2>1, <2>2, <2>3, <2>4 DEF TypeInv
<1>13. CASE Tick
  BY <1>1, <1>13 DEF Tick, BufferOf, TypeInv, Putcs, history
<1>14. CASE UNCHANGED vars
  BY <1>14 DEF vars, terminals, history, TypeInv
<1>15. QED
  BY <1>4, <1>5, <1>6, <1>7, <1>8, <1>9, <1>11, <1>12, <1>13, <1>14 DEF Next, Keyboard, Timer

LEMMA TypeStart == Init => TypeInv
<1>1. Init => Idle \in Putcs
  BY LocalsStart DEF Idle, Pages, Statements, Chars
<1>2. Init => screen \in Screens
  BY ScreenAssumption DEF Init, Screens, Pages, Blank
<1>3. Init => cursor \in [Terminals -> Places] /\ video_buffer \in [Terminals -> Pages]
  BY DEF Init, Places, Pages, Origin
<1>4. 0 \in Terminals /\ 0 \in 0 .. NUMBER_OF_TERMINALS + 1
  BY ScreenAssumption DEF Terminals
<1>5. QED
  BY <1>1, <1>2, <1>3, <1>4 DEF Init, TypeInv

\* The screen's pages, the cursors, the buffers and the counter of the boot's ticks
\* keep their types, also while a cursor that was taken over in the middle of a putc
\* is off the screen.
THEOREM TypeCorrect == Spec => []TypeOK
<1>1. TypeInv => TypeOK
  BY DEF TypeInv, TypeOK, Screens
<1>2. QED
  BY <1>1, TypeStart, TypeStep, PTL DEF Spec

-----------------------------------------------------------------------------
(***************************************************************************)
(* The cursor                                                              *)
(***************************************************************************)
Scrolling == {"scroll", "load_source", "load_page", "move"}

\* From the store of the column on the cursor is in a column of the screen, and the
\* scroll brings its row back.
CursorInv ==
    /\ astray => ~On(screen)
    /\ ~astray /\ putc.pc \notin InHand => On(screen)
    /\ ~astray /\ putc.pc \in Scrolling => screen.x < COLS
    /\ putc.pc = "store_column" => putc.reg < COLS

LEMMA HereOn == (Here \in Cursors <=> On(screen)) /\ (Here' \in Cursors <=> On(screen'))
BY DEF Here, Cursors, On

LEMMA CursorStart == Init => CursorInv
BY ScreenAssumption DEF Init, CursorInv, On, Idle, Locals, InHand, Scrolling

\* Keys and the timer leave a program's putc where it is, and the cursor at the same
\* place, on the screen or, for an erased character, nearer to it.
Nearer ==
    \/ On(screen')
    \/ screen'.x = screen.x /\ screen'.y = screen.y
    \/ screen.x \in Nat \ {0} /\ screen'.x = screen.x - 1 /\ screen'.y = screen.y
    \/ screen.y \in Nat \ {0} /\ screen'.y = screen.y - 1 /\ screen'.x = COLS - 1

LEMMA CursorMoved ==
    ASSUME TypeInv, CursorInv, putc' = putc, Nearer, KeepAstray
    PROVE  CursorInv'
<1>1. screen.x \in Nat /\ screen.y \in Nat /\ COLS \in Nat \ {0} /\ ROWS \in Nat \ {0}
  BY ScreenAssumption DEF TypeInv, Screens
<1>2. astray' = (astray /\ ~On(screen'))
  BY HereOn DEF KeepAstray
<1>3. On(screen) => On(screen')
  BY <1>1 DEF Nearer, On
<1>4. screen.x < COLS => screen'.x < COLS
  BY <1>1 DEF Nearer, On
<1>5. On(screen') => screen'.x < COLS
  BY <1>1 DEF On
<1>6. QED
  BY <1>2, <1>3, <1>4, <1>5 DEF CursorInv

\* A cursor taken over from another terminal.
LEMMA CursorTaken ==
    ASSUME CursorInv, putc' \in {putc, Idle}, TakeOver
    PROVE  CursorInv'
<1>1. astray' = ~On(screen')
  BY HereOn DEF TakeOver
<1>2. On(screen') => screen'.x < COLS
  BY ScreenAssumption DEF On
<1>3. Idle.pc = "idle"
  BY DEF Idle, Locals
<1>4. QED
  BY <1>1, <1>2, <1>3 DEF CursorInv, Scrolling

LEMMA EchoMoves ==
    ASSUME TypeInv, NEW c, screen' = Echo(screen, c)
    PROVE  Nearer
<1>. DEFINE buffer == video_buffer[curr_terminal]
<1>. HIDE DEF buffer
<1>1. screen' = Putc(screen, c, buffer, TRUE)
  BY DEF Echo, buffer
<1>2. Shaped(screen) /\ screen.x \in Nat /\ screen.y \in Nat
  BY DEF TypeInv, Screens, Shaped
<1>3. \/ On(Putc(screen, c, buffer, TRUE))
      \/ /\ Putc(screen, c, buffer, TRUE).x = screen.x
         /\ Putc(screen, c, buffer, TRUE).y = screen.y
  BY <1>2, PutcLands
<1>4. QED
  BY <1>1, <1>3 DEF Nearer

LEMMA BackMoves ==
    ASSUME TypeInv, screen' = Removed(screen)
    PROVE  Nearer
<1>1. Shaped(screen) /\ screen.x \in Nat /\ screen.y \in Nat
  BY DEF TypeInv, Screens, Shaped
<1>2. CASE NothingRemoved(screen)
  BY <1>1, <1>2 DEF Removed, Shaped, Nearer
<1>3. CASE ~NothingRemoved(screen)
  <2>. DEFINE erased == Fill(screen, VIDEO, Position(screen) - 1, 1, FALSE)
  <2>1. screen' = Back(erased)
    BY <1>3 DEF Removed
  <2>2. Shaped(erased) /\ erased.x = screen.x /\ erased.y = screen.y
    <3>1. SameButCells(erased, screen)  BY ONLY <1>1, FillKeeps
    <3>. HIDE DEF erased
    <3>2. QED  BY ONLY <3>1 DEF SameButCells
  <2>. HIDE DEF erased
  <2>3. CASE screen.x > 0
    <3>1. screen' = [erased EXCEPT !.x = erased.x - 1]
      BY <2>1, <2>2, <2>3 DEF Back
    <3>2. screen'.x = screen.x - 1 /\ screen'.y = screen.y
      BY <2>2, <3>1 DEF Shaped
    <3>3. QED  BY <1>1, <2>3, <3>2 DEF Nearer
  <2>4. CASE ~(screen.x > 0)
    <3>1. screen' = [erased EXCEPT !.x = COLS - 1, !.y = erased.y - 1]
      BY <2>1, <2>2, <2>4 DEF Back
    <3>2. screen'.x = COLS - 1 /\ screen'.y = screen.y - 1
      BY <2>2, <3>1 DEF Shaped
    <3>3. screen.y # 0  BY <1>1, <1>3, <2>4 DEF NothingRemoved
    <3>4. QED  BY <1>1, <3>2, <3>3 DEF Nearer
  <2>5. QED  BY <2>3, <2>4
<1>4. QED  BY <1>2, <1>3

LEMMA KeyStep ==
    ASSUME TypeInv, CursorInv, Keyboard \/ Timer
    PROVE  CursorInv'
<1>1. ASSUME NEW c, TypeKey(c)  PROVE CursorInv'
  BY <1>1, EchoMoves, CursorMoved DEF TypeKey, UnchangedByKey
<1>2. CASE EnterKey
  BY <1>2, EchoMoves, CursorMoved DEF EnterKey, UnchangedByKey
<1>3. CASE Backspace
  BY <1>3, BackMoves, CursorMoved DEF Backspace, UnchangedByKey
<1>4. CASE ClearKey
  <2>1. putc' = putc /\ screen' = Cleared(Echo(screen, "char")) /\ KeepAstray
    BY <1>4 DEF ClearKey, UnchangedByKey
  <2>. DEFINE echoed == Echo(screen, "char")
              blank == Fill(echoed, echoed.at, 0, ROWS * COLS, FALSE)
  <2>2. Shaped(echoed)
    <3>1. Shaped(screen) /\ screen.x \in Nat /\ screen.y \in Nat
      BY DEF TypeInv, Screens, Shaped
    <3>2. QED  BY <3>1, PutcLands DEF Echo
  <2>. HIDE DEF echoed
  <2>3. Shaped(blank)
    <3>1. SameButCells(blank, echoed)  BY ONLY <2>2, FillKeeps
    <3>2. QED  BY ONLY <3>1 DEF SameButCells
  <2>4. screen' = [blank EXCEPT !.mem[video_buffer[on_screen]] = blank.mem[echoed.at],
                                !.x = 0, !.y = 0]
    BY <2>1 DEF Cleared, echoed
  <2>. HIDE DEF blank
  <2>5. screen'.x = 0 /\ screen'.y = 0
    BY <2>3, <2>4 DEF Shaped
  <2>6. Nearer
    BY <2>5, ScreenAssumption DEF Nearer, On
  <2>7. QED  BY <2>1, <2>6, CursorMoved
<1>5. ASSUME NEW target \in Terminals, SwitchTerminal(target)  PROVE CursorInv'
  BY <1>5, CursorTaken DEF SwitchTerminal, UnchangedByKey
<1>6. CASE StartShell
  BY <1>6, CursorTaken DEF StartShell
<1>7. CASE FirstTerminalTick
  BY <1>7, CursorTaken DEF FirstTerminalTick
<1>8. CASE Tick
  BY <1>8 DEF Tick, history, CursorInv, On
<1>9. QED
  BY <1>1, <1>2, <1>3, <1>4, <1>5, <1>6, <1>7, <1>8 DEF Keyboard, Timer

LEMMA ProgramStep ==
    ASSUME TypeInv, CursorInv, Program
    PROVE  CursorInv'
<1>1. /\ screen.x \in Nat /\ screen.y \in Nat /\ COLS \in Nat \ {0} /\ ROWS \in Nat \ {0}
      /\ screen \in Screens /\ putc \in Putcs /\ putc.reg \in Nat /\ Shaped(screen)
  BY ScreenAssumption DEF TypeInv, Screens, Putcs, Shaped
<1>2. \A pc : Between(pc).pc = pc /\ \A n : /\ [Between(pc) EXCEPT !.reg = n].pc = pc
                                          /\ [Between(pc) EXCEPT !.reg = n].reg = n
  BY DEF Between, Locals
\* A statement that leaves the cursor alone.
<1>3. ASSUME screen'.x = screen.x, screen'.y = screen.y, astray' = astray,
             putc'.pc # "store_column",
             ~astray /\ putc'.pc \notin InHand => On(screen),
             ~astray /\ putc'.pc \in Scrolling => screen.x < COLS
      PROVE  CursorInv'
  BY <1>3 DEF CursorInv, On
<1>4. ASSUME NEW at, screen' \in {screen, [screen EXCEPT !.at = at]}
      PROVE  screen'.x = screen.x /\ screen'.y = screen.y
  BY <1>1, <1>4 DEF Shaped
<1>5. ASSUME NEW page, NEW cell, NEW n, NEW ink, screen' = Fill(screen, page, cell, n, ink)
      PROVE  screen'.x = screen.x /\ screen'.y = screen.y
  <2>1. SameButCells(Fill(screen, page, cell, n, ink), screen)  BY <1>1, FillKeeps
  <2>2. QED  BY <1>5, <2>1 DEF SameButCells
\* Before and after the statement the cursor is not in hand.
<1>6. ASSUME putc.pc \notin InHand, screen'.x = screen.x, screen'.y = screen.y, astray' = astray,
             putc'.pc \notin InHand
      PROVE  CursorInv'
  BY <1>3, <1>6 DEF CursorInv, InHand, Scrolling
<1>7. ASSUME NEW c, PutcCall(c)  PROVE CursorInv'
  BY <1>6, <1>7 DEF PutcCall, At, history, Locals, InHand
<1>8. CASE PutcStart
  <2>1. putc'.pc = "test" /\ putc.pc = "start"
    BY <1>1, <1>8 DEF PutcStart, At, Putcs
  <2>2. screen'.x = screen.x /\ screen'.y = screen.y
    BY <1>4, <1>8 DEF PutcStart
  <2>3. QED  BY <1>6, <1>8, <2>1, <2>2 DEF PutcStart, history, InHand
<1>9. CASE PutcTest
  <2>1. putc'.pc \in {"idle", "aim"} /\ putc.pc = "test"
    BY <1>1, <1>9 DEF PutcTest, At, Putcs, Idle, Locals
  <2>2. QED  BY <1>6, <1>9, <2>1 DEF PutcTest, history, InHand
<1>10. CASE PutcAim
  <2>1. putc'.pc \in {"load_y", "draw"} /\ putc.pc = "aim"
    BY <1>2, <1>10 DEF PutcAim, At, Goto
  <2>2. screen'.x = screen.x /\ screen'.y = screen.y
    BY <1>4, <1>10 DEF PutcAim
  <2>3. QED  BY <1>6, <1>10, <2>1, <2>2 DEF PutcAim, history, InHand
<1>11. CASE PutcAddress
  <2>1. putc'.pc \in {"put", "blank"} /\ putc.pc \in {"draw", "clear"}
    BY <1>1, <1>11 DEF PutcAddress, At, Putcs
  <2>2. QED  BY <1>6, <1>11, <2>1 DEF PutcAddress, history, InHand
<1>12. CASE PutcPut
  <2>1. putc'.pc \in {"load_x", "clear"} /\ putc.pc \in {"put", "blank"}
    <3>. DEFINE n == putc.idx + 1
    <3>1. /\ putc' = Between("load_x") \/ putc' = [Between("clear") EXCEPT !.idx = n]
          /\ putc.pc \in {"put", "blank"}
      BY <1>12 DEF PutcPut, At, Goto
    <3>. HIDE DEF n
    <3>2. [Between("clear") EXCEPT !.idx = n].pc = "clear"
      BY DEF Between, Locals
    <3>3. QED  BY <1>2, <3>1, <3>2
  <2>2. screen'.x = screen.x /\ screen'.y = screen.y
    <3>1. \/ screen' = Fill(screen, putc.page, putc.reg, 1, TRUE)
          \/ screen' = Fill(screen, putc.page, putc.reg, 1, FALSE)
      BY <1>12 DEF PutcPut
    <3>2. QED  BY <1>5, <3>1
  <2>3. QED  BY <1>6, <1>12, <2>1, <2>2 DEF PutcPut, InHand
<1>13. CASE PutcLoad
  <2>1. UNCHANGED <<screen, astray>>
    BY <1>13 DEF PutcLoad, history
  <2>2. CASE At("load_x") /\ Calc("store_x", screen.x + 1)
    BY <1>2, <1>6, <2>1, <2>2 DEF At, Calc, InHand
  <2>3. CASE At("load_y") /\ Calc("newline", screen.y + 1)
    BY <1>2, <1>6, <2>1, <2>3 DEF At, Calc, InHand
  <2>4. CASE At("load_row") /\ Calc("store_row", screen.y + screen.x \div COLS)
    BY <1>2, <1>3, <2>1, <2>4 DEF Calc, InHand, Scrolling
  <2>5. CASE At("load_column") /\ Calc("store_column", screen.x % COLS)
    <3>1. putc'.pc = "store_column" /\ putc'.reg = screen.x % COLS
      BY <1>2, <2>5 DEF Calc
    <3>2. screen.x % COLS < COLS
      BY <1>1, Columns
    <3>3. QED
      BY <2>1, <3>1, <3>2 DEF CursorInv, InHand, Scrolling
  <2>6. QED
    BY <1>13, <2>2, <2>3, <2>4, <2>5 DEF PutcLoad
<1>14. CASE PutcStore
  <2>1. astray' = (astray /\ ~On(screen'))
    BY <1>14, HereOn DEF PutcStore, KeepAstray
  <2>2. CASE \E pc \in {"load_row", "newline_x", "load_column"} : Goto(pc)
    <3>1. putc'.pc \in {"load_row", "newline_x", "load_column"}
      BY <1>2, <2>2 DEF Goto
    <3>2. QED
      BY <2>1, <3>1 DEF CursorInv, InHand, Scrolling
  <2>3. CASE Goto("scroll") /\ \/ At("newline_x") /\ screen' = [screen EXCEPT !.x = 0]
                               \/ At("store_column") /\ screen' = [screen EXCEPT !.x = putc.reg]
    <3>1. putc'.pc = "scroll"
      BY <1>2, <2>3 DEF Goto
    <3>2. screen'.x < COLS
      BY <1>1, <2>3 DEF Shaped, At, CursorInv
    <3>3. QED
      BY <2>1, <3>1, <3>2 DEF CursorInv, InHand
  <2>4. QED
    BY <1>14, <2>2, <2>3 DEF PutcStore
<1>15. CASE PutcScroll
  <2>1. UNCHANGED <<screen, astray>> /\ putc.pc \in Scrolling
    BY <1>15 DEF PutcScroll, history, At, Scrolling
  <2>2. CASE At("scroll") /\ Goto(IF Overflows(screen.y) THEN "load_source" ELSE "restore")
    <3>1. putc'.pc = IF Overflows(screen.y) THEN "load_source" ELSE "restore"
      BY <1>2, <2>2 DEF Goto
    <3>2. ~astray /\ ~Overflows(screen.y) => On(screen)
      BY <1>1, <2>1 DEF CursorInv, Overflows, On
    <3>3. QED
      BY <1>3, <2>1, <3>1, <3>2 DEF CursorInv, InHand
  <2>3. CASE \/ putc' = [putc EXCEPT !.pc = "load_page", !.from = screen.at]
             \/ putc' = [putc EXCEPT !.pc = "move", !.page = screen.at, !.idx = 0]
    <3>1. putc'.pc \in {"load_page", "move"}
      BY <1>1, <2>3 DEF Putcs
    <3>2. QED
      BY <1>3, <2>1, <3>1 DEF CursorInv, InHand
  <2>4. QED
    BY <1>15, <2>2, <2>3 DEF PutcScroll
<1>16. CASE PutcMove
  <2>1. putc'.pc = "move" /\ putc.pc = "move" /\ astray' = astray
    BY <1>1, <1>16 DEF PutcMove, At, Putcs
  <2>2. screen'.x = screen.x /\ screen'.y = screen.y
    BY <1>1, <1>16 DEF PutcMove, Shaped
  <2>3. QED
    BY <1>3, <2>1, <2>2 DEF CursorInv, InHand, Scrolling
<1>17. CASE PutcBottom
  <2>1. putc'.pc = "clear" /\ putc.pc = "move" /\ astray' = (astray /\ ~On(screen'))
    BY <1>2, <1>17, HereOn DEF PutcBottom, At, Goto, KeepAstray
  <2>2. screen'.x = screen.x /\ screen'.y = ROWS - 1
    BY <1>1, <1>17 DEF PutcBottom, Shaped
  <2>3. screen.x < COLS => On(screen')
    BY <1>1, <2>2 DEF On
  <2>4. QED
    BY <2>1, <2>3 DEF CursorInv, Scrolling
<1>18. CASE PutcRestore
  <2>1. screen'.x = screen.x /\ screen'.y = screen.y
    BY <1>4, <1>18 DEF PutcRestore
  <2>2. putc'.pc = "idle" /\ putc.pc \in {"restore", "clear"}
    BY <1>18 DEF PutcRestore, At, Idle, Locals
  <2>3. QED  BY <1>6, <1>18, <2>1, <2>2 DEF PutcRestore, history, InHand
<1>19. QED
  BY <1>7, <1>8, <1>9, <1>10, <1>11, <1>12, <1>13, <1>14, <1>15, <1>16, <1>17, <1>18 DEF Program

\* For every size of the screen, every number of terminals and every interleaving of
\* keys, switches and ticks with the loads and stores of putc and the turns of its
\* scroll: whenever no putc has the cursor in hand, the cursor is on the screen, or it
\* is one that was off the screen when the terminal was left, has been taken over so,
\* and has not been brought back by a character, a newline or a clear since.
THEOREM CursorStaysOnScreen == Spec => []CursorOnScreen
<1>1. TypeInv /\ CursorInv /\ [Next]_vars => CursorInv'
  <2>. SUFFICES ASSUME TypeInv, CursorInv, [Next]_vars
                PROVE  CursorInv'
    OBVIOUS
  <2>1. CASE UNCHANGED vars
    BY <2>1 DEF vars, history, CursorInv, On
  <2>2. QED
    BY <2>1, KeyStep, ProgramStep DEF Next
<1>2. CursorInv => CursorOnScreen
  BY HereOn DEF CursorInv, CursorOnScreen
<1>3. QED
  BY <1>1, <1>2, CursorStart, TypeStart, TypeStep, PTL DEF Spec
-----------------------------------------------------------------------------
(***************************************************************************)
(* The echo of a line                                                      *)
(***************************************************************************)
\* The cursor stands behind the echo of the line, which began on the screen.
Tracked ==
    /\ On(screen) /\ echo.from \in Nat
    /\ Line[1] # "nul"
    /\ Position(screen) = echo.from + Len(Line)

EchoInv ==
    /\ line \in [Terminals -> Seq({"char", "nul"})]
    /\ \A t \in Terminals : Len(line[t]) <= MaxLine
    /\ echo = [ok |-> echo.ok, from |-> echo.from] /\ echo.ok \in BOOLEAN
    /\ echo.ok /\ Line # <<>> => Tracked

\* One row down is COLS cells on.
LEMMA RowBelow ==
    ASSUME NEW y \in Int
    PROVE  COLS * (y + 1) = COLS * y + COLS
BY ScreenAssumption

LEMMA RowsBelow ==
    ASSUME NEW y \in Int, NEW z \in Int, y <= z
    PROVE  COLS * y <= COLS * z
<1>1. COLS \in Nat /\ z - y \in Nat
  BY ScreenAssumption
<1>2. COLS * (z - y) \in Nat
  BY <1>1
<1>3. COLS * z = COLS * y + COLS * (z - y)
  BY <1>1
<1>. DEFINE a == COLS * z
            b == COLS * y
            c == COLS * (z - y)
<1>4. a \in Int /\ b \in Int /\ c \in Nat /\ a = b + c
  BY <1>1, <1>2, <1>3
<1>. HIDE DEF a, b, c
<1>5. b <= a
  BY <1>4
<1>6. QED
  BY <1>5 DEF a, b

\* A step to the right stays in the row or begins the next one.
LEMMA NextColumn ==
    ASSUME NEW x \in 0 .. COLS - 1, NEW y \in Nat,
           NEW column, NEW row, column = (x + 1) % COLS, row = y + (x + 1) \div COLS
    PROVE  \/ x + 1 < COLS /\ column = x + 1 /\ row = y
           \/ x + 1 = COLS /\ column = 0 /\ row = y + 1
<1>1. COLS \in Nat \ {0} /\ x \in Nat /\ x + 1 <= COLS
  BY ScreenAssumption
<1>2. CASE x + 1 < COLS
  <2>1. (x + 1) % COLS = x + 1 /\ (x + 1) \div COLS = 0
    BY <1>1, <1>2
  <2>2. QED  BY <1>2, <2>1
<1>3. CASE x + 1 = COLS
  <2>1. COLS % COLS = 0 /\ COLS \div COLS = 1
    BY <1>1
  <2>2. QED  BY <1>3, <2>1
<1>4. QED
  BY <1>1, <1>2, <1>3

\* A character takes the cursor one cell on, and a scroll a row back.
LEMMA CharLands ==
    ASSUME NEW s \in Screens, On(s), NEW buffer, NEW visible \in BOOLEAN,
           NEW t, t = Putc(s, "char", buffer, visible)
    PROVE  /\ On(t)
           /\ Position(s) + 1 <= ROWS * COLS
           /\ Position(t) = IF Position(s) + 1 >= ROWS * COLS THEN Position(s) + 1 - COLS
                                                              ELSE Position(s) + 1
<1>. DEFINE to == [s EXCEPT !.at = IF visible THEN VIDEO ELSE buffer]
            drawn == Draw(to)
            moved == Advance(drawn)
<1>1. Shaped(s) /\ s.x \in 0 .. COLS - 1 /\ s.y \in 0 .. ROWS - 1
  BY DEF Screens, Shaped, On
<1>2. COLS \in Nat \ {0} /\ ROWS \in Nat \ {0}
  BY ScreenAssumption
<1>3. Shaped(to) /\ to.x = s.x /\ to.y = s.y
  BY <1>1 DEF Shaped
<1>4. Shaped(drawn) /\ drawn.x = s.x /\ drawn.y = s.y
  <2>. HIDE DEF to
  <2>1. SameButCells(drawn, to)
    BY ONLY <1>3, DrawKeeps
  <2>. HIDE DEF drawn
  <2>2. QED
    BY ONLY <1>3, <2>1 DEF SameButCells
<1>. HIDE DEF drawn
<1>5. Shaped(moved) /\ moved.x = (s.x + 1) % COLS /\ moved.y = s.y + (s.x + 1) \div COLS
  <2>1. moved = [drawn EXCEPT !.x = (drawn.x + 1) % COLS, !.y = drawn.y + (drawn.x + 1) \div COLS]
    BY DEF Advance
  <2>2. QED  BY <1>4, <2>1 DEF Shaped
<1>6. ~Returns(s, "char")
  BY DEF Returns
<1>7. t = [Scroll(moved) EXCEPT !.at = IF visible THEN s.at ELSE buffer]
  BY <1>6 DEF Putc, drawn
<1>. HIDE DEF moved
<1>8. \/ /\ s.x + 1 < COLS /\ moved.x = s.x + 1 /\ moved.y = s.y
      \/ /\ s.x + 1 = COLS /\ moved.x = 0 /\ moved.y = s.y + 1
  BY <1>1, <1>5, NextColumn
<1>9. Shaped(Scroll(moved)) /\ Scroll(moved).x = moved.x
      /\ Scroll(moved).y = IF moved.y >= ROWS THEN ROWS - 1 ELSE moved.y
  <2>1. CASE moved.y >= ROWS
    <3>. DEFINE up == RowsUp(moved)
    <3>1. Shaped(up) /\ up.x = moved.x /\ up.y = ROWS - 1
      BY <1>5, RowsUpGoes
    <3>2. Scroll(moved) = Fill(up, moved.at, Position(up), COLS, FALSE)
      BY <2>1 DEF Scroll, Overflows
    <3>. HIDE DEF up
    <3>3. SameButCells(Fill(up, moved.at, Position(up), COLS, FALSE), up)
      BY ONLY <3>1, FillKeeps
    <3>4. SameButCells(Scroll(moved), up)  BY ONLY <3>2, <3>3
    <3>5. QED  BY <2>1, <3>1, <3>4 DEF SameButCells
  <2>2. CASE ~(moved.y >= ROWS)
    BY <1>5, <2>2 DEF Scroll, Overflows
  <2>3. QED  BY <2>1, <2>2
<1>10. t.x = moved.x /\ t.y = IF moved.y >= ROWS THEN ROWS - 1 ELSE moved.y
  BY <1>7, <1>9 DEF Shaped
<1>. DEFINE row == COLS * s.y
            all == COLS * ROWS
<1>11. row \in Int /\ all \in Int /\ Position(s) = row + s.x /\ ROWS * COLS = all
  BY <1>1, <1>2 DEF Position
<1>12. COLS * (s.y + 1) = row + COLS /\ COLS * (ROWS - 1) = all - COLS
  <2>1. COLS * (s.y + 1) = COLS * s.y + COLS
    BY <1>1, RowBelow
  <2>2. COLS * ((ROWS - 1) + 1) = COLS * (ROWS - 1) + COLS
    BY <1>2, RowBelow
  <2>3. (ROWS - 1) + 1 = ROWS
    BY <1>2
  <2>4. COLS * (ROWS - 1) \in Int
    BY <1>2
  <2>5. QED
    BY <1>2, <1>11, <2>1, <2>2, <2>3, <2>4
<1>13. row + COLS <= all /\ (s.y + 1 < ROWS => row + COLS <= all - COLS)
  <2>1. COLS * (s.y + 1) <= COLS * ROWS
    BY <1>1, <1>2, RowsBelow
  <2>2. s.y + 1 < ROWS => COLS * (s.y + 1) <= COLS * (ROWS - 1)
    BY <1>1, <1>2, RowsBelow
  <2>3. QED
    BY <1>12, <2>1, <2>2
<1>14. Position(t) = COLS * t.y + t.x
  BY DEF Position
<1>. HIDE DEF row, all
<1>15. CASE s.x + 1 < COLS
  <2>1. t.x = s.x + 1 /\ t.y = s.y
    BY <1>1, <1>2, <1>8, <1>10, <1>15
  <2>2. Position(t) = row + s.x + 1
    BY <1>1, <1>11, <1>14, <2>1 DEF row
  <2>3. QED
    BY <1>1, <1>2, <1>11, <1>13, <1>15, <2>1, <2>2 DEF On
<1>16. CASE s.x + 1 = COLS /\ s.y + 1 < ROWS
  <2>1. t.x = 0 /\ t.y = s.y + 1
    BY <1>1, <1>2, <1>8, <1>10, <1>16
  <2>2. Position(t) = row + COLS
    BY <1>2, <1>11, <1>12, <1>14, <2>1
  <2>3. QED
    BY <1>1, <1>2, <1>11, <1>13, <1>16, <2>1, <2>2 DEF On
<1>17. CASE s.x + 1 = COLS /\ s.y + 1 = ROWS
  <2>1. t.x = 0 /\ t.y = ROWS - 1
    BY <1>1, <1>2, <1>8, <1>10, <1>17
  <2>2. Position(t) = all - COLS
    BY <1>2, <1>11, <1>12, <1>14, <2>1
  <2>3. row + COLS = all
    BY <1>12, <1>17 DEF all
  <2>4. QED
    BY <1>1, <1>2, <1>11, <1>17, <2>1, <2>2, <2>3 DEF On
<1>18. QED
  BY <1>1, <1>2, <1>15, <1>16, <1>17

LEMMA BackLands ==
    ASSUME NEW s \in Screens, On(s), ~NothingRemoved(s)
    PROVE  On(Removed(s)) /\ Position(Removed(s)) = Position(s) - 1
<1>. DEFINE erased == Fill(s, VIDEO, Position(s) - 1, 1, FALSE)
            t == Removed(s)
<1>1. s.x \in 0 .. COLS - 1 /\ s.y \in 0 .. ROWS - 1 /\ COLS \in Nat \ {0} /\ ROWS \in Nat \ {0}
      /\ (s.x # 0 \/ s.y # 0)
  BY ScreenAssumption DEF On, NothingRemoved
<1>2. Shaped(s)
  BY DEF Screens, Shaped
<1>3. Shaped(erased) /\ erased.x = s.x /\ erased.y = s.y
  <2>1. SameButCells(erased, s)  BY ONLY <1>2, FillKeeps
  <2>. HIDE DEF erased
  <2>2. QED  BY ONLY <2>1 DEF SameButCells
<1>4. t = Back(erased)
  BY DEF Removed
<1>. HIDE DEF erased, t
<1>5. CASE s.x > 0
  <2>1. t = [erased EXCEPT !.x = erased.x - 1]
    BY <1>3, <1>4, <1>5 DEF Back
  <2>2. t.x = s.x - 1 /\ t.y = s.y
    BY <1>3, <2>1 DEF Shaped
  <2>. DEFINE row == COLS * s.y
  <2>3. row \in Int /\ Position(s) = row + s.x /\ Position(t) = row + (s.x - 1)
    BY <1>1, <2>2 DEF Position
  <2>. HIDE DEF row
  <2>4. On(t) /\ Position(t) = Position(s) - 1
    BY <1>1, <1>5, <2>2, <2>3 DEF On
  <2>5. QED
    BY <2>4 DEF t
<1>6. CASE ~(s.x > 0)
  <2>1. t = [erased EXCEPT !.x = COLS - 1, !.y = erased.y - 1]
    BY <1>3, <1>4, <1>6 DEF Back
  <2>2. t.x = COLS - 1 /\ t.y = s.y - 1
    BY <1>3, <2>1 DEF Shaped
  <2>3. COLS * ((s.y - 1) + 1) = COLS * (s.y - 1) + COLS /\ (s.y - 1) + 1 = s.y
    BY <1>1, RowBelow
  <2>. DEFINE row == COLS * (s.y - 1)
  <2>4. row \in Int /\ Position(s) = row + COLS + s.x /\ Position(t) = row + (COLS - 1)
    BY <1>1, <2>2, <2>3 DEF Position
  <2>. HIDE DEF row
  <2>5. On(t) /\ Position(t) = Position(s) - 1
    BY <1>1, <1>6, <2>2, <2>4 DEF On
  <2>6. QED
    BY <2>5 DEF t
<1>7. QED
  BY <1>5, <1>6

LEMMA TypeKeyEchoes ==
    ASSUME TypeInv, EchoInv, NEW c \in {"char", "nul"}, TypeKey(c)
    PROVE  EchoInv'
<1>1. /\ on_screen' = on_screen /\ on_screen \in Terminals
      /\ line' = [line EXCEPT ![on_screen] = Append(Line, c)]
      /\ Line \in Seq({"char", "nul"}) /\ Len(Line) < MaxLine /\ Len(Line) \in Nat
      /\ Line' = Append(Line, c)
  BY DEF TypeKey, Typed, Line, EchoInv, TypeInv, terminals
<1>2. Len(Line') = Len(Line) + 1 /\ Line' \in Seq({"char", "nul"})
      /\ Line'[1] = IF Line = <<>> THEN c ELSE Line[1]
  BY <1>1
<1>3. line' \in [Terminals -> Seq({"char", "nul"})] /\ \A t \in Terminals : Len(line'[t]) <= MaxLine
  BY <1>1, <1>2, ScreenAssumption DEF EchoInv, Line
<1>. DEFINE from == IF Line = <<>> THEN [ok |-> Here \in Cursors, from |-> Position(screen)]
                    ELSE echo
            scrolls == Position(screen) + 1 >= ROWS * COLS
<1>4. /\ from = [ok |-> from.ok, from |-> from.from] /\ from.ok \in BOOLEAN
  <2>1. CASE Line = <<>>
    BY <2>1
  <2>2. CASE Line # <<>>
    BY <2>2 DEF EchoInv
  <2>3. QED
    BY <2>1, <2>2
<1>5. from.ok => /\ On(screen) /\ from.from \in Nat /\ Position(screen) = from.from + Len(Line)
                 /\ (Line = <<>> \/ Line[1] # "nul")
  <2>1. ASSUME Line = <<>>, Here \in Cursors
        PROVE  On(screen) /\ Position(screen) \in Nat /\ Position(screen) = Position(screen) + Len(Line)
    <3>1. On(screen)
      BY <2>1 DEF Here, Cursors, On
    <3>2. Position(screen) \in Nat
      BY <3>1, ScreenAssumption DEF On, Position
    <3>3. Len(Line) = 0
      BY <2>1
    <3>4. QED
      BY <3>1, <3>2, <3>3
  <2>2. QED
    BY <1>1, <2>1 DEF EchoInv, Tracked
<1>6. echo' = [from EXCEPT !.ok = from.ok /\ c = "char",
                           !.from = IF scrolls THEN from.from - COLS ELSE from.from]
  BY DEF TypeKey, EchoOf
<1>. HIDE DEF from
<1>7. /\ echo' = [ok |-> echo'.ok, from |-> echo'.from]
      /\ echo'.ok = (from.ok /\ c = "char")
      /\ echo'.from = IF scrolls THEN from.from - COLS ELSE from.from
  BY <1>4, <1>6
<1>8. ASSUME from.ok, c = "char"
      PROVE  Tracked'
  <2>1. screen \in Screens /\ screen' = Putc(screen, "char", video_buffer[curr_terminal], TRUE)
    BY <1>8 DEF TypeKey, Echo, TypeInv
  <2>2. /\ On(screen') /\ Position(screen) + 1 <= ROWS * COLS
        /\ Position(screen') = IF scrolls THEN Position(screen) + 1 - COLS ELSE Position(screen) + 1
    BY <1>5, <1>8, <2>1, CharLands
  <2>. DEFINE all == ROWS * COLS
              pos == Position(screen)
  <2>3. all \in Nat /\ (ROWS - 1) * COLS = all - COLS /\ COLS \in Nat
    BY ScreenAssumption
  <2>4. MaxLine <= all - COLS /\ MaxLine \in Nat
    BY <2>3, LineAssumption, ScreenAssumption
  <2>5. pos \in Nat /\ pos = from.from + Len(Line) /\ from.from \in Nat
    BY <1>1, <1>5, <1>8
  <2>6. echo'.from = IF pos + 1 >= all THEN from.from - COLS ELSE from.from
    BY <1>7
  <2>7. pos + 1 <= all /\ Position(screen') = IF pos + 1 >= all THEN pos + 1 - COLS ELSE pos + 1
    BY <2>2
  <2>. HIDE DEF all, pos
  <2>8. echo'.from \in Nat
    BY <1>1, <2>3, <2>4, <2>5, <2>6
  <2>9. Position(screen') = echo'.from + Len(Line')
    <3>. DEFINE len == Len(Line)
                begin == from.from
                to == Position(screen')
                begins == echo'.from
    <3>1. len \in Nat /\ Len(Line') = len + 1 /\ begin \in Nat /\ pos = begin + len
      BY <1>1, <1>2, <2>5
    <3>2. begins = IF pos + 1 >= all THEN begin - COLS ELSE begin
      BY <2>6
    <3>3. to = IF pos + 1 >= all THEN pos + 1 - COLS ELSE pos + 1
      BY <2>7
    <3>4. all \in Nat /\ COLS \in Nat /\ pos \in Nat  BY <2>3, <2>5
    <3>. HIDE DEF len, begin, to, begins
    <3>5. to = begins + (len + 1)
      <4>1. CASE pos + 1 >= all
        <5>1. begins = begin - COLS /\ to = pos + 1 - COLS  BY ONLY <3>2, <3>3, <4>1
        <5>2. QED  BY ONLY <3>1, <3>4, <5>1
      <4>2. CASE ~(pos + 1 >= all)
        <5>1. begins = begin /\ to = pos + 1  BY ONLY <3>2, <3>3, <4>2
        <5>2. QED  BY ONLY <3>1, <3>4, <5>1
      <4>3. QED  BY ONLY <4>1, <4>2
    <3>6. QED
      BY ONLY <3>1, <3>5 DEF to, begins
  <2>10. Line'[1] # "nul"
    BY <1>2, <1>5, <1>8
  <2>11. QED
    BY <2>2, <2>8, <2>9, <2>10 DEF Tracked, Position, On
<1>9. QED
  BY <1>3, <1>4, <1>7, <1>8 DEF EchoInv

LEMMA BackspaceTracks ==
    ASSUME TypeInv, EchoInv, Backspace
    PROVE  EchoInv'
<1>1. /\ on_screen' = on_screen /\ on_screen \in Terminals /\ echo' = echo
      /\ line' = [line EXCEPT ![on_screen] = SubSeq(Line, 1, Len(Line) - 1)]
      /\ Line \in Seq({"char", "nul"}) /\ Line # <<>> /\ Len(Line) \in Nat \ {0}
      /\ Len(Line) <= MaxLine
      /\ Line' = SubSeq(Line, 1, Len(Line) - 1)
      /\ screen' = Removed(screen) /\ screen \in Screens
  BY DEF Backspace, Line, EchoInv, TypeInv, terminals
<1>2. /\ Line' \in Seq({"char", "nul"}) /\ Len(Line') = Len(Line) - 1
      /\ Line' # <<>> => Line'[1] = Line[1]
  <2>1. Len(Line) - 1 \in 0 .. Len(Line)
    BY <1>1
  <2>2. SubSeq(Line, 1, Len(Line) - 1) \in Seq({"char", "nul"})
        /\ Len(SubSeq(Line, 1, Len(Line) - 1)) = Len(Line) - 1
        /\ \A i \in 1 .. Len(Line) - 1 : SubSeq(Line, 1, Len(Line) - 1)[i] = Line[i]
    <3>1. \A i \in 1 .. Len(Line) - 1 : Line[i] \in {"char", "nul"}
      BY <1>1
    <3>. DEFINE l == Line
                n == Len(Line) - 1
    <3>2. n \in Int /\ n \in Nat /\ \A i \in 1 .. n : l[i] \in {"char", "nul"}
      BY <1>1, <3>1
    <3>. HIDE DEF l, n
    <3>3. /\ SubSeq(l, 1, n) \in Seq({"char", "nul"})
          /\ Len(SubSeq(l, 1, n)) = IF 1 <= n THEN n - 1 + 1 ELSE 0
          /\ \A i \in 1 .. n - 1 + 1 : SubSeq(l, 1, n)[i] = l[1 + i - 1]
      BY <3>2, SubSeqProperties
    <3>4. Len(SubSeq(l, 1, n)) = n /\ \A i \in 1 .. n : SubSeq(l, 1, n)[i] = l[i]
      BY <3>2, <3>3
    <3>5. QED
      BY <3>3, <3>4 DEF l, n
  <2>3. QED
    BY <1>1, <2>2
<1>3. line' \in [Terminals -> Seq({"char", "nul"})] /\ \A t \in Terminals : Len(line'[t]) <= MaxLine
  BY <1>1, <1>2, ScreenAssumption DEF EchoInv, Line
<1>4. ASSUME echo.ok, Line' # <<>>  PROVE Tracked'
  <2>1. Tracked
    BY <1>1, <1>4 DEF EchoInv
  <2>2. ~NothingRemoved(screen)
    <3>1. Position(screen) # 0
      BY <1>1, <2>1 DEF Tracked
    <3>2. COLS * 0 + 0 = 0
      BY ScreenAssumption
    <3>3. QED
      BY <2>1, <3>1, <3>2 DEF Tracked, NothingRemoved, Position
  <2>3. On(screen') /\ Position(screen') = Position(screen) - 1
    BY <1>1, <2>1, <2>2, BackLands DEF Tracked
  <2>4. Position(screen') = echo.from + Len(Line')
    BY <1>1, <1>2, <2>1, <2>3 DEF Tracked
  <2>5. QED
    BY <1>1, <1>2, <1>4, <2>1, <2>3, <2>4 DEF Tracked, Position, On
<1>5. QED
  BY <1>1, <1>3, <1>4 DEF EchoInv

LEMMA EchoStep ==
    ASSUME TypeInv, EchoInv, [Next]_vars
    PROVE  EchoInv'
\* The echo is given up: by a store of a program, or by Enter, a switch and a boot tick.
<1>1. ASSUME echo' = NoEcho, line' = line \/ line' = [line EXCEPT ![on_screen] = <<>>]
      PROVE  EchoInv'
  <2>1. <<>> \in Seq({"char", "nul"}) /\ Len(<<>>) <= MaxLine
    BY ScreenAssumption
  <2>2. line' \in [Terminals -> Seq({"char", "nul"})] /\ \A t \in Terminals : Len(line'[t]) <= MaxLine
    BY <1>1, <2>1 DEF EchoInv
  <2>3. QED
    BY <1>1, <2>2 DEF EchoInv, NoEcho
<1>2. ASSUME UNCHANGED <<on_screen, line, echo>>, screen'.x = screen.x, screen'.y = screen.y
      PROVE  EchoInv'
  BY <1>2 DEF EchoInv, Tracked, Line, On, Position
<1>3. ASSUME NEW at, screen' \in {screen, [screen EXCEPT !.at = at]}
      PROVE  screen'.x = screen.x /\ screen'.y = screen.y
  BY <1>3 DEF TypeInv, Screens
<1>4. CASE Program
  <2>1. ASSUME NEW c, PutcCall(c)  PROVE EchoInv'
    BY <1>2, <2>1 DEF PutcCall, terminals, history
  <2>2. CASE PutcStart \/ PutcTest \/ PutcAim \/ PutcAddress \/ PutcLoad \/ PutcScroll \/ PutcRestore
    BY <1>2, <1>3, <2>2
    DEF PutcStart, PutcTest, PutcAim, PutcAddress, PutcLoad, PutcScroll, PutcRestore,
        UnchangedByPutc, terminals, history
  <2>3. CASE PutcPut \/ PutcStore \/ PutcMove \/ PutcBottom
    BY <1>1, <2>3 DEF PutcPut, PutcStore, PutcMove, PutcBottom, UnchangedByPutc
  <2>4. QED
    BY <1>4, <2>1, <2>2, <2>3 DEF Program
<1>5. CASE EnterKey \/ \E target \in Terminals : SwitchTerminal(target)
  BY <1>1, <1>5 DEF EnterKey, SwitchTerminal
<1>6. CASE ClearKey
  <2>1. /\ on_screen \in Terminals /\ Line \in Seq({"char", "nul"}) /\ Len(Line) < MaxLine
        /\ line' = [line EXCEPT ![on_screen] = Append(Line, "char")] /\ echo' = NoEcho
    BY <1>6 DEF ClearKey, Typed, EchoInv, TypeInv, Line
  <2>2. Append(Line, "char") \in Seq({"char", "nul"}) /\ Len(Append(Line, "char")) <= MaxLine
    BY <2>1, ScreenAssumption
  <2>3. QED
    BY <2>1, <2>2 DEF EchoInv, NoEcho
<1>7. CASE StartShell \/ FirstTerminalTick
  BY <1>1, <1>7 DEF StartShell, FirstTerminalTick
<1>8. CASE Tick
  BY <1>2, <1>8 DEF Tick, history
<1>9. CASE UNCHANGED vars
  BY <1>2, <1>9 DEF vars, terminals, history
<1>10. QED
  BY <1>4, <1>5, <1>6, <1>7, <1>8, <1>9, TypeKeyEchoes, BackspaceTracks
  DEF Next, Keyboard, Timer

\* For every size of the screen, every prompt and every line that fits above the last
\* row, across the ends of rows and scrolls: while no program writes and the
\* terminal is not switched, the cursor stands as many cells behind the prompt as
\* the line has characters, so that backspace never erases the prompt.
THEOREM EchoStaysWithLine == Spec => []EchoTracksLine
<1>1. Init => EchoInv
  BY ScreenAssumption DEF Init, EchoInv, NoEcho
<1>2. EchoInv => EchoTracksLine
  BY DEF EchoInv, Tracked, EchoTracksLine
<1>3. QED
  BY <1>1, <1>2, TypeStart, TypeStep, EchoStep, PTL DEF Spec
-----------------------------------------------------------------------------
(***************************************************************************)
(* What the user left                                                      *)
(***************************************************************************)
Remembered == [known : BOOLEAN, page : [Cells -> BOOLEAN], cursor : Places, stray : SUBSET Cells]
Shown == 0 .. ROWS * COLS - 1

Kept(t) ==
    /\ cursor[t] = left[t].cursor
    /\ \A i \in Shown \ left[t].stray : screen.mem[t][i] = left[t].page[i]

LeftInv ==
    /\ \A t \in Terminals : video_buffer[t] \in {t, VIDEO}
    /\ left \in [Terminals -> Remembered]
    /\ curr_terminal # on_screen => ~left[curr_terminal].known
    /\ \A t \in Terminals \ {on_screen} : left[t].known => Kept(t)

\* Of the cells of the terminals in T, those in which the memories m and n differ are
\* recorded in new, which has forgotten a terminal or has all that old has of it.
Covered(T, m, old, n, new) ==
    /\ new \in [Terminals -> Remembered]
    /\ \A t \in T : new[t].known =>
        /\ old[t].known /\ new[t].page = old[t].page /\ new[t].cursor = old[t].cursor
        /\ \A i \in Cells \ new[t].stray : i \notin old[t].stray /\ n[t][i] = m[t][i]

LEMMA CoveredTwice ==
    ASSUME NEW T, NEW m, NEW old, NEW n, NEW new, NEW o, NEW newer,
           Covered(T, m, old, n, new), Covered(T, n, new, o, newer)
    PROVE  Covered(T, m, old, o, newer)
BY DEF Covered

LEMMA NotSeenType == NotSeen \in Remembered /\ ~NotSeen.known
BY DEF NotSeen, Remembered, Blank, Origin, Places

LEMMA FillCovered ==
    ASSUME NEW s \in Screens, NEW old \in [Terminals -> Remembered],
           NEW page, NEW first, NEW n, NEW ink \in BOOLEAN
    PROVE  Covered(Terminals, s.mem, old, Fill(s, page, first, n, ink).mem,
                   Spill(old, page, first, n))
<1>. DEFINE new == Spill(old, page, first, n)
            filled == Fill(s, page, first, n, ink)
            hit(t) == {i \in Cells : (t - page) * PAGE + i \in first .. first + n - 1}
<1>1. \A t \in Terminals :
        new[t] = IF t = page THEN NotSeen ELSE [old[t] EXCEPT !.stray = old[t].stray \cup hit(t)]
  BY DEF Spill
<1>2. new = [t \in Terminals |-> new[t]]
  BY DEF Spill
<1>3. \A t \in Pages, i \in Cells :
        filled.mem[t][i] = IF i \in hit(t) THEN ink ELSE s.mem[t][i]
  BY DEF Fill, Screens
<1>4. \A t : hit(t) \subseteq Cells
  OBVIOUS
<1>5. Terminals \subseteq Pages
  BY DEF Pages
<1>. HIDE DEF new, filled, hit
<1>6. ASSUME NEW t \in Terminals
      PROVE  /\ new[t] \in Remembered
             /\ new[t].known =>
                  /\ old[t].known /\ new[t].page = old[t].page /\ new[t].cursor = old[t].cursor
                  /\ new[t].stray = old[t].stray \cup hit(t)
  <2>1. old[t] \in Remembered
    OBVIOUS
  <2>2. CASE t = page
    BY <1>1, <2>2, NotSeenType
  <2>3. CASE t # page
    <3>. DEFINE record == old[t]
                stray == old[t].stray \cup hit(t)
    <3>1. record \in Remembered /\ stray \in SUBSET Cells
      BY <1>4, <2>1 DEF Remembered
    <3>2. new[t] = [record EXCEPT !.stray = stray]
      BY <1>1, <2>3
    <3>. HIDE DEF record, stray
    <3>3. /\ new[t] \in Remembered /\ new[t].stray = stray /\ new[t].known = record.known
          /\ new[t].page = record.page /\ new[t].cursor = record.cursor
      BY <3>1, <3>2 DEF Remembered
    <3>4. QED
      BY <3>3 DEF record, stray
  <2>4. QED
    BY <2>2, <2>3
<1>7. new \in [Terminals -> Remembered]
  BY <1>2, <1>6
<1>8. Covered(Terminals, s.mem, old, filled.mem, new)
  BY <1>3, <1>5, <1>6, <1>7 DEF Covered
<1>9. QED
  BY <1>8 DEF new, filled

\* A page written to is forgotten, whatever is written.
LEMMA SpillCovered ==
    ASSUME NEW s \in Screens, NEW old \in [Terminals -> Remembered],
           NEW page, NEW first, NEW n, NEW m, \A t \in Terminals : t # page => m[t] = s.mem[t]
    PROVE  Covered(Terminals, s.mem, old, m, Spill(old, page, first, n))
<1>1. Covered(Terminals, s.mem, old, Fill(s, page, first, n, TRUE).mem, Spill(old, page, first, n))
  BY FillCovered
<1>. DEFINE new == Spill(old, page, first, n)
<1>2. \A t \in Terminals : t = page => ~new[t].known
  BY NotSeenType DEF Spill
<1>3. \A t \in Terminals : t # page /\ new[t].known =>
        \A i \in Cells \ new[t].stray : m[t][i] = s.mem[t][i]
  OBVIOUS
<1>. HIDE DEF new
<1>4. Covered(Terminals, s.mem, old, Fill(s, page, first, n, TRUE).mem, new)
  BY <1>1 DEF new
<1>5. Covered(Terminals, s.mem, old, m, new)
  BY <1>2, <1>3, <1>4 DEF Covered
<1>6. QED
  BY <1>5 DEF new

\* The record of a scroll needs of the screen only the cursor and the page.
LEMMA ScrollSpillSame ==
    ASSUME NEW s, NEW r, Shaped(s), Shaped(r), s.at = r.at, s.x = r.x, s.y = r.y, NEW seen
    PROVE  ScrollSpill(seen, s) = ScrollSpill(seen, r)
<1>1. Position(RowsUp(s)) = Position(RowsUp(r))
  <2>1. RowsUp(s).x = s.x /\ RowsUp(s).y = ROWS - 1
    BY RowsUpGoes
  <2>2. RowsUp(r).x = r.x /\ RowsUp(r).y = ROWS - 1
    BY RowsUpGoes
  <2>3. QED
    BY <2>1, <2>2 DEF Position
<1>. DEFINE first == Position(RowsUp(s))
<1>2. ScrollSpill(seen, s) = IF Overflows(s.y) THEN Spill(seen, s.at, first, COLS) ELSE seen
  BY DEF ScrollSpill
<1>3. ScrollSpill(seen, r) = IF Overflows(r.y) THEN Spill(seen, r.at, first, COLS) ELSE seen
  BY <1>1 DEF ScrollSpill
<1>. HIDE DEF first
<1>4. QED
  BY <1>2, <1>3

LEMMA ScrollCovered ==
    ASSUME NEW s \in Screens, NEW old \in [Terminals -> Remembered]
    PROVE  Covered(Terminals, s.mem, old, Scroll(s).mem, ScrollSpill(old, s))
<1>1. CASE Overflows(s.y)
  <2>. DEFINE up == RowsUp(s)
              first == Position(up)
              new == Spill(old, s.at, first, COLS)
              scrolled == Fill(up, s.at, first, COLS, FALSE)
  <2>1. up \in Screens
    BY RowsUpType
  <2>2. \A t \in Pages \ {s.at} : up.mem[t] = s.mem[t]
    BY DEF RowsUp, Screens
  <2>3. new = ScrollSpill(old, s) /\ scrolled = Scroll(s)
    BY <1>1 DEF ScrollSpill, Scroll
  <2>4. \A t \in Terminals : t = s.at => new[t] = NotSeen
    BY DEF Spill
  <2>5. Terminals \subseteq Pages
    BY DEF Pages
  <2>. HIDE DEF up, first
  <2>6. Covered(Terminals, up.mem, old, scrolled.mem, new)
    BY <2>1, FillCovered
  <2>. HIDE DEF new, scrolled
  <2>7. Covered(Terminals, s.mem, old, scrolled.mem, new)
    BY <2>2, <2>4, <2>5, <2>6, NotSeenType DEF Covered
  <2>8. QED
    BY <2>3, <2>7
<1>2. CASE ~Overflows(s.y)
  BY <1>2 DEF Scroll, ScrollSpill, Covered
<1>3. QED
  BY <1>1, <1>2

LEMMA EchoCovered ==
    ASSUME TypeInv, left \in [Terminals -> Remembered], NEW c
    PROVE  Covered(Terminals, screen.mem, left, Echo(screen, c).mem, EchoSpill(c))
<1>. DEFINE buffer == video_buffer[curr_terminal]
            to == [screen EXCEPT !.at = VIDEO]
<1>1. screen \in Screens /\ VIDEO \in Pages /\ buffer \in Pages
  BY DEF TypeInv, Pages
<1>2. to \in Screens /\ to.mem = screen.mem
  BY <1>1, Placed DEF Screens
<1>. HIDE DEF buffer
<1>3. CASE Returns(screen, c)
  <2>1. Echo(screen, c) = [screen EXCEPT !.at = buffer] /\ EchoSpill(c) = left
    BY <1>3 DEF Echo, Putc, EchoSpill, buffer
  <2>2. Echo(screen, c).mem = screen.mem
    BY <1>1, <2>1 DEF Screens
  <2>3. QED
    BY <2>1, <2>2 DEF Covered
<1>4. CASE ~Returns(screen, c) /\ c = "newline"
  <2>. DEFINE moved == Newline(to)
  <2>1. Echo(screen, c) = [Scroll(moved) EXCEPT !.at = screen.at]
        /\ EchoSpill(c) = ScrollSpill(left, moved)
    BY <1>4 DEF Echo, Putc, EchoSpill
  <2>2. moved \in Screens /\ moved.mem = screen.mem
    <3>1. moved = [to EXCEPT !.x = 0, !.y = to.y + 1]
      BY DEF Newline
    <3>. HIDE DEF to
    <3>2. to = [mem |-> to.mem, at |-> to.at, x |-> to.x, y |-> to.y] /\ to.y + 1 \in Nat
      BY <1>2 DEF Screens
    <3>3. moved = [mem |-> to.mem, at |-> to.at, x |-> 0, y |-> to.y + 1]
      BY <3>1, <3>2
    <3>4. QED
      BY <1>2, <3>2, <3>3 DEF Screens
  <2>. HIDE DEF moved
  <2>3. Scroll(moved) \in Screens
    BY <2>2, ScrollType
  <2>4. Echo(screen, c).mem = Scroll(moved).mem
    BY <2>1, <2>3 DEF Screens
  <2>5. QED
    BY <2>1, <2>2, <2>4, ScrollCovered
<1>5. CASE ~Returns(screen, c) /\ c # "newline"
  <2>. DEFINE drawn == Draw(to)
              moved == Advance(drawn)
              spilt == DrawSpill(to)
  <2>1. Echo(screen, c) = [Scroll(moved) EXCEPT !.at = screen.at]
        /\ EchoSpill(c) = ScrollSpill(spilt, Advance(to))
    BY <1>5 DEF Echo, Putc, EchoSpill
  <2>. HIDE DEF to
  <2>2. drawn = Fill(to, to.at, Position(to), 1, TRUE) /\ spilt = Spill(left, to.at, Position(to), 1)
    BY DEF Draw, DrawSpill
  <2>3. Covered(Terminals, screen.mem, left, drawn.mem, spilt)
    BY <1>2, <2>2, FillCovered
  <2>4. drawn \in Screens /\ drawn.x = to.x /\ drawn.y = to.y /\ drawn.at = to.at
    <3>1. Shaped(to)
      BY <1>2 DEF Screens, Shaped
    <3>2. Fill(to, to.at, Position(to), 1, TRUE) \in Screens
          /\ Fill(to, to.at, Position(to), 1, TRUE).x = to.x /\ Fill(to, to.at, Position(to), 1, TRUE).y = to.y
          /\ Fill(to, to.at, Position(to), 1, TRUE).at = to.at
      <4>1. Fill(to, to.at, Position(to), 1, TRUE) \in Screens  BY <1>2, FillType
      <4>2. SameButCells(Fill(to, to.at, Position(to), 1, TRUE), to)  BY ONLY <3>1, FillKeeps
      <4>3. QED  BY ONLY <4>1, <4>2 DEF SameButCells
    <3>3. QED
      BY <2>2, <3>2
  <2>. HIDE DEF drawn, spilt
  <2>5. ASSUME NEW s \in Screens
        PROVE  /\ Advance(s) \in Screens /\ Shaped(Advance(s)) /\ Advance(s).mem = s.mem
               /\ Advance(s).at = s.at /\ Advance(s).x = (s.x + 1) % COLS
               /\ Advance(s).y = s.y + (s.x + 1) \div COLS
    <3>. DEFINE column == (s.x + 1) % COLS
                row == s.y + (s.x + 1) \div COLS
    <3>1. s.x + 1 \in Nat /\ s.y \in Nat
      BY DEF Screens
    <3>2. column \in Nat /\ row \in Nat
      BY <3>1, Columns, ScreenAssumption
    <3>3. Advance(s) = [s EXCEPT !.x = column, !.y = row]
      BY DEF Advance
    <3>. HIDE DEF column, row
    <3>4. Advance(s) = [mem |-> s.mem, at |-> s.at, x |-> column, y |-> row]
      BY <3>3 DEF Screens
    <3>5. Advance(s) \in Screens /\ Shaped(Advance(s))
      BY <3>2, <3>4 DEF Screens, Shaped
    <3>6. QED
      BY <3>4, <3>5 DEF column, row
  <2>6. ScrollSpill(spilt, moved) = ScrollSpill(spilt, Advance(to))
    <3>1. /\ Shaped(moved) /\ Shaped(Advance(to)) /\ moved.at = Advance(to).at
          /\ moved.x = Advance(to).x /\ moved.y = Advance(to).y
      BY <1>2, <2>4, <2>5
    <3>. DEFINE a == moved
                b == Advance(to)
    <3>. HIDE DEF a, b
    <3>2. Shaped(a) /\ Shaped(b) /\ a.at = b.at /\ a.x = b.x /\ a.y = b.y
      BY <3>1 DEF a, b
    <3>3. ScrollSpill(spilt, a) = ScrollSpill(spilt, b)
      BY <3>2, ScrollSpillSame
    <3>4. QED
      BY <3>3 DEF a, b
  <2>7. moved \in Screens /\ moved.mem = drawn.mem
    BY <2>4, <2>5
  <2>. HIDE DEF moved
  <2>8. spilt \in [Terminals -> Remembered]
    BY <2>3 DEF Covered
  <2>9. Covered(Terminals, drawn.mem, spilt, Scroll(moved).mem, ScrollSpill(spilt, moved))
    BY <2>7, <2>8, ScrollCovered
  <2>10. Scroll(moved) \in Screens
    BY <2>7, ScrollType
  <2>11. Echo(screen, c).mem = Scroll(moved).mem
    BY <2>1, <2>10 DEF Screens
  <2>12. QED
    BY <2>1, <2>3, <2>6, <2>9, <2>11, CoveredTwice
<1>6. QED
  BY <1>3, <1>4, <1>5

\* A write within a page changes no other.
LEMMA FillInPage ==
    ASSUME NEW s \in Screens, NEW page \in Pages, NEW first \in Nat, NEW n \in Nat, first + n <= PAGE,
           NEW ink
    PROVE  \A p \in Pages \ {page} : Fill(s, page, first, n, ink).mem[p] = s.mem[p]
<1>. TAKE p \in Pages \ {page}
<1>1. p \in Int /\ page \in Int /\ PAGE \in Nat
  BY ScreenAssumption DEF Pages, Terminals, VIDEO
<1>2. ASSUME NEW i \in Cells
      PROVE  (p - page) * PAGE + i \notin first .. first + n - 1
  <2>1. i \in 0 .. PAGE - 1
    BY DEF Cells
  <2>. DEFINE d == p - page
              shift == d * PAGE
  <2>2. d \in Int /\ d # 0 /\ shift \in Int
    BY <1>1
  <2>3. d >= 1 => shift >= PAGE
    <3>1. d >= 1 => (d - 1) * PAGE \in Nat /\ d * PAGE = (d - 1) * PAGE + PAGE
      BY <1>1, <2>2
    <3>2. QED  BY <1>1, <2>2, <3>1
  <2>4. d <= -1 => shift <= -PAGE
    <3>1. d <= -1 => (-1 - d) * PAGE \in Nat /\ d * PAGE = -((-1 - d) * PAGE) - PAGE
      BY <1>1, <2>2
    <3>2. QED  BY <1>1, <2>2, <3>1
  <2>. HIDE DEF d, shift
  <2>5. shift + i \notin first .. first + n - 1
    BY <1>1, <2>1, <2>2, <2>3, <2>4
  <2>6. QED
    BY <2>5 DEF d, shift
<1>3. Fill(s, page, first, n, ink).mem[p] = [i \in Cells |-> s.mem[p][i]]
  BY <1>2 DEF Fill, Screens
<1>4. QED
  BY <1>3 DEF Screens

\* Neither does a putc that finds the cursor on the screen.
LEMMA ScrollInPage ==
    ASSUME NEW s \in Screens, s.y >= ROWS => s.x = 0, NEW p \in Pages, p # s.at
    PROVE  Scroll(s).mem[p] = s.mem[p]
<1>1. CASE Overflows(s.y)
  <2>. DEFINE up == RowsUp(s)
              first == Position(up)
  <2>1. up \in Screens
    BY RowsUpType
  <2>2. up.mem[p] = s.mem[p] /\ s.at \in Pages
    BY DEF RowsUp, Screens
  <2>3. Scroll(s) = Fill(up, s.at, first, COLS, FALSE)
    BY <1>1 DEF Scroll
  <2>4. up.x = 0 /\ up.y = ROWS - 1
    <3>1. Shaped(s) /\ s.x = 0
      BY <1>1 DEF Screens, Shaped, Overflows
    <3>2. QED  BY <3>1, RowsUpGoes
  <2>5. first = COLS * (ROWS - 1)
    <3>1. COLS * (ROWS - 1) \in Int
      BY ScreenAssumption
    <3>. HIDE DEF up
    <3>2. first = COLS * (ROWS - 1) + 0
      BY <2>4 DEF Position
    <3>3. QED  BY <3>1, <3>2
  <2>6. first \in Nat /\ first + COLS <= PAGE /\ COLS \in Nat
    <3>1. COLS * (ROWS - 1) \in Nat /\ COLS * (ROWS - 1) + COLS = ROWS * COLS
          /\ PAGE >= ROWS * COLS /\ COLS \in Nat
      BY ScreenAssumption
    <3>2. QED  BY <2>5, <3>1
  <2>. HIDE DEF up, first
  <2>7. Fill(up, s.at, first, COLS, FALSE).mem[p] = up.mem[p]
    <3>1. ASSUME NEW ink \in BOOLEAN
          PROVE  Fill(up, s.at, first, COLS, ink).mem[p] = up.mem[p]
      BY <2>1, <2>2, <2>6, FillInPage
    <3>2. QED  BY <3>1
  <2>8. QED
    BY <2>2, <2>3, <2>7
<1>2. CASE ~Overflows(s.y)
  BY <1>2 DEF Scroll
<1>3. QED
  BY <1>1, <1>2

LEMMA OnPage ==
    ASSUME NEW s, On(s)
    PROVE  Position(s) \in Nat /\ Position(s) + 1 <= PAGE
<1>1. /\ s.x \in 0 .. COLS - 1 /\ s.y \in 0 .. ROWS - 1 /\ COLS \in Nat \ {0} /\ ROWS \in Nat \ {0}
      /\ PAGE \in Nat /\ PAGE >= ROWS * COLS
  BY ScreenAssumption DEF On
<1>. DEFINE row == COLS * s.y
            all == ROWS * COLS
<1>2. row \in Nat /\ all \in Nat /\ Position(s) = row + s.x
  BY <1>1 DEF Position
<1>3. row + COLS <= all
  <2>1. COLS * (s.y + 1) <= COLS * ROWS /\ COLS * (s.y + 1) = COLS * s.y + COLS
    BY <1>1, RowsBelow, RowBelow
  <2>2. COLS * ROWS = ROWS * COLS
    BY <1>1
  <2>3. QED  BY <2>1, <2>2
<1>4. PAGE >= all
  BY <1>1
<1>. HIDE DEF row, all
<1>5. QED
  BY <1>1, <1>2, <1>3, <1>4

LEMMA PutcInPage ==
    ASSUME NEW s \in Screens, On(s), NEW c, NEW buffer \in Pages, NEW visible \in BOOLEAN,
           NEW p \in Pages, p # (IF visible THEN VIDEO ELSE buffer)
    PROVE  /\ Putc(s, c, buffer, visible) \in Screens
           /\ On(Putc(s, c, buffer, visible))
           /\ Putc(s, c, buffer, visible).mem[p] = s.mem[p]
<1>. DEFINE to == [s EXCEPT !.at = IF visible THEN VIDEO ELSE buffer]
            drawn == Draw(to)
            moved == IF c = "newline" THEN Newline(to) ELSE Advance(drawn)
            done == Putc(s, c, buffer, visible)
<1>1. /\ s.x \in 0 .. COLS - 1 /\ s.y \in 0 .. ROWS - 1 /\ s.x \in Nat /\ s.y \in Nat /\ Shaped(s)
  BY DEF Screens, On, Shaped
<1>2. done \in Screens
  BY PutcKeepsType
<1>3. On(done)
  <2>1. \/ On(Putc(s, c, buffer, visible))
        \/ /\ Putc(s, c, buffer, visible).x = s.x
           /\ Putc(s, c, buffer, visible).y = s.y
    <3>1. Shaped(s) /\ s.x \in Nat /\ s.y \in Nat
      BY <1>1
    <3>2. QED  BY <3>1, PutcLands
  <2>2. \/ On(done)
        \/ done.x = s.x /\ done.y = s.y
    BY <2>1
  <2>. HIDE DEF done
  <2>3. QED  BY <1>1, <2>2 DEF On
<1>4. CASE Returns(s, c)
  <2>1. done = [s EXCEPT !.at = buffer]
    BY <1>4 DEF Putc
  <2>2. done.mem = s.mem
    BY <2>1 DEF Screens
  <2>3. QED  BY <1>2, <1>3, <2>2
<1>5. CASE ~Returns(s, c)
  <2>1. to \in Screens /\ to.mem = s.mem /\ to.x = s.x /\ to.y = s.y /\ to.at # p
    <3>1. (IF visible THEN VIDEO ELSE buffer) \in Pages
      BY DEF Pages
    <3>2. QED  BY <3>1 DEF Screens
  <2>2. done = [Scroll(moved) EXCEPT !.at = IF visible THEN s.at ELSE buffer]
    BY <1>5 DEF Putc
  <2>. HIDE DEF to, done
  <2>3. moved \in Screens /\ moved.mem[p] = s.mem[p] /\ moved.at = to.at
        /\ (moved.y >= ROWS => moved.x = 0)
    <3>1. CASE c = "newline"
      <4>1. moved = [to EXCEPT !.x = 0, !.y = to.y + 1]
        BY <3>1 DEF Newline
      <4>. HIDE DEF moved
      <4>2. to = [mem |-> to.mem, at |-> to.at, x |-> to.x, y |-> to.y] /\ to.y + 1 \in Nat
        BY <2>1 DEF Screens
      <4>3. moved = [mem |-> to.mem, at |-> to.at, x |-> 0, y |-> to.y + 1]
        BY <4>1, <4>2
      <4>4. moved \in Screens
        BY <2>1, <4>2, <4>3 DEF Screens
      <4>5. QED  BY <2>1, <4>3, <4>4
    <3>2. CASE c # "newline"
      <4>1. moved = [drawn EXCEPT !.x = (drawn.x + 1) % COLS,
                                  !.y = drawn.y + (drawn.x + 1) \div COLS]
        BY <3>2 DEF Advance
      <4>2. drawn = Fill(to, to.at, Position(to), 1, TRUE)
        BY DEF Draw
      <4>3. Position(to) \in Nat /\ Position(to) + 1 <= PAGE
        BY <2>1, OnPage DEF On
      <4>4. Fill(to, to.at, Position(to), 1, TRUE).mem[p] = to.mem[p]
        <5>1. to.at # p /\ to.at \in Pages /\ to \in Screens /\ 1 \in Nat /\ TRUE \in BOOLEAN
          BY <2>1 DEF Screens
        <5>. DEFINE first == Position(to)
        <5>2. first \in Nat /\ first + 1 <= PAGE
          BY <4>3
        <5>. HIDE DEF first
        <5>3. ASSUME NEW ink \in BOOLEAN
              PROVE  Fill(to, to.at, first, 1, ink).mem[p] = to.mem[p]
          BY <5>1, <5>2, FillInPage
        <5>4. QED
          BY <5>3 DEF first
      <4>5. Shaped(to)
        BY <2>1 DEF Screens, Shaped
      <4>6. /\ Fill(to, to.at, Position(to), 1, TRUE) \in Screens
            /\ Fill(to, to.at, Position(to), 1, TRUE).x = to.x /\ Fill(to, to.at, Position(to), 1, TRUE).y = to.y
            /\ Fill(to, to.at, Position(to), 1, TRUE).at = to.at
        <5>1. Fill(to, to.at, Position(to), 1, TRUE) \in Screens  BY <2>1, FillType
        <5>2. SameButCells(Fill(to, to.at, Position(to), 1, TRUE), to)  BY ONLY <4>5, FillKeeps
        <5>3. QED  BY ONLY <5>1, <5>2 DEF SameButCells
      <4>. HIDE DEF moved, drawn
      <4>7. drawn \in Screens /\ drawn.x = s.x /\ drawn.y = s.y /\ drawn.at = to.at
            /\ drawn.mem[p] = s.mem[p]
        BY <2>1, <4>2, <4>4, <4>6
      <4>. DEFINE column == (s.x + 1) % COLS
                  row == s.y + (s.x + 1) \div COLS
      <4>8. \/ s.x + 1 < COLS /\ column = s.x + 1 /\ row = s.y
            \/ s.x + 1 = COLS /\ column = 0 /\ row = s.y + 1
        BY <1>1, NextColumn
      <4>9. moved = [drawn EXCEPT !.x = column, !.y = row]
        BY <4>1, <4>7
      <4>. HIDE DEF column, row
      <4>10. column \in Nat /\ row \in Nat /\ (row >= ROWS => column = 0)
        BY <1>1, <4>8, ScreenAssumption
      <4>11. moved = [mem |-> drawn.mem, at |-> drawn.at, x |-> column, y |-> row]
        BY <4>7, <4>9 DEF Screens
      <4>12. moved \in Screens
        BY <4>7, <4>10, <4>11 DEF Screens
      <4>13. QED  BY <4>7, <4>10, <4>11, <4>12
    <3>3. QED  BY <3>1, <3>2
  <2>. HIDE DEF moved
  <2>4. Scroll(moved) \in Screens /\ Scroll(moved).mem[p] = s.mem[p]
    BY <2>1, <2>3, ScrollType, ScrollInPage
  <2>5. done.mem = Scroll(moved).mem
    BY <2>2, <2>4 DEF Screens
  <2>6. done.mem[p] = s.mem[p]
    BY <2>4, <2>5
  <2>7. QED  BY <1>2, <1>3, <2>6 DEF done
<1>6. QED
  BY <1>4, <1>5

LEMMA LeftStep ==
    ASSUME ~ClearAnywhere, TypeInv, LeftInv, [Next]_vars
    PROVE  LeftInv'
<1>. DEFINE Others == Terminals \ {on_screen}
<1>1. /\ on_screen \in Terminals /\ curr_terminal \in Terminals /\ 0 \in Terminals
      /\ VIDEO \notin Terminals /\ Terminals \subseteq Pages /\ VIDEO \in Pages
      /\ Shown \subseteq Cells /\ screen \in Screens /\ Here \in Places
      /\ left \in [Terminals -> Remembered] /\ cursor \in [Terminals -> Places]
      /\ \A t \in Terminals : video_buffer[t] \in Pages
  BY ScreenAssumption
  DEF TypeInv, LeftInv, Pages, Terminals, VIDEO, Shown, Cells, Screens, Here, Places
\* The steps that write: what they change of a screen the user left, they record.
<1>2. ASSUME UNCHANGED terminals, Covered(Others, screen.mem, left, screen'.mem, left')
      PROVE  LeftInv'
  <2>1. ASSUME NEW t \in Others', left'[t].known  PROVE Kept(t)'
    <3>1. t \in Others /\ cursor' = cursor
      BY <1>2, <2>1 DEF terminals
    <3>2. /\ left[t].known /\ left'[t].page = left[t].page /\ left'[t].cursor = left[t].cursor
          /\ \A i \in Cells \ left'[t].stray : /\ i \notin left[t].stray
                                               /\ screen'.mem[t][i] = screen.mem[t][i]
      BY <1>2, <2>1, <3>1 DEF Covered
    <3>3. Kept(t)
      BY <3>1, <3>2 DEF LeftInv
    <3>4. QED
      BY <1>1, <3>1, <3>2, <3>3 DEF Kept
  <2>2. curr_terminal' # on_screen' => ~left'[curr_terminal'].known
    BY <1>1, <1>2 DEF Covered, LeftInv, terminals
  <2>3. QED
    BY <1>2, <2>1, <2>2 DEF LeftInv, Covered, terminals
<1>3. ASSUME UNCHANGED <<terminals, left>>, screen'.mem = screen.mem
      PROVE  LeftInv'
  BY <1>2, <1>3 DEF Covered, LeftInv
<1>4. ASSUME Covered(Terminals, screen.mem, left, screen'.mem, left')
      PROVE  Covered(Others, screen.mem, left, screen'.mem, left')
  BY <1>4 DEF Covered
<1>5. ASSUME NEW at, screen' \in {screen, [screen EXCEPT !.at = at]}
      PROVE  screen'.mem = screen.mem
  BY <1>1, <1>5 DEF Screens
<1>6. CASE Program
  <2>1. ASSUME NEW c, PutcCall(c)  PROVE LeftInv'
    BY <1>3, <2>1 DEF PutcCall, history
  <2>2. CASE PutcStart \/ PutcTest \/ PutcAim \/ PutcAddress \/ PutcLoad \/ PutcScroll \/ PutcRestore
    BY <1>3, <1>5, <2>2
    DEF PutcStart, PutcTest, PutcAim, PutcAddress, PutcLoad, PutcScroll, PutcRestore,
        UnchangedByPutc, history
  <2>3. CASE PutcPut
    <3>1. PICK ink \in BOOLEAN : screen' = Fill(screen, putc.page, putc.reg, 1, ink)
      BY <2>3 DEF PutcPut
    <3>2. Covered(Terminals, screen.mem, left, Fill(screen, putc.page, putc.reg, 1, ink).mem,
                  Spill(left, putc.page, putc.reg, 1))
      BY <1>1, FillCovered
    <3>3. QED
      BY <1>2, <1>4, <2>3, <3>1, <3>2 DEF PutcPut, UnchangedByPutc
  <2>4. CASE PutcStore \/ PutcBottom
    <3>1. \/ screen' = [screen EXCEPT !.x = putc.reg]
          \/ screen' = [screen EXCEPT !.x = 0]
          \/ screen' = [screen EXCEPT !.y = putc.reg]
          \/ screen' = [screen EXCEPT !.y = ROWS - 1]
      BY <2>4 DEF PutcStore, PutcBottom
    <3>2. screen = [mem |-> screen.mem, at |-> screen.at, x |-> screen.x, y |-> screen.y]
      BY <1>1 DEF Screens
    <3>3. screen'.mem = screen.mem
      BY <3>1, <3>2
    <3>4. QED
      BY <1>3, <2>4, <3>3 DEF PutcStore, PutcBottom, UnchangedByPutc
  <2>5. CASE PutcMove
    <3>. DEFINE cell == screen.mem[putc.from][putc.idx + COLS]
    <3>1. screen' = [screen EXCEPT !.mem[putc.page][putc.idx] = cell]
          /\ left' = Spill(left, putc.page, putc.idx, 1) /\ UNCHANGED terminals
      BY <2>5 DEF PutcMove, UnchangedByPutc
    <3>. HIDE DEF cell
    <3>2. \A t \in Terminals : t # putc.page => screen'.mem[t] = screen.mem[t]
      BY <1>1, <3>1 DEF Screens
    <3>3. Covered(Terminals, screen.mem, left, screen'.mem, Spill(left, putc.page, putc.idx, 1))
      BY <1>1, <3>2, SpillCovered
    <3>4. QED
      BY <1>2, <1>4, <3>1, <3>3
  <2>6. QED
    BY <1>6, <2>1, <2>2, <2>3, <2>4, <2>5 DEF Program
<1>7. ASSUME NEW c  PROVE Covered(Terminals, screen.mem, left, Echo(screen, c).mem, EchoSpill(c))
  BY <1>1, EchoCovered
<1>8. CASE EnterKey \/ \E c \in {"char", "nul"} : TypeKey(c)
  BY <1>2, <1>4, <1>7, <1>8 DEF EnterKey, TypeKey
<1>9. CASE Backspace
  <2>1. CASE NothingRemoved(screen)
    BY <1>3, <1>5, <1>9, <2>1 DEF Backspace, Removed
  <2>2. CASE ~NothingRemoved(screen)
    <3>. DEFINE first == Position(screen) - 1
                erased == Fill(screen, VIDEO, first, 1, FALSE)
    <3>1. screen' = Back(erased) /\ left' = Spill(left, VIDEO, first, 1) /\ UNCHANGED terminals
      BY <1>9, <2>2 DEF Backspace, Removed
    <3>. HIDE DEF first
    <3>2. erased \in Screens /\ Covered(Terminals, screen.mem, left, erased.mem, left')
      BY <1>1, <3>1, FillType, FillCovered
    <3>. HIDE DEF erased
    <3>3. erased = [mem |-> erased.mem, at |-> erased.at, x |-> erased.x, y |-> erased.y]
      BY <3>2 DEF Screens
    <3>4. screen'.mem = erased.mem
      <4>1. CASE erased.x > 0
        <5>1. screen' = [erased EXCEPT !.x = erased.x - 1]
          BY <3>1, <4>1 DEF Back
        <5>2. QED  BY <3>3, <5>1
      <4>2. CASE ~(erased.x > 0)
        <5>1. screen' = [erased EXCEPT !.x = COLS - 1, !.y = erased.y - 1]
          BY <3>1, <4>2 DEF Back
        <5>2. QED  BY <3>3, <5>1
      <4>3. QED  BY <4>1, <4>2
    <3>5. QED
      BY <1>2, <1>4, <3>1, <3>2, <3>4
  <2>3. QED
    BY <2>1, <2>2
<1>10. CASE ClearKey
  <2>. DEFINE echoed == Echo(screen, "char")
              all == ROWS * COLS
              blank == Fill(echoed, echoed.at, 0, all, FALSE)
              buffer == video_buffer[on_screen]
  <2>1. /\ screen.at \in {VIDEO, on_screen} /\ UNCHANGED terminals /\ left' = EchoSpill("char")
        /\ screen' = [blank EXCEPT !.mem[buffer] = blank.mem[echoed.at], !.x = 0, !.y = 0]
    BY <1>10 DEF ClearKey, Cleared
  <2>2. echoed \in Screens /\ echoed.at = screen.at
    <3>1. echoed = Putc(screen, "char", video_buffer[curr_terminal], TRUE) /\ ~Returns(screen, "char")
      BY DEF Echo, Returns
    <3>2. echoed \in Screens
      BY <1>1, <3>1, PutcKeepsType
    <3>3. PICK s : echoed = [s EXCEPT !.at = screen.at]
      BY <3>1 DEF Putc
    <3>. HIDE DEF echoed
    <3>4. "at" \in DOMAIN echoed
      BY <3>2 DEF Screens
    <3>5. QED
      BY <3>2, <3>3, <3>4
  <2>3. buffer \in {on_screen, VIDEO}
    BY <1>1 DEF LeftInv
  <2>4. all \in Nat /\ 0 + all <= PAGE
    BY ScreenAssumption
  <2>5. Covered(Terminals, screen.mem, left, echoed.mem, left')
    BY <1>7, <2>1
  <2>. HIDE DEF echoed, all, buffer
  <2>6. blank \in Screens
    BY <2>2, FillType
  <2>7. \A t \in Others : blank.mem[t] = echoed.mem[t]
    <3>. TAKE t \in Others
    <3>1. t \in Pages /\ echoed.at \in Pages /\ t # echoed.at /\ 0 \in Nat /\ FALSE \in BOOLEAN
      BY <1>1, <2>1, <2>2 DEF Screens
    <3>2. ASSUME NEW ink \in BOOLEAN
          PROVE  Fill(echoed, echoed.at, 0, all, ink).mem[t] = echoed.mem[t]
      BY <2>2, <2>4, <3>1, FillInPage
    <3>3. QED
      BY <3>2
  <2>. HIDE DEF blank
  <2>8. \A t \in Others : screen'.mem[t] = blank.mem[t]
    BY <1>1, <2>1, <2>3, <2>6 DEF Screens
  <2>9. Covered(Others, screen.mem, left, screen'.mem, left')
    BY <2>5, <2>7, <2>8 DEF Covered
  <2>10. QED
    BY <1>2, <2>1, <2>9
<1>11. ASSUME NEW target \in Terminals, SwitchTerminal(target)
       PROVE  LeftInv'
  <2>. DEFINE seen == [known |-> TRUE, page |-> screen.mem[VIDEO], cursor |-> Here, stray |-> {}]
  <2>1. /\ target # on_screen /\ on_screen' = target /\ curr_terminal' = target
        /\ cursor' = [cursor EXCEPT ![on_screen] = Here]
        /\ video_buffer' = [video_buffer EXCEPT ![on_screen] = on_screen]
        /\ left' = [left EXCEPT ![on_screen] = seen]
        /\ screen' = [screen EXCEPT !.mem = Exchanged(screen.mem, target),
                                    !.x = cursor[target].x, !.y = cursor[target].y]
    BY <1>11 DEF SwitchTerminal, Buffers
  <2>2. screen'.mem = Exchanged(screen.mem, target)
    <3>1. screen = [mem |-> screen.mem, at |-> screen.at, x |-> screen.x, y |-> screen.y]
      BY <1>1 DEF Screens
    <3>2. QED  BY <2>1, <3>1
  <2>3. /\ screen'.mem[on_screen] = screen.mem[VIDEO]
        /\ \A t \in Others : screen'.mem[t] = screen.mem[t]
    BY <1>1, <2>2 DEF Exchanged, Screens
  <2>4. seen \in Remembered
    BY <1>1 DEF Remembered, Screens
  <2>5. ASSUME NEW t \in Terminals \ {target}, left'[t].known  PROVE Kept(t)'
    <3>1. CASE t = on_screen
      BY <1>1, <2>1, <2>3, <3>1 DEF Kept
    <3>2. CASE t # on_screen
      <4>1. left'[t] = left[t] /\ cursor'[t] = cursor[t] /\ screen'.mem[t] = screen.mem[t] /\ Kept(t)
        BY <1>1, <2>1, <2>3, <2>5, <3>2 DEF LeftInv
      <4>2. QED
        BY <4>1 DEF Kept
    <3>3. QED  BY <3>1, <3>2
  <2>6. left' \in [Terminals -> Remembered]
    BY <1>1, <2>1, <2>4
  <2>7. \A t \in Terminals : video_buffer'[t] \in {t, VIDEO}
    BY <1>1, <2>1 DEF LeftInv, TypeInv
  <2>8. QED
    BY <2>1, <2>5, <2>6, <2>7 DEF LeftInv
\* The ticks: the cursors saved are those of terminals not left, or of the target.
<1>12. ASSUME NEW target \in Terminals, cursor' = CursorsAt(target), on_screen' = on_screen,
              curr_terminal' = target, left' \in [Terminals -> Remembered],
              ~left'[target].known,
              \A t \in Terminals : left'[t].known => left'[t] = left[t],
              \A t \in Others \ {target} : left'[t].known => screen'.mem[t] = screen.mem[t],
              \A t \in Terminals : video_buffer'[t] \in {t, VIDEO}
       PROVE  LeftInv'
  <2>1. ASSUME NEW t \in Others, left'[t].known  PROVE Kept(t)'
    <3>1. t # target /\ t # on_screen /\ left'[t] = left[t] /\ Kept(t)
      BY <1>12, <2>1 DEF LeftInv
    <3>2. t # curr_terminal
      BY <2>1, <3>1 DEF LeftInv
    <3>3. cursor'[t] = cursor[t]
      BY <1>1, <1>12, <3>1, <3>2 DEF CursorsAt
    <3>4. screen'.mem[t] = screen.mem[t]
      BY <1>12, <2>1, <3>1
    <3>5. QED
      BY <3>1, <3>3, <3>4 DEF Kept
  <2>2. QED
    BY <1>12, <2>1 DEF LeftInv
<1>13. CASE StartShell
  <2>. DEFINE target == pit_count
              place == cursor'[target]
              visible == on_screen = target
              buffer == video_buffer[target]
              placed == [screen EXCEPT !.x = place.x, !.y = place.y]
              named == Putc(placed, "char", buffer, visible)
  <2>1. /\ cursor' = CursorsAt(target) /\ curr_terminal' = target
        /\ target < NUMBER_OF_TERMINALS /\ UNCHANGED <<video_buffer, on_screen>>
        /\ screen' = Putc(named, "newline", buffer, visible)
        /\ left' = [t \in Terminals |->
                        IF t = target \/ place \notin Cursors THEN NotSeen ELSE left[t]]
    BY <1>13 DEF StartShell, Announced
  <2>2. target \in Terminals
    BY <2>1, ScreenAssumption DEF TypeInv, Terminals
  <2>3. buffer \in {target, VIDEO} /\ buffer \in Pages /\ visible \in BOOLEAN
    BY <1>1, <2>2 DEF LeftInv
  <2>4. ASSUME NEW t \in Others \ {target}, left'[t].known
        PROVE  screen'.mem[t] = screen.mem[t]
    <3>1. place \in Cursors
      BY <2>1, <2>4, NotSeenType
    <3>2. place.x \in 0 .. COLS - 1 /\ place.y \in 0 .. ROWS - 1 /\ place.x \in Nat /\ place.y \in Nat
      BY <3>1, ScreenAssumption DEF Cursors
    <3>. HIDE DEF place
    <3>3. placed = [mem |-> screen.mem, at |-> screen.at, x |-> place.x, y |-> place.y]
      <4>1. screen = [mem |-> screen.mem, at |-> screen.at, x |-> screen.x, y |-> screen.y]
        BY <1>1 DEF Screens
      <4>2. PICK x, y : x = place.x /\ y = place.y
        OBVIOUS
      <4>3. placed = [screen EXCEPT !.x = x, !.y = y]
        BY <4>2
      <4>. HIDE DEF placed
      <4>4. placed = [mem |-> screen.mem, at |-> screen.at, x |-> x, y |-> y]
        BY <4>1, <4>3
      <4>5. QED
        BY <4>2, <4>4
    <3>4. placed \in Screens /\ On(placed) /\ placed.mem = screen.mem
      BY <1>1, <3>2, <3>3 DEF Screens, On
    <3>5. t \in Pages /\ t # (IF visible THEN VIDEO ELSE buffer)
      BY <1>1, <2>3
    <3>. HIDE DEF placed, buffer, visible
    <3>6. named \in Screens /\ On(named) /\ named.mem[t] = placed.mem[t]
      BY <2>3, <3>4, <3>5, PutcInPage
    <3>. HIDE DEF named
    <3>7. screen'.mem[t] = named.mem[t]
      BY <2>1, <2>3, <3>5, <3>6, PutcInPage
    <3>8. QED
      BY <3>4, <3>6, <3>7
  <2>5. /\ left' \in [Terminals -> Remembered] /\ ~left'[target].known
        /\ \A t \in Terminals : left'[t].known => left'[t] = left[t]
    BY <1>1, <2>1, <2>2, NotSeenType
  <2>6. \A t \in Terminals : video_buffer'[t] \in {t, VIDEO}
    BY <2>1 DEF LeftInv
  <2>7. QED
    BY <1>12, <2>1, <2>2, <2>4, <2>5, <2>6
<1>14. CASE FirstTerminalTick
  <2>1. /\ cursor' = CursorsAt(0) /\ curr_terminal' = 0 /\ on_screen' = on_screen
        /\ screen' = [screen EXCEPT !.x = cursor'[0].x, !.y = cursor'[0].y]
        /\ video_buffer' = [video_buffer EXCEPT ![0] = BufferOf(0)]
        /\ left' = [left EXCEPT ![0] = NotSeen]
    BY <1>14 DEF FirstTerminalTick
  <2>2. screen'.mem = screen.mem
    BY <1>1, <2>1 DEF Screens
  <2>3. /\ left' \in [Terminals -> Remembered] /\ ~left'[0].known
        /\ \A t \in Terminals : left'[t].known => left'[t] = left[t]
    BY <1>1, <2>1, NotSeenType
  <2>4. \A t \in Terminals : video_buffer'[t] \in {t, VIDEO}
    BY <1>1, <2>1 DEF LeftInv, TypeInv, BufferOf
  <2>5. QED
    BY <1>1, <1>12, <2>1, <2>2, <2>3, <2>4
<1>15. CASE Tick
  <2>1. /\ cursor' = [cursor EXCEPT ![curr_terminal] = Here]
        /\ video_buffer' = [video_buffer EXCEPT ![curr_terminal] = BufferOf(curr_terminal)]
        /\ UNCHANGED <<screen, on_screen, curr_terminal, left>>
    BY <1>15 DEF Tick, history
  <2>2. \A t \in Terminals : video_buffer'[t] \in {t, VIDEO}
    BY <1>1, <2>1 DEF LeftInv, TypeInv, BufferOf
  <2>3. ASSUME NEW t \in Others, left[t].known  PROVE Kept(t)'
    <3>1. cursor'[t] = cursor[t] /\ Kept(t)
      BY <1>1, <2>1, <2>3 DEF LeftInv
    <3>2. QED
      BY <2>1, <3>1 DEF Kept
  <2>4. QED
    BY <2>1, <2>2, <2>3 DEF LeftInv
<1>16. CASE UNCHANGED vars
  BY <1>3, <1>16 DEF vars, history
<1>17. QED
  BY <1>6, <1>8, <1>9, <1>10, <1>11, <1>13, <1>14, <1>15, <1>16 DEF Next, Keyboard, Timer

\* A terminal that the user comes back to shows what it showed when the user left it,
\* except where a putc with its cursor off the screen wrote past the end of another
\* page, and has its cursor where it was: for every size of the screen and number of
\* terminals, and every interleaving of keys and ticks with the loads and stores of putc
\* and the turns of its scroll, if Ctrl+L is not pressed while video_mem is on the page
\* of another terminal.
THEOREM SwitchesRestore ==
    ASSUME ~ClearAnywhere
    PROVE  Spec => SwitchRestores
<1>1. Init => LeftInv
  BY ScreenAssumption DEF Init, LeftInv, Remembered, NotSeen, Blank, Origin, Places, Terminals
<1>2. ASSUME TypeInv, LeftInv, NEW t \in Terminals, SwitchTerminal(t), left[t].known
      PROVE  Returned(t)
  <2>1. /\ t # on_screen /\ on_screen \in Terminals /\ VIDEO \in Pages /\ VIDEO \notin Terminals
        /\ Terminals \subseteq Pages
        /\ screen' = [screen EXCEPT !.mem = Exchanged(screen.mem, t),
                                    !.x = cursor[t].x, !.y = cursor[t].y]
        /\ screen \in Screens /\ cursor[t] \in Places
    BY <1>2, ScreenAssumption DEF SwitchTerminal, TypeInv, Pages, Terminals, VIDEO
  <2>2. screen'.mem = Exchanged(screen.mem, t) /\ screen'.x = cursor[t].x /\ screen'.y = cursor[t].y
    <3>1. screen = [mem |-> screen.mem, at |-> screen.at, x |-> screen.x, y |-> screen.y]
      BY <2>1 DEF Screens
    <3>2. QED  BY <2>1, <3>1
  <2>3. screen'.mem[VIDEO] = screen.mem[t]
    BY <2>1, <2>2 DEF Exchanged, Screens
  <2>4. Here' = cursor[t]
    BY <2>1, <2>2 DEF Here, Places
  <2>5. Kept(t)
    BY <1>2, <2>1 DEF LeftInv
  <2>6. QED
    BY <2>3, <2>4, <2>5 DEF Returned, Kept, Shown
<1>3. TypeInv /\ LeftInv => [\A t \in Terminals : SwitchTerminal(t) /\ left[t].known => Returned(t)]_vars
  BY <1>2
<1>4. TypeInv /\ LeftInv /\ [Next]_vars => LeftInv'
  BY LeftStep
<1>5. QED
  BY <1>1, <1>3, <1>4, TypeStart, TypeStep, PTL DEF Spec, SwitchRestores
=============================================================================
