-------------------------------- MODULE Screen --------------------------------
(***************************************************************************)
(* Output to the terminals.  putc writes at one global cursor through one  *)
(* global pointer, video_mem, which it moves to the page of the current    *)
(* terminal or to the video memory and puts back; the keyboard interrupt   *)
(* echoes, erases, clears and switches terminals through the same          *)
(* variables at any point of a putc that a program has begun; the timer    *)
(* starts the shells and sets the buffer of the current terminal.          *)
(*                                                                         *)
(* The handlers run with interrupts off: one action each.  A program's     *)
(* putc is one action per statement, and one per turn of its loops: the    *)
(* reads of a statement are a step, its store to a shared variable or to   *)
(* the video memory is another.                                            *)
(***************************************************************************)
EXTENDS Integers, Sequences

CONSTANTS
    COLS, ROWS,            \* NUM_COLS, NUM_ROWS
    PAGE,                  \* cells of a 4 KB page, more than the screen has
    NUMBER_OF_TERMINALS,
    ClearAnywhere,         \* whether Ctrl+L is pressed while video_mem is astray
    MaxInputs, MaxLine     \* bounds on characters and keys, on keys of a line

Terminals == 0 .. NUMBER_OF_TERMINALS - 1
VIDEO == -1                          \* the pages TERM0, TERM1, ... follow it
Pages == Terminals \cup {VIDEO}
Cells == 0 .. PAGE - 1

ASSUME ScreenAssumption ==
    /\ COLS \in Nat \ {0} /\ ROWS \in Nat \ {0}
    /\ PAGE \in Nat /\ PAGE >= ROWS * COLS
    /\ NUMBER_OF_TERMINALS \in Nat \ {0}
    /\ ClearAnywhere \in BOOLEAN
    /\ MaxInputs \in Nat /\ MaxLine \in Nat

\* A line of 127 keys, on a screen of 80 by 25: its begin never scrolls away.
ASSUME LineAssumption == MaxLine <= (ROWS - 1) * COLS

VARIABLES
    screen,          \* memory (TRUE: a character), video_mem (at), the cursor (x, y)
    cursor,          \* terminals[].screen_x and screen_y
    video_buffer,    \* terminals[].video_buffer
    on_screen, curr_terminal, pit_count,
    line,            \* keyboard_buffer and terminals[].buf_kb: the keys typed
    putc,            \* the running program's putc: place, character, locals
    left,            \* history: what each terminal showed when the user left it
    echo,            \* history: where the echo of the line on the screen began
    astray,          \* history: the cursor was taken over off the screen and is still off
    inputs           \* the characters output and keys pressed

terminals == <<cursor, video_buffer, on_screen, curr_terminal>>
history == <<left, echo, astray>>
vars == <<screen, terminals, pit_count, line, putc, history, inputs>>

Blank == [i \in Cells |-> FALSE]
Origin == [x |-> 0, y |-> 0]
NotSeen == [known |-> FALSE, page |-> Blank, cursor |-> Origin, stray |-> {}]
NoEcho == [ok |-> FALSE, from |-> 0]
Locals(pc, c, backup) == [pc |-> pc, c |-> c, backup |-> backup, reg |-> 0,
                          page |-> VIDEO, from |-> VIDEO, idx |-> 0]
Idle == Locals("idle", "char", VIDEO)

\* entry() after start_terminals and clear
Init ==
    /\ screen = [mem |-> [p \in Pages |-> Blank], at |-> VIDEO, x |-> 0, y |-> 0]
    /\ cursor = [t \in Terminals |-> Origin]
    /\ video_buffer = [t \in Terminals |-> t]
    /\ on_screen = 0 /\ curr_terminal = 0 /\ pit_count = 0
    /\ line = [t \in Terminals |-> <<>>]
    /\ putc = Idle
    /\ left = [t \in Terminals |-> NotSeen]
    /\ echo = NoEcho
    /\ astray = FALSE
    /\ inputs = 0

Input == inputs < MaxInputs /\ inputs' = inputs + 1

-----------------------------------------------------------------------------
(***************************************************************************)
(* The statements of putc, as functions of the screen                      *)
(***************************************************************************)
\* n cells from cell first of a page; past its end lies the next.
Fill(s, page, first, n, ink) ==
    [s EXCEPT !.mem = [p \in Pages |-> [i \in Cells |->
        IF (p - page) * PAGE + i \in first .. first + n - 1 THEN ink ELSE s.mem[p][i]]]]

Position(s) == COLS * s.y + s.x

Draw(s) == Fill(s, s.at, Position(s), 1, TRUE)

\* Mutant of Overflows: the screen has one more row.
OverflowsLate(y) == y > ROWS

\* "checks if we have reached bottom of screen"
Overflows(y) == y >= ROWS

MOVED == COLS * (ROWS - 1)

\* The rows move up one, and the last is cleared from the cursor's column on.
RowsUp(s) ==
    [s EXCEPT !.y = ROWS - 1,
              !.mem[s.at] = [i \in Cells |-> IF i < MOVED THEN s.mem[s.at][i + COLS]
                                                         ELSE s.mem[s.at][i]]]

Scroll(s) ==
    IF Overflows(s.y)
    THEN LET up == RowsUp(s) IN Fill(up, s.at, Position(up), COLS, FALSE)
    ELSE s

Advance(s) ==
    LET x == s.x + 1 IN [s EXCEPT !.x = x % COLS, !.y = @ + x \div COLS]

Newline(s) == [s EXCEPT !.x = 0, !.y = @ + 1]

Returns(s, c) == c = "nul" \/ (c = "newline" /\ s.x = 0)

Breaks(c) == c \in {"newline", "return"}

\* A whole putc with interrupts off.  On its early returns video_mem stays on
\* the buffer, and it is put back only when the character went to the screen.
Putc(s, c, buffer, visible) ==
    IF Returns(s, c)
    THEN [s EXCEPT !.at = buffer]
    ELSE LET to == [s EXCEPT !.at = IF visible THEN VIDEO ELSE buffer]
             done == Scroll(IF c = "newline" THEN Newline(to) ELSE Advance(Draw(to)))
         IN  [done EXCEPT !.at = IF visible THEN s.at ELSE buffer]

\* The echo of a key: keypress_to_vid_flag is up.
Echo(s, c) == Putc(s, c, video_buffer[curr_terminal], TRUE)

\* History: what n cells from cell first on leave of the screens the user has
\* left.  The page written to is its program's own output; cells of another page
\* are hit by a write past the end.
Spill(seen, page, first, n) ==
    [t \in Terminals |->
        IF t = page THEN NotSeen
        ELSE [seen[t] EXCEPT !.stray =
                @ \cup {i \in Cells : (t - page) * PAGE + i \in first .. first + n - 1}]]

DrawSpill(s) == Spill(left, s.at, Position(s), 1)

ScrollSpill(seen, s) ==
    IF Overflows(s.y) THEN Spill(seen, s.at, Position(RowsUp(s)), COLS) ELSE seen

EchoSpill(c) ==
    LET to == [screen EXCEPT !.at = VIDEO]
    IN  CASE Returns(screen, c) -> left
          [] ~Returns(screen, c) /\ c = "newline" -> ScrollSpill(left, Newline(to))
          [] OTHER -> ScrollSpill(DrawSpill(to), Advance(to))

-----------------------------------------------------------------------------
(***************************************************************************)
(* putc called by a program, with interrupts on                            *)
(***************************************************************************)
At(pc) == putc.pc = pc

\* What a statement leaves behind: the saved pointer, and what it has computed.
Between(pc) == Locals(pc, "char", putc.backup)
Goto(pc) == putc' = Between(pc)
Calc(pc, value) == putc' = [Between(pc) EXCEPT !.reg = value]
UnchangedByPutc == UNCHANGED <<terminals, pit_count, line, inputs>>

Here == [x |-> screen.x, y |-> screen.y]
Cursors == [x : 0 .. COLS - 1, y : 0 .. ROWS - 1]

\* History: a cursor taken over off the screen is astray until it is on it again.
KeepAstray == astray' = (astray /\ Here' \notin Cursors)
TakeOver == astray' = (Here' \notin Cursors)

PutcCall(c) ==
    /\ At("idle") /\ pit_count > 0
    /\ Input
    /\ putc' = Locals("start", c, screen.at)
    /\ UNCHANGED <<screen, terminals, pit_count, line, history>>

PutcStart ==
    /\ At("start")
    /\ screen' = [screen EXCEPT !.at = video_buffer[curr_terminal]]
    /\ putc' = [putc EXCEPT !.pc = "test"]
    /\ UNCHANGED history /\ UnchangedByPutc

PutcTest ==
    /\ At("test")
    /\ IF Returns(screen, putc.c) THEN putc' = Idle ELSE putc' = [putc EXCEPT !.pc = "aim"]
    /\ UNCHANGED <<screen, history>> /\ UnchangedByPutc

PutcAim ==
    /\ At("aim")
    /\ screen' = IF on_screen = curr_terminal THEN [screen EXCEPT !.at = VIDEO] ELSE screen
    /\ Goto(IF Breaks(putc.c) THEN "load_y" ELSE "draw")
    /\ UNCHANGED history /\ UnchangedByPutc

\* The address of a cell, with the column, the row and video_mem as they are now.
PutcAddress ==
    /\ \/ At("draw") /\ putc' = [putc EXCEPT !.pc = "put", !.page = screen.at,
                                             !.reg = Position(screen)]
       \/ At("clear") /\ putc.idx < COLS
          /\ putc' = [putc EXCEPT !.pc = "blank", !.page = screen.at,
                                  !.reg = Position(screen) + putc.idx]
    /\ UNCHANGED <<screen, history>> /\ UnchangedByPutc

PutcPut ==
    /\ \/ At("put") /\ screen' = Fill(screen, putc.page, putc.reg, 1, TRUE) /\ Goto("load_x")
       \/ At("blank") /\ screen' = Fill(screen, putc.page, putc.reg, 1, FALSE)
          /\ putc' = [Between("clear") EXCEPT !.idx = putc.idx + 1]
    /\ left' = Spill(left, putc.page, putc.reg, 1)
    /\ echo' = NoEcho
    /\ UNCHANGED astray /\ UnchangedByPutc

PutcLoad ==
    /\ \/ At("load_x") /\ Calc("store_x", screen.x + 1)
       \/ At("load_y") /\ Calc("newline", screen.y + 1)
       \/ At("load_row") /\ Calc("store_row", screen.y + screen.x \div COLS)
       \/ At("load_column") /\ Calc("store_column", screen.x % COLS)
    /\ UNCHANGED <<screen, history>> /\ UnchangedByPutc

PutcStore ==
    /\ \/ At("store_x") /\ screen' = [screen EXCEPT !.x = putc.reg] /\ Goto("load_row")
       \/ At("newline") /\ screen' = [screen EXCEPT !.y = putc.reg] /\ Goto("newline_x")
       \/ At("newline_x") /\ screen' = [screen EXCEPT !.x = 0] /\ Goto("scroll")
       \/ At("store_row") /\ screen' = [screen EXCEPT !.y = putc.reg] /\ Goto("load_column")
       \/ At("store_column") /\ screen' = [screen EXCEPT !.x = putc.reg] /\ Goto("scroll")
    /\ echo' = NoEcho
    /\ KeepAstray
    /\ UNCHANGED left /\ UnchangedByPutc

\* The scroll: the test, the two arguments of memmove, which both read video_mem, ...
PutcScroll ==
    /\ \/ At("scroll") /\ Goto(IF Overflows(screen.y) THEN "load_source" ELSE "restore")
       \/ At("load_source") /\ putc' = [putc EXCEPT !.pc = "load_page", !.from = screen.at]
       \/ At("load_page") /\ putc' = [putc EXCEPT !.pc = "move", !.page = screen.at, !.idx = 0]
    /\ UNCHANGED <<screen, history>> /\ UnchangedByPutc

\* ... memmove upwards, cell by cell, ...
PutcMove ==
    /\ At("move") /\ putc.idx < MOVED
    /\ screen' = [screen EXCEPT !.mem[putc.page][putc.idx] =
                                    screen.mem[putc.from][putc.idx + COLS]]
    /\ putc' = [putc EXCEPT !.idx = @ + 1]
    /\ left' = Spill(left, putc.page, putc.idx, 1)
    /\ echo' = NoEcho
    /\ UNCHANGED astray /\ UnchangedByPutc

\* ... and the row; the loop that clears it alternates "clear" and "blank".
PutcBottom ==
    /\ At("move") /\ putc.idx = MOVED
    /\ screen' = [screen EXCEPT !.y = ROWS - 1]
    /\ Goto("clear")
    /\ echo' = NoEcho
    /\ KeepAstray
    /\ UNCHANGED left /\ UnchangedByPutc

PutcRestore ==
    /\ At("restore") \/ (At("clear") /\ putc.idx = COLS)
    /\ screen' = IF on_screen = curr_terminal THEN [screen EXCEPT !.at = putc.backup] ELSE screen
    /\ putc' = Idle
    /\ UNCHANGED history /\ UnchangedByPutc

Program ==
    \/ \E c \in {"char", "newline", "return", "nul"} : PutcCall(c)
    \/ PutcStart
    \/ PutcTest
    \/ PutcAim
    \/ PutcAddress
    \/ PutcPut
    \/ PutcLoad
    \/ PutcStore
    \/ PutcScroll
    \/ PutcMove
    \/ PutcBottom
    \/ PutcRestore

-----------------------------------------------------------------------------
(***************************************************************************)
(* The keyboard interrupt                                                  *)
(***************************************************************************)
UnchangedByKey == UNCHANGED <<pit_count, putc>>

Line == line[on_screen]

\* The echo begins where the cursor stands when the line is empty and no putc has
\* it in hand; a scroll takes its begin up with it.
EchoOf(c) ==
    LET from == IF Line = <<>> THEN [ok |-> Here \in Cursors, from |-> Position(screen)]
                ELSE echo
        scrolls == Position(screen) + 1 >= ROWS * COLS
    IN  [from EXCEPT !.ok = @ /\ c = "char", !.from = IF scrolls THEN @ - COLS ELSE @]

Typed(c) == Len(Line) < MaxLine /\ line' = [line EXCEPT ![on_screen] = Append(@, c)]

\* F11 is looked up behind the table and may yield a NUL.
TypeKey(c) ==
    /\ Input
    /\ Typed(c)
    /\ screen' = Echo(screen, c)
    /\ left' = EchoSpill(c)
    /\ echo' = EchoOf(c)
    /\ KeepAstray
    /\ UNCHANGED terminals /\ UnchangedByKey

EnterKey ==
    /\ Input
    /\ line' = [line EXCEPT ![on_screen] = <<>>]
    /\ screen' = Echo(screen, "newline")
    /\ left' = EchoSpill("newline")
    /\ echo' = NoEcho
    /\ KeepAstray
    /\ UNCHANGED terminals /\ UnchangedByKey

\* Mutant of Back: the column of the row above is one too far.
BackTooFar(s) ==
    IF s.x > 0 THEN [s EXCEPT !.x = @ - 1] ELSE [s EXCEPT !.x = COLS - 2, !.y = @ - 1]

Back(s) ==
    IF s.x > 0 THEN [s EXCEPT !.x = @ - 1] ELSE [s EXCEPT !.x = COLS - 1, !.y = @ - 1]

\* rm_c: nothing is removed when the line begins with a NUL.
NothingRemoved(s) == (s.x = 0 /\ s.y = 0) \/ Line[1] = "nul"

Removed(s) ==
    IF NothingRemoved(s)
    THEN [s EXCEPT !.at = video_buffer[on_screen]]
    ELSE LET erased == Fill(s, VIDEO, Position(s) - 1, 1, FALSE)
         IN  Back(erased)

Backspace ==
    /\ Input
    /\ Line # <<>>
    /\ screen' = Removed(screen)
    /\ left' = IF NothingRemoved(screen) THEN left
               ELSE Spill(left, VIDEO, Position(screen) - 1, 1)
    /\ line' = [line EXCEPT ![on_screen] = SubSeq(@, 1, Len(@) - 1)]
    /\ KeepAstray
    /\ UNCHANGED <<terminals, echo>> /\ UnchangedByKey

\* clear: the page at video_mem, and its copy over the buffer of the terminal on
\* the screen.
Cleared(s) ==
    LET blank == Fill(s, s.at, 0, ROWS * COLS, FALSE)
    IN  [blank EXCEPT !.mem[video_buffer[on_screen]] = blank.mem[s.at], !.x = 0, !.y = 0]

\* Ctrl+L: the l is echoed and put into the line before.
ClearKey ==
    /\ Input
    /\ ClearAnywhere \/ screen.at \in {VIDEO, on_screen}
    /\ Typed("char")
    /\ screen' = Cleared(Echo(screen, "char"))
    /\ left' = EchoSpill("char")
    /\ echo' = NoEcho
    /\ KeepAstray
    /\ UNCHANGED terminals /\ UnchangedByKey

\* Mutant of Exchanged: the screen is not saved.
ExchangedUnsaved(mem, target) == [mem EXCEPT ![VIDEO] = mem[target]]

\* The screen is copied to the page of its terminal, that of the target to the screen.
Exchanged(mem, target) == [mem EXCEPT ![on_screen] = mem[VIDEO], ![VIDEO] = mem[target]]

\* Mutant of Buffers: the terminal left keeps the buffer it had, the screen.
BuffersUnchanged == video_buffer

Buffers == [video_buffer EXCEPT ![on_screen] = on_screen]

\* switch_terminal_keypress
SwitchTerminal(target) ==
    /\ Input
    /\ target # on_screen
    /\ cursor' = [cursor EXCEPT ![on_screen] = Here]
    /\ video_buffer' = Buffers
    /\ screen' = [screen EXCEPT !.mem = Exchanged(@, target),
                                !.x = cursor[target].x, !.y = cursor[target].y]
    /\ on_screen' = target
    /\ curr_terminal' = target
    /\ left' = [left EXCEPT ![on_screen] = [known |-> TRUE, page |-> screen.mem[VIDEO],
                                            cursor |-> Here, stray |-> {}]]
    /\ echo' = NoEcho
    /\ TakeOver
    /\ UNCHANGED line /\ UnchangedByKey

Keyboard ==
    \/ \E c \in {"char", "nul"} : TypeKey(c)
    \/ EnterKey
    \/ Backspace
    \/ ClearKey
    \/ \E target \in Terminals : SwitchTerminal(target)

-----------------------------------------------------------------------------
(***************************************************************************)
(* The timer interrupt                                                     *)
(***************************************************************************)
\* switch_terminal_work, after pit_handler has saved the cursor for the current
\* terminal: the cursors after it, and that of the target on the screen.
CursorsAt(target) == [cursor EXCEPT ![curr_terminal] = Here, ![on_screen] = Here]

\* "Terminal n" and a newline
Announced(s, target) ==
    LET visible == on_screen = target
        buffer == video_buffer[target]
    IN  Putc(Putc(s, "char", buffer, visible), "newline", buffer, visible)

\* The tick leaves for the shell, and what it interrupted is not resumed.
StartShell ==
    /\ pit_count < NUMBER_OF_TERMINALS
    /\ LET target == pit_count IN
        /\ cursor' = CursorsAt(target)
        /\ screen' = Announced([screen EXCEPT !.x = cursor'[target].x, !.y = cursor'[target].y],
                               target)
        /\ curr_terminal' = target
        /\ left' = [t \in Terminals |->
                        IF t = target \/ cursor'[target] \notin Cursors THEN NotSeen ELSE left[t]]
    /\ pit_count' = pit_count + 1
    /\ TakeOver
    /\ putc' = Idle
    /\ echo' = NoEcho
    /\ UNCHANGED <<video_buffer, on_screen, line, inputs>>

BufferOf(terminal) == IF terminal = on_screen THEN VIDEO ELSE terminal

\* Mutant of AllStarted: every tick from then on counts.
AllStartedFromNow == pit_count >= NUMBER_OF_TERMINALS

AllStarted == pit_count = NUMBER_OF_TERMINALS

FirstTerminalTick ==
    /\ AllStarted
    /\ cursor' = CursorsAt(0)
    /\ screen' = [screen EXCEPT !.x = cursor'[0].x, !.y = cursor'[0].y]
    /\ curr_terminal' = 0
    /\ video_buffer' = [video_buffer EXCEPT ![0] = BufferOf(0)]
    /\ pit_count' = pit_count + 1
    /\ left' = [left EXCEPT ![0] = NotSeen]
    /\ echo' = NoEcho
    /\ TakeOver
    /\ UNCHANGED <<on_screen, line, putc, inputs>>

Tick ==
    /\ pit_count > NUMBER_OF_TERMINALS
    /\ cursor' = [cursor EXCEPT ![curr_terminal] = Here]
    /\ video_buffer' = [video_buffer EXCEPT ![curr_terminal] = BufferOf(curr_terminal)]
    /\ UNCHANGED <<screen, on_screen, curr_terminal, pit_count, line, putc, history, inputs>>

Timer ==
    \/ StartShell
    \/ FirstTerminalTick
    \/ Tick

-----------------------------------------------------------------------------
Next ==
    \/ Program
    \/ Keyboard
    \/ Timer

Spec == Init /\ [][Next]_vars

-----------------------------------------------------------------------------
(***************************************************************************)
(* Properties                                                              *)
(***************************************************************************)
\* The types of the screen's and the terminals' state.
TypeOK ==
    /\ screen.mem \in [Pages -> [Cells -> BOOLEAN]]
    /\ screen.at \in Pages /\ screen.x \in Nat /\ screen.y \in Nat
    /\ video_buffer \in [Terminals -> Pages]
    /\ on_screen \in Terminals /\ curr_terminal \in Terminals
    /\ pit_count \in 0 .. NUMBER_OF_TERMINALS + 1

\* Between the store to one coordinate and the end of the scroll putc has the cursor
\* in hand.
InHand == {"load_row", "store_row", "load_column", "store_column", "newline_x", "scroll",
           "load_source", "load_page", "move"}

\* Wherever keys, ticks and switches fall between the loads and stores of a
\* program's putc and of its scroll, the cursor is on the screen whenever putc does
\* not have it in hand.  Only a cursor that was saved in the middle of a putc is
\* off the screen when it is taken over, until the next character or newline.
CursorOnScreen ==
    ~astray /\ putc.pc \notin InHand => Here \in Cursors

\* Each terminal's buffer is its own page, or the video memory while it is on the
\* screen, whatever order switches and ticks come in: what the current terminal is
\* given never is another terminal's page.
OwnBuffers ==
    \A t \in Terminals :
        video_buffer[t] = t \/ (video_buffer[t] = VIDEO /\ t = on_screen)

\* While a line is typed and erased undisturbed, the cursor stands as many cells
\* behind the prompt as the line has characters, across the ends of rows and
\* scrolls: backspace erases the last key's character and never the prompt.
EchoTracksLine ==
    Line # <<>> /\ echo.ok => Position(screen) = echo.from + Len(Line)

Returned(t) ==
    /\ \A i \in 0 .. ROWS * COLS - 1 \ left[t].stray : screen.mem[VIDEO]'[i] = left[t].page[i]
    /\ Here' = left[t].cursor

\* A switch "saves and restores vid": a terminal that the user comes back to
\* shows what it showed, and has its cursor where it was, when the user left it.
SwitchRestores ==
    [][\A t \in Terminals : SwitchTerminal(t) /\ left[t].known => Returned(t)]_vars
=============================================================================
