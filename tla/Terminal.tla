------------------------------ MODULE Terminal ------------------------------
(***************************************************************************)
(* The line discipline: keyboard_handler edits keyboard_buffer, kb_idx and *)
(* char_count from the keyboard interrupt, terminal_read waits for Enter   *)
(* and takes the line, and an Alt-Fn switch exchanges the line of the      *)
(* terminal on the screen for that of another.                             *)
(*                                                                         *)
(* keyboard_handler runs with interrupts off: one action per key.          *)
(* terminal_read runs with interrupts on until its cli(): one action per   *)
(* test it makes of shared memory.                                         *)
(***************************************************************************)
EXTENDS Integers, Sequences, SequencesExt

CONSTANTS
    TYPE_BUFFER_SIZE,     \* bytes of keyboard_buffer
    NUMBER_OF_TERMINALS,
    Keys,                 \* what the character keys of the keyboard yield
    Requests,             \* values of nbytes in reads of the terminal
    SwitchMidLine         \* whether the user leaves a terminal with a line begun

MAX_TYPE == TYPE_BUFFER_SIZE - 1
Terminals == 0 .. NUMBER_OF_TERMINALS - 1
Cells == 0 .. TYPE_BUFFER_SIZE - 1

NUL == "nul"
NL == "newline"
Space == "space"
Junk == "junk"             \* a byte of the memory after keyboard_buffer
Bytes == Keys \cup {NUL, NL, Space}

\* F11 is looked up behind the end of the character table and may yield NUL.
ASSUME TerminalAssumption ==
    /\ TYPE_BUFFER_SIZE \in Nat /\ TYPE_BUFFER_SIZE > 1
    /\ NUMBER_OF_TERMINALS \in Nat /\ NUMBER_OF_TERMINALS > 0
    /\ NL \notin Keys /\ Junk \notin Keys
    /\ Requests \subseteq Nat
    /\ SwitchMidLine \in BOOLEAN

MaxIndex == 2 * TYPE_BUFFER_SIZE   \* bound on kb_idx once it has left the buffer
MaxScan == TYPE_BUFFER_SIZE + 1    \* bound on a scan that has left the buffer

VARIABLES
    keyboard_buffer,
    kb_idx,
    char_count,
    enter_p_flag,      \* terminals[].enter_p_flag
    buf_kb,            \* terminals[].buf_kb
    curr_idx,          \* terminals[].curr_idx
    on_screen,
    reader,            \* the running program's terminal_read: place, nbytes, count
    line,              \* history: what the user has typed since the last Enter
    entered            \* history: the line entered and not yet read, by terminal

keyboard == <<keyboard_buffer, kb_idx, char_count>>
stored == <<buf_kb, curr_idx>>
history == <<line, entered>>
vars == <<keyboard, enter_p_flag, stored, on_screen, reader, history>>

EmptyBuffer == [i \in Cells |-> NUL]

\* A line as the user sees it.  It is spoiled when keys were pressed for it or
\* during it while an earlier line still waited to be read.
EmptyLine == [text |-> <<>>, spoiled |-> FALSE]
SpoiledLine == [text |-> <<>>, spoiled |-> TRUE]
Lines == [text : Seq(Bytes), spoiled : BOOLEAN]

Readers == [pc : {"run", "wait", "test", "scan", "copy"},
            nbytes : Requests \cup {0}, count : 0 .. MaxScan]
NotReading == [pc |-> "run", nbytes |-> 0, count |-> 0]

Init ==
    /\ keyboard_buffer = EmptyBuffer
    /\ kb_idx = 0
    /\ char_count = 0
    /\ enter_p_flag = [t \in Terminals |-> 0]
    /\ buf_kb = [t \in Terminals |-> EmptyBuffer]
    /\ curr_idx = [t \in Terminals |-> 0]
    /\ on_screen = 0
    /\ reader = NotReading
    /\ line = [t \in Terminals |-> EmptyLine]
    /\ entered = [t \in Terminals |-> EmptyLine]

-----------------------------------------------------------------------------
(***************************************************************************)
(* The keyboard interrupt.  A write past the buffer lands in memory that   *)
(* is not modelled.                                                        *)
(***************************************************************************)
Store(buffer, i, byte) == IF i \in Cells THEN [buffer EXCEPT ![i] = byte] ELSE buffer

Pending == enter_p_flag[on_screen] = 1

\* The user edits the line on the screen.
Edit(text) ==
    IF Pending
    THEN /\ line' = [line EXCEPT ![on_screen] = SpoiledLine]
         /\ entered' = [entered EXCEPT ![on_screen] = SpoiledLine]
    ELSE /\ line' = [line EXCEPT ![on_screen] =
                        IF @.spoiled THEN @ ELSE [@ EXCEPT !.text = text]]
         /\ UNCHANGED entered

\* Mutant of LineHasRoom: one character too many.
LineHasRoomInclusive == char_count <= MAX_TYPE

LineHasRoom == char_count < MAX_TYPE

\* Mutant of Typed: the newline is stored where the character was.
TypedOverCharacter(buffer, i, key) == Store(Store(buffer, i, key), i, NL)

\* The character, and a newline after it.
Typed(buffer, i, key) == Store(Store(buffer, i, key), i + 1, NL)

TypeKey(key) ==
    /\ LineHasRoom
    /\ kb_idx < MaxIndex
    /\ keyboard_buffer' = Typed(keyboard_buffer, kb_idx, key)
    /\ kb_idx' = kb_idx + 1
    /\ char_count' = char_count + 1
    /\ Edit(Append(line[on_screen].text, key))
    /\ UNCHANGED <<enter_p_flag, stored, on_screen, reader>>

TypeTab ==
    /\ kb_idx < MAX_TYPE
    /\ keyboard_buffer' = Store(keyboard_buffer, kb_idx, Space)
    /\ kb_idx' = kb_idx + 1
    /\ char_count' = char_count + 1
    /\ Edit(Append(line[on_screen].text, Space))
    /\ UNCHANGED <<enter_p_flag, stored, on_screen, reader>>

\* Mutant of CanErase: the index is not checked.
CanEraseAlways == TRUE

CanErase == kb_idx > 0

Backspace ==
    /\ CanErase
    /\ kb_idx' = kb_idx - 1
    /\ char_count' = char_count - 1
    /\ keyboard_buffer' = Store(keyboard_buffer, kb_idx - 1, NUL)
    /\ Edit(IF line[on_screen].text = <<>> THEN <<>> ELSE Front(line[on_screen].text))
    /\ UNCHANGED <<enter_p_flag, stored, on_screen, reader>>

Enter ==
    /\ enter_p_flag' = [enter_p_flag EXCEPT ![on_screen] = 1]
    /\ kb_idx' = 0
    /\ char_count' = 0
    /\ entered' = [entered EXCEPT ![on_screen] =
                      IF Pending THEN SpoiledLine ELSE line[on_screen]]
    /\ line' = [line EXCEPT ![on_screen] = EmptyLine]
    /\ UNCHANGED <<keyboard_buffer, stored, on_screen, reader>>

\* char_count is shared by the terminals: it is neither saved nor restored.
SwitchTerminal(target) ==
    /\ target # on_screen
    /\ SwitchMidLine \/ (kb_idx = 0 /\ line[on_screen] = EmptyLine /\ ~Pending)
    /\ buf_kb' = [buf_kb EXCEPT ![on_screen] = keyboard_buffer]
    /\ keyboard_buffer' = buf_kb[target]
    /\ curr_idx' = [curr_idx EXCEPT ![on_screen] = kb_idx]
    /\ kb_idx' = curr_idx[target]
    /\ on_screen' = target
    /\ UNCHANGED <<char_count, enter_p_flag, reader, history>>

Keyboard ==
    \/ \E key \in Keys : TypeKey(key)
    \/ TypeTab
    \/ Backspace
    \/ Enter
    \/ \E target \in Terminals : SwitchTerminal(target)

-----------------------------------------------------------------------------
(***************************************************************************)
(* terminal_read                                                           *)
(***************************************************************************)
ReadCall(nbytes) ==
    /\ reader.pc = "run"
    /\ reader' = [pc |-> "wait", nbytes |-> nbytes, count |-> 0]
    /\ UNCHANGED <<keyboard, enter_p_flag, stored, on_screen, history>>

\* Mutant of EnterSeen: the flag of the first terminal, whatever is on screen.
EnterSeenOnFirst == enter_p_flag[0] # 0

\* while(terminals[on_screen].enter_p_flag == 0);
EnterSeen == enter_p_flag[on_screen] # 0

ReadProceed ==
    /\ reader.pc = "wait" /\ EnterSeen
    /\ reader' = [reader EXCEPT !.pc = "test"]
    /\ UNCHANGED <<keyboard, enter_p_flag, stored, on_screen, history>>

\* The early returns leave the flag and the line as they are.
ReadTest ==
    /\ reader.pc = "test"
    /\ reader' = IF reader.nbytes = 0 \/ keyboard_buffer[0] = NL
                 THEN NotReading
                 ELSE [reader EXCEPT !.pc = "scan"]
    /\ UNCHANGED <<keyboard, enter_p_flag, stored, on_screen, history>>

\* while(keyboard_buffer[count] != '\0'), which may run past the buffer.
ReadScan ==
    /\ reader.pc = "scan"
    /\ reader.count < MaxScan
    /\ reader.count \in Cells => keyboard_buffer[reader.count] # NUL
    /\ reader' = [reader EXCEPT !.count = @ + 1]
    /\ UNCHANGED <<keyboard, enter_p_flag, stored, on_screen, history>>

ReadScanned ==
    /\ reader.pc = "scan"
    /\ reader.count \in Cells => keyboard_buffer[reader.count] = NUL
    /\ reader' = [reader EXCEPT !.pc = "copy"]
    /\ UNCHANGED <<keyboard, enter_p_flag, stored, on_screen, history>>

\* Mutant of Cleared: the memset is forgotten.
ClearedNot(buffer) == buffer

Cleared(buffer) == EmptyBuffer

HowMany == IF reader.count > reader.nbytes THEN reader.nbytes ELSE reader.count

\* The bytes that the caller is told of; the memcpy stores one more.
Delivered ==
    [i \in 1 .. HowMany |-> IF i - 1 \in Cells THEN keyboard_buffer[i - 1] ELSE Junk]

\* From cli() to the return; kb_idx is reset, char_count is not.
ReadCopy ==
    /\ reader.pc = "copy"
    /\ keyboard_buffer' = Cleared(keyboard_buffer)
    /\ enter_p_flag' = [enter_p_flag EXCEPT ![on_screen] = 0]
    /\ kb_idx' = 0
    /\ reader' = NotReading
    /\ entered' = [entered EXCEPT ![on_screen] = EmptyLine]
    /\ UNCHANGED <<char_count, stored, on_screen, line>>

Reader ==
    \/ ReadProceed
    \/ ReadTest
    \/ ReadScan
    \/ ReadScanned
    \/ ReadCopy

-----------------------------------------------------------------------------
Next ==
    \/ Keyboard
    \/ \E nbytes \in Requests : ReadCall(nbytes)
    \/ Reader

Spec == Init /\ [][Next]_vars

\* The CPU runs the reader whenever no interrupt is being served.
FairSpec == Spec /\ WF_vars(Reader)

-----------------------------------------------------------------------------
(***************************************************************************)
(* Properties                                                              *)
(***************************************************************************)
\* The types of the keyboard's and the terminals' state.
TypeOK ==
    /\ keyboard_buffer \in [Cells -> Bytes]
    /\ kb_idx \in 0 .. MaxIndex
    /\ char_count \in Int
    /\ enter_p_flag \in [Terminals -> {0, 1}]
    /\ buf_kb \in [Terminals -> [Cells -> Bytes]]
    /\ curr_idx \in [Terminals -> 0 .. MaxIndex]
    /\ on_screen \in Terminals
    /\ reader \in Readers
    /\ line \in [Terminals -> Lines]
    /\ entered \in [Terminals -> Lines]

\* "only type 127 chars per line": neither the line on the screen nor one left
\* on another terminal is longer, so keyboard_handler writes inside the buffer.
LineFits ==
    /\ kb_idx <= MAX_TYPE
    /\ \A t \in Terminals : curr_idx[t] <= MAX_TYPE

\* The line on the screen is in the buffer as the user sees it, whatever has
\* been typed, erased, read and switched before, unless it was begun while
\* another line waited.
BufferHoldsLine ==
    ~Pending /\ ~line[on_screen].spoiled =>
        /\ kb_idx = Len(line[on_screen].text)
        /\ \A i \in 1 .. kb_idx : keyboard_buffer[i - 1] = line[on_screen].text[i]

\* A line that terminal_read can deliver: no key came between Enter and the
\* copy, and F11 put no NUL into it.
Deliverable(l) ==
    /\ ~l.spoiled
    /\ \A i \in 1 .. Len(l.text) : l.text[i] # NUL

Taken(text, nbytes) == SubSeq(text, 1, IF nbytes < Len(text) THEN nbytes ELSE Len(text))

\* terminal_read delivers the line that was entered, cut to nbytes, whatever was
\* erased from it and however the keys fell between the steps of earlier
\* reads.  What follows the line are newlines, or bytes after the buffer.
LineDelivered ==
    [][ReadCopy /\ Deliverable(entered[on_screen]) =>
        LET text == Taken(entered[on_screen].text, reader.nbytes)
        IN  /\ IsPrefix(text, Delivered)
            /\ \A i \in Len(text) + 1 .. Len(Delivered) : Delivered[i] \in {NL, Junk}]_vars

\* Once Enter is down on the terminal on the screen, a waiting read returns.
EnterAnswered == (reader.pc = "wait" /\ Pending) ~> (reader.pc = "run")
=============================================================================
