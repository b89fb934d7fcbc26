--------------------------- MODULE TerminalProofs ---------------------------
(***************************************************************************)
(* Proofs about Terminal: its types for all constants, and, if the user    *)
(* never leaves a terminal with a line begun, that every line fits into    *)
(* keyboard_buffer, that the buffer holds the line as the user sees it,    *)
(* and that terminal_read delivers the line that was entered.              *)
(***************************************************************************)
EXTENDS Terminal, TLAPS

USE TerminalAssumption DEF MAX_TYPE, MaxIndex

LEMMA StoreType ==
    ASSUME NEW buffer \in [Cells -> Bytes], NEW i \in Int, NEW byte \in Bytes
    PROVE  Store(buffer, i, byte) \in [Cells -> Bytes]
BY DEF Store, Cells

LEMMA EditType ==
    ASSUME TypeOK, NEW text \in Seq(Bytes), Edit(text)
    PROVE  /\ line' \in [Terminals -> Lines]
           /\ entered' \in [Terminals -> Lines]
<1>. SpoiledLine \in Lines  BY DEF SpoiledLine, Lines
<1>1. CASE Pending
  BY <1>1 DEF TypeOK, Edit
<1>2. CASE ~Pending
  <2>1. [line[on_screen] EXCEPT !.text = text] \in Lines
    BY DEF TypeOK, Lines
  <2>2. QED
    BY <1>2, <2>1 DEF TypeOK, Edit
<1>3. QED  BY <1>1, <1>2

LEMMA InitType == Init => TypeOK
BY DEF Init, TypeOK, EmptyBuffer, EmptyLine, Lines, NotReading, Readers, Bytes, MaxScan, Terminals

LEMMA TypeStep == TypeOK /\ [Next]_vars => TypeOK'
<1>. SUFFICES ASSUME TypeOK, [Next]_vars PROVE TypeOK'  OBVIOUS
<1>1. ASSUME NEW key \in Keys, TypeKey(key)  PROVE TypeOK'
  <2>1. keyboard_buffer' \in [Cells -> Bytes]
    <3>1. /\ kb_idx \in Int /\ kb_idx + 1 \in Int
          /\ key \in Bytes /\ NL \in Bytes
      BY DEF TypeOK, Bytes
    <3>2. Store(keyboard_buffer, kb_idx, key) \in [Cells -> Bytes]
      BY <3>1, StoreType DEF TypeOK
    <3>3. Store(Store(keyboard_buffer, kb_idx, key), kb_idx + 1, NL) \in [Cells -> Bytes]
      BY <3>1, <3>2, StoreType
    <3>4. QED
      BY <1>1, <3>3 DEF TypeKey, Typed
  <2>2. Append(line[on_screen].text, key) \in Seq(Bytes)
    BY DEF TypeOK, Lines, Bytes
  <2>3. line' \in [Terminals -> Lines] /\ entered' \in [Terminals -> Lines]
    BY <1>1, <2>2, EditType DEF TypeKey
  <2>4. kb_idx' \in 0 .. MaxIndex /\ char_count' \in Int
    BY <1>1 DEF TypeOK, TypeKey
  <2>5. QED
    BY <1>1, <2>1, <2>3, <2>4 DEF TypeOK, TypeKey, stored
<1>2. CASE TypeTab
  <2>1. keyboard_buffer' \in [Cells -> Bytes]
    <3>1. kb_idx \in Int /\ Space \in Bytes
      BY DEF TypeOK, Bytes
    <3>2. QED
      BY <1>2, <3>1, StoreType DEF TypeOK, TypeTab
  <2>2. Append(line[on_screen].text, Space) \in Seq(Bytes)
    BY DEF TypeOK, Lines, Bytes
  <2>3. line' \in [Terminals -> Lines] /\ entered' \in [Terminals -> Lines]
    BY <1>2, <2>2, EditType DEF TypeTab
  <2>4. kb_idx' \in 0 .. MaxIndex /\ char_count' \in Int
    BY <1>2 DEF TypeOK, TypeTab
  <2>5. QED
    BY <1>2, <2>1, <2>3, <2>4 DEF TypeOK, TypeTab, stored
<1>3. CASE Backspace
  <2>1. keyboard_buffer' \in [Cells -> Bytes]
    <3>1. kb_idx - 1 \in Int /\ NUL \in Bytes
      BY DEF TypeOK, Bytes
    <3>2. QED
      BY <1>3, <3>1, StoreType DEF TypeOK, Backspace
  <2>2. (IF line[on_screen].text = <<>> THEN <<>> ELSE Front(line[on_screen].text)) \in Seq(Bytes)
    BY DEF TypeOK, Lines, Front
  <2>3. line' \in [Terminals -> Lines] /\ entered' \in [Terminals -> Lines]
    BY <1>3, <2>2, EditType DEF Backspace
  <2>4. kb_idx' \in 0 .. MaxIndex /\ char_count' \in Int
    BY <1>3 DEF TypeOK, Backspace, CanErase
  <2>5. QED
    BY <1>3, <2>1, <2>3, <2>4 DEF TypeOK, Backspace, stored
<1>4. CASE Enter
  BY <1>4 DEF TypeOK, Enter, stored, EmptyLine, SpoiledLine, Lines
<1>5. ASSUME NEW target \in Terminals, SwitchTerminal(target)  PROVE TypeOK'
  BY <1>5 DEF TypeOK, SwitchTerminal, history
<1>6. ASSUME NEW nbytes \in Requests, ReadCall(nbytes)  PROVE TypeOK'
  BY <1>6 DEF TypeOK, ReadCall, keyboard, stored, history, Readers, MaxScan
<1>7. CASE ReadProceed
  BY <1>7 DEF TypeOK, ReadProceed, Readers, keyboard, stored, history
<1>8. CASE ReadTest
  <2>1. reader' \in Readers
    BY <1>8 DEF TypeOK, ReadTest, NotReading, Readers, MaxScan
  <2>2. QED
    BY <1>8, <2>1 DEF TypeOK, ReadTest, keyboard, stored, history
<1>9. CASE ReadScan
  <2>1. reader' \in Readers
    <3>1. reader.count + 1 \in 0 .. MaxScan
      BY <1>9 DEF TypeOK, ReadScan, Readers, MaxScan
    <3>2. reader' = [reader EXCEPT !.count = reader.count + 1]
      BY <1>9 DEF ReadScan
    <3>3. QED
      BY <3>1, <3>2 DEF TypeOK, Readers
  <2>2. QED
    BY <1>9, <2>1 DEF TypeOK, ReadScan, keyboard, stored, history
<1>10. CASE ReadScanned
  BY <1>10 DEF TypeOK, ReadScanned, Readers, keyboard, stored, history
<1>11. CASE ReadCopy
  BY <1>11 DEF TypeOK, ReadCopy, Cleared, EmptyBuffer, Bytes, NotReading, Readers,
               EmptyLine, Lines, stored, MaxScan
<1>12. CASE UNCHANGED vars
  BY <1>12 DEF TypeOK, vars, keyboard, stored, history
<1>13. QED
  BY <1>1, <1>2, <1>3, <1>4, <1>5, <1>6, <1>7, <1>8, <1>9, <1>10, <1>11, <1>12
     DEF Next, Keyboard, Reader

\* keyboard_handler and terminal_read keep the types of the buffer, its index, the
\* flags and the lines, for every buffer size and number of terminals.
THEOREM TypeCorrect == Spec => []TypeOK
BY InitType, TypeStep, PTL DEF Spec
-----------------------------------------------------------------------------
(***************************************************************************)
(* Lines that fit.  keyboard_handler compares char_count with 127 before a *)
(* character and kb_idx before a tab; together they bound kb_idx because   *)
(* kb_idx never exceeds char_count: terminal_read resets only the former,  *)
(* and a terminal that is left has no line begun.                          *)
(***************************************************************************)
CountCovers ==
    /\ kb_idx <= MAX_TYPE
    /\ kb_idx <= char_count
    /\ \A t \in Terminals : curr_idx[t] = 0

LEMMA CountStep ==
    ASSUME SwitchMidLine = FALSE, TypeOK, CountCovers, [Next]_vars
    PROVE  CountCovers'
<1>1. ASSUME NEW key \in Keys, TypeKey(key)  PROVE CountCovers'
  BY <1>1 DEF TypeOK, CountCovers, TypeKey, LineHasRoom, stored
<1>2. CASE TypeTab
  BY <1>2 DEF TypeOK, CountCovers, TypeTab, stored
<1>3. CASE Backspace
  BY <1>3 DEF TypeOK, CountCovers, Backspace, stored
<1>4. CASE Enter
  BY <1>4 DEF CountCovers, Enter, stored
<1>5. ASSUME NEW target \in Terminals, SwitchTerminal(target)  PROVE CountCovers'
  BY <1>5 DEF TypeOK, CountCovers, SwitchTerminal
<1>6. ASSUME NEW nbytes \in Requests, ReadCall(nbytes)  PROVE CountCovers'
  BY <1>6 DEF CountCovers, ReadCall, keyboard, stored
<1>7. CASE ReadCopy
  BY <1>7 DEF TypeOK, CountCovers, ReadCopy, stored
<1>8. CASE ReadProceed \/ ReadTest \/ ReadScan \/ ReadScanned \/ UNCHANGED vars
  BY <1>8 DEF CountCovers, ReadProceed, ReadTest, ReadScan, ReadScanned, vars, keyboard, stored
<1>9. QED
  BY <1>1, <1>2, <1>3, <1>4, <1>5, <1>6, <1>7, <1>8 DEF Next, Keyboard, Reader

\* While the user leaves no terminal in mid-line, keyboard_handler's tests of
\* char_count and kb_idx keep every line within the 127 characters.
THEOREM LinesFit ==
    ASSUME SwitchMidLine = FALSE
    PROVE  Spec => []LineFits
<1>1. Init => TypeOK /\ CountCovers
  BY InitType DEF Init, CountCovers
<1>2. (TypeOK /\ CountCovers) /\ [Next]_vars => (TypeOK /\ CountCovers)'
  BY TypeStep, CountStep
<1>3. TypeOK /\ CountCovers => LineFits
  BY DEF CountCovers, LineFits
<1>4. QED
  BY <1>1, <1>2, <1>3, PTL DEF Spec

-----------------------------------------------------------------------------
(***************************************************************************)
(* The buffer holds the line.  While an entered line waits, the line on    *)
(* the screen is empty or spoiled, so emptying the buffer loses nothing;   *)
(* the flag stays up until terminal_read, which tested it, takes it down.  *)
(***************************************************************************)
Held(l) ==
    /\ kb_idx = Len(l.text)
    /\ \A i \in 1 .. kb_idx : keyboard_buffer[i - 1] = l.text[i]
    /\ Pending => l.text = <<>>

OthersQuiet ==
    \A t \in Terminals \ {on_screen} :
        line[t] = EmptyLine /\ enter_p_flag[t] = 0

LineHeld ==
    /\ ~line[on_screen].spoiled => Held(line[on_screen])
    /\ OthersQuiet
    /\ reader.pc \in {"test", "scan", "copy"} => Pending

\* What an edit does to the line on the screen, and to no other.
LEMMA EditEffect ==
    ASSUME TypeOK, NEW text, Edit(text)
    PROVE  /\ ~line'[on_screen].spoiled =>
                 /\ ~Pending
                 /\ ~line[on_screen].spoiled
                 /\ line'[on_screen].text = text
           /\ \A t \in Terminals \ {on_screen} : line'[t] = line[t]
<1>. line \in [Terminals -> Lines] /\ on_screen \in Terminals /\ line[on_screen] \in Lines
  BY DEF TypeOK
<1>1. CASE Pending
  BY <1>1 DEF Edit, SpoiledLine
<1>2. CASE ~Pending
  <2>1. [line[on_screen] EXCEPT !.text = text].text = text
        /\ [line[on_screen] EXCEPT !.text = text].spoiled = line[on_screen].spoiled
    BY DEF Lines
  <2>2. QED
    BY <1>2, <2>1 DEF Edit
<1>3. QED  BY <1>1, <1>2

\* Storing a byte changes that cell alone.
LEMMA StoreEffect ==
    ASSUME NEW buffer \in [Cells -> Bytes], NEW i \in Int, NEW byte, NEW j \in Cells
    PROVE  Store(buffer, i, byte)[j] = IF j = i THEN byte ELSE buffer[j]
BY DEF Store

\* A byte put at the end of the line, in the buffer and for the user.
LEMMA AppendHeld ==
    ASSUME TypeOK, LineHeld, NEW byte \in Bytes,
           kb_idx < MAX_TYPE, kb_idx' = kb_idx + 1,
           \A j \in 0 .. kb_idx :
               keyboard_buffer'[j] = IF j = kb_idx THEN byte ELSE keyboard_buffer[j],
           Edit(Append(line[on_screen].text, byte)),
           UNCHANGED <<on_screen, enter_p_flag, reader>>
    PROVE  LineHeld'
<1>. DEFINE text == line[on_screen].text
<1>1. text \in Seq(Bytes)
  BY DEF TypeOK, Lines
<1>2. ASSUME ~line'[on_screen].spoiled  PROVE Held(line[on_screen])'
  <2>1. /\ ~Pending /\ ~line[on_screen].spoiled
        /\ line'[on_screen].text = Append(text, byte)
    BY <1>2, EditEffect
  <2>2. kb_idx = Len(text) /\ \A i \in 1 .. kb_idx : keyboard_buffer[i - 1] = text[i]
    BY <2>1 DEF LineHeld, Held
  <2>3. /\ kb_idx \in Nat
        /\ Len(Append(text, byte)) = kb_idx + 1
        /\ \A i \in 1 .. kb_idx : Append(text, byte)[i] = text[i]
        /\ Append(text, byte)[kb_idx + 1] = byte
    BY <1>1, <2>2 DEF TypeOK
  <2>4. ASSUME NEW i \in 1 .. kb_idx + 1
        PROVE  keyboard_buffer'[i - 1] = Append(text, byte)[i]
    <3>1. keyboard_buffer'[i - 1] = IF i - 1 = kb_idx THEN byte ELSE keyboard_buffer[i - 1]
      BY <2>3
    <3>2. CASE i = kb_idx + 1
      BY <2>3, <3>1, <3>2
    <3>3. CASE i \in 1 .. kb_idx
      BY <2>2, <2>3, <3>1, <3>3
    <3>4. QED
      BY <2>3, <3>2, <3>3
  <2>5. ~Pending'
    BY <2>1 DEF Pending
  <2>6. QED
    BY <2>1, <2>3, <2>4, <2>5 DEF Held
<1>3. QED
  BY <1>2, EditEffect DEF LineHeld, OthersQuiet, Pending

LEMMA HeldStep ==
    ASSUME SwitchMidLine = FALSE, TypeOK, CountCovers, LineHeld, [Next]_vars
    PROVE  LineHeld'
<1>1. ASSUME NEW key \in Keys, TypeKey(key)  PROVE LineHeld'
  <2>1. /\ kb_idx \in Nat /\ kb_idx + 1 \in Int /\ kb_idx < MAX_TYPE
        /\ key \in Bytes /\ NL \in Bytes
    BY <1>1 DEF TypeKey, LineHasRoom, CountCovers, TypeOK, Bytes
  <2>2. Store(keyboard_buffer, kb_idx, key) \in [Cells -> Bytes]
    BY <2>1, StoreType DEF TypeOK
  <2>3. ASSUME NEW j \in 0 .. kb_idx
        PROVE  keyboard_buffer'[j] = IF j = kb_idx THEN key ELSE keyboard_buffer[j]
    <3>1. j \in Cells /\ j # kb_idx + 1
      BY <2>1 DEF Cells
    <3>2. keyboard_buffer'[j] = Store(keyboard_buffer, kb_idx, key)[j]
      BY <1>1, <2>1, <2>2, <3>1, StoreEffect DEF TypeKey, Typed
    <3>3. QED
      BY <2>1, <3>1, <3>2, StoreEffect DEF TypeOK
  <2>4. QED
    BY <1>1, <2>1, <2>3, AppendHeld DEF TypeKey
<1>2. CASE TypeTab
  <2>1. kb_idx \in Nat /\ kb_idx < MAX_TYPE /\ Space \in Bytes
    BY <1>2 DEF TypeTab, TypeOK, Bytes
  <2>2. ASSUME NEW j \in 0 .. kb_idx
        PROVE  keyboard_buffer'[j] = IF j = kb_idx THEN Space ELSE keyboard_buffer[j]
    <3>1. j \in Cells
      BY <2>1 DEF Cells
    <3>2. QED
      BY <1>2, <2>1, <3>1, StoreEffect DEF TypeTab, TypeOK
  <2>3. QED
    BY <1>2, <2>1, <2>2, AppendHeld DEF TypeTab
<1>3. CASE Backspace
  <2>. DEFINE text == line[on_screen].text
  <2>1. text \in Seq(Bytes) /\ kb_idx \in Nat /\ kb_idx > 0 /\ kb_idx' = kb_idx - 1
    BY <1>3 DEF Backspace, CanErase, TypeOK, Lines
  <2>2. Edit(IF text = <<>> THEN <<>> ELSE Front(text))
    BY <1>3 DEF Backspace
  <2>3. ASSUME ~line'[on_screen].spoiled  PROVE Held(line[on_screen])'
    <3>1. ~Pending /\ ~line[on_screen].spoiled
          /\ line'[on_screen].text = IF text = <<>> THEN <<>> ELSE Front(text)
      BY <2>2, <2>3, EditEffect
    <3>2. kb_idx = Len(text) /\ \A i \in 1 .. kb_idx : keyboard_buffer[i - 1] = text[i]
      BY <3>1 DEF LineHeld, Held
    <3>3. line'[on_screen].text = SubSeq(text, 1, kb_idx - 1)
      BY <2>1, <3>1, <3>2 DEF Front
    <3>4. /\ Len(line'[on_screen].text) = kb_idx'
          /\ \A i \in 1 .. kb_idx' : line'[on_screen].text[i] = text[i]
      BY <2>1, <3>2, <3>3
    <3>5. ASSUME NEW i \in 1 .. kb_idx'  PROVE keyboard_buffer'[i - 1] = text[i]
      <4>1. i - 1 \in Cells /\ kb_idx - 1 \in Int /\ i - 1 # kb_idx - 1 /\ i \in 1 .. kb_idx
        BY <2>1 DEF Cells, CountCovers
      <4>2. Store(keyboard_buffer, kb_idx - 1, NUL)[i - 1] = keyboard_buffer[i - 1]
        BY <4>1, StoreEffect DEF TypeOK
      <4>3. QED
        BY <1>3, <3>2, <4>1, <4>2 DEF Backspace
    <3>6. ~Pending'
      BY <1>3, <3>1 DEF Backspace, Pending
    <3>7. QED
      BY <1>3, <3>4, <3>5, <3>6 DEF Held, Backspace
  <2>4. QED
    BY <1>3, <2>2, <2>3, EditEffect DEF LineHeld, OthersQuiet, Pending, Backspace
<1>4. CASE Enter
  <2>1. line'[on_screen'] = EmptyLine /\ kb_idx' = 0
    BY <1>4 DEF Enter, TypeOK
  <2>2. Held(line[on_screen])'
    BY <2>1 DEF Held, EmptyLine
  <2>3. OthersQuiet' /\ Pending'
    BY <1>4 DEF Enter, TypeOK, LineHeld, OthersQuiet, Pending
  <2>4. QED
    BY <2>2, <2>3 DEF LineHeld
<1>5. ASSUME NEW target \in Terminals, SwitchTerminal(target)  PROVE LineHeld'
  <2>1. line' = line /\ kb_idx' = 0 /\ on_screen' = target /\ enter_p_flag' = enter_p_flag
    BY <1>5 DEF SwitchTerminal, CountCovers, history
  <2>2. line[on_screen] = EmptyLine /\ ~Pending /\ target # on_screen
    BY <1>5 DEF SwitchTerminal
  <2>3. line[target] = EmptyLine /\ enter_p_flag[target] = 0
    BY <2>2 DEF LineHeld, OthersQuiet
  <2>4. Held(line[on_screen])'
    BY <2>1, <2>3 DEF Held, EmptyLine
  <2>5. OthersQuiet'
    BY <2>1, <2>2 DEF LineHeld, OthersQuiet, Pending, TypeOK
  <2>6. reader'.pc \notin {"test", "scan", "copy"}
    BY <1>5, <2>2 DEF SwitchTerminal, LineHeld
  <2>7. QED
    BY <2>4, <2>5, <2>6 DEF LineHeld
<1>6. ASSUME NEW nbytes \in Requests, ReadCall(nbytes)  PROVE LineHeld'
  BY <1>6 DEF ReadCall, LineHeld, OthersQuiet, Held, Pending, keyboard, stored, history
<1>7. CASE ReadProceed
  BY <1>7 DEF ReadProceed, EnterSeen, LineHeld, OthersQuiet, Held, Pending, TypeOK,
              keyboard, stored, history
<1>8. CASE ReadTest
  BY <1>8 DEF ReadTest, NotReading, LineHeld, OthersQuiet, Held, Pending, TypeOK,
              keyboard, stored, history
<1>9. CASE ReadScan \/ ReadScanned
  <2>1. UNCHANGED <<keyboard, enter_p_flag, on_screen, line>> /\ reader.pc = "scan"
    BY <1>9 DEF ReadScan, ReadScanned, history
  <2>2. QED
    BY <2>1 DEF LineHeld, OthersQuiet, Held, Pending, keyboard
<1>10. CASE ReadCopy
  <2>1. Pending /\ kb_idx' = 0 /\ line' = line /\ on_screen' = on_screen
    BY <1>10 DEF ReadCopy, LineHeld
  <2>2. ASSUME ~line[on_screen].spoiled  PROVE Held(line[on_screen])'
    BY <2>1, <2>2 DEF LineHeld, Held
  <2>3. OthersQuiet' /\ reader'.pc = "run"
    BY <1>10 DEF ReadCopy, NotReading, LineHeld, OthersQuiet, TypeOK
  <2>4. QED
    BY <2>1, <2>2, <2>3 DEF LineHeld
<1>11. CASE UNCHANGED vars
  BY <1>11 DEF vars, LineHeld, OthersQuiet, Held, Pending, keyboard, stored, history
<1>12. QED
  BY <1>1, <1>2, <1>3, <1>4, <1>5, <1>6, <1>7, <1>8, <1>9, <1>10, <1>11
     DEF Next, Keyboard, Reader

\* While the user leaves no terminal in mid-line, keyboard_buffer holds the line on
\* the screen, however keys, backspaces, tabs, reads and switches follow one
\* another.
THEOREM BufferHolds ==
    ASSUME SwitchMidLine = FALSE
    PROVE  Spec => []BufferHoldsLine
<1>. DEFINE Inv == TypeOK /\ CountCovers /\ LineHeld
<1>1. Init => Inv
  <2>1. Init => TypeOK /\ CountCovers
    BY InitType DEF Init, CountCovers
  <2>2. Init => LineHeld
    BY DEF Init, LineHeld, Held, OthersQuiet, EmptyLine, NotReading, Terminals, Pending
  <2>3. QED
    BY <2>1, <2>2
<1>2. Inv /\ [Next]_vars => Inv'
  BY TypeStep, CountStep, HeldStep
<1>3. Inv => BufferHoldsLine
  BY DEF LineHeld, Held, BufferHoldsLine
<1>. HIDE DEF Inv
<1>4. QED
  BY <1>1, <1>2, <1>3, PTL DEF Spec

-----------------------------------------------------------------------------
(***************************************************************************)
(* The line delivered.  Behind the line a buffer holds newlines and NULs   *)
(* only, also the ones saved for other terminals; an entered line that no  *)
(* key has spoiled stands in the buffer until it is copied; and the scan   *)
(* has passed no NUL and stops at one or behind the buffer.                *)
(***************************************************************************)
Rests(buffer, from) == \A j \in Cells : j >= from => buffer[j] \in {NL, NUL}

BuffersRest ==
    /\ ~Pending => Rests(keyboard_buffer, kb_idx)
    /\ \A t \in Terminals : Rests(buf_kb[t], 0)

\* The text of l stands in the buffer, and nothing but newlines and NULs behind it.
Stands(l) ==
    /\ Len(l.text) <= MAX_TYPE
    /\ \A i \in 1 .. Len(l.text) : keyboard_buffer[i - 1] = l.text[i]
    /\ Rests(keyboard_buffer, Len(l.text))

Scanned ==
    /\ reader.pc \in {"scan", "copy"} =>
        \A j \in Cells : j < reader.count => keyboard_buffer[j] # NUL
    /\ reader.pc = "copy" /\ reader.count \in Cells => keyboard_buffer[reader.count] = NUL

EnteredHeld ==
    /\ Pending /\ ~entered[on_screen].spoiled => Stands(entered[on_screen]) /\ Scanned
    /\ reader.pc \in {"wait", "test"} => reader.count = 0

\* A key that edits the line: it spoils the line entered, if one waits.
LEMMA EditStands ==
    ASSUME TypeOK, BuffersRest, EnteredHeld, NEW text, Edit(text),
           ~Pending => Rests(keyboard_buffer', kb_idx'),
           UNCHANGED <<buf_kb, on_screen, enter_p_flag, reader>>
    PROVE  BuffersRest' /\ EnteredHeld'
<1>1. Pending' <=> Pending
  BY DEF Pending
<1>2. Pending => entered'[on_screen].spoiled
  BY DEF Edit, TypeOK, SpoiledLine
<1>3. (~Pending => Rests(keyboard_buffer, kb_idx))'
  BY <1>1 DEF Rests
<1>. QED
  BY <1>1, <1>2, <1>3 DEF BuffersRest, EnteredHeld, Rests

LEMMA EnteredStep ==
    ASSUME SwitchMidLine = FALSE, TypeOK, CountCovers, LineHeld, BuffersRest, EnteredHeld,
           [Next]_vars
    PROVE  BuffersRest' /\ EnteredHeld'
<1>0. kb_idx \in Nat /\ on_screen \in Terminals /\ keyboard_buffer \in [Cells -> Bytes]
  BY DEF TypeOK
<1>1. ASSUME NEW key \in Keys, TypeKey(key)  PROVE BuffersRest' /\ EnteredHeld'
  <2>1. /\ kb_idx + 1 \in Int /\ key \in Bytes /\ NL \in Bytes
    BY <1>0, <1>1 DEF Bytes
  <2>2. Store(keyboard_buffer, kb_idx, key) \in [Cells -> Bytes]
    BY <1>0, <2>1, StoreType
  <2>3. ASSUME ~Pending  PROVE Rests(keyboard_buffer', kb_idx')
    <3>. SUFFICES ASSUME NEW j \in Cells, j >= kb_idx + 1
                  PROVE  keyboard_buffer'[j] \in {NL, NUL}
      BY <1>1 DEF TypeKey, Rests
    <3>1. keyboard_buffer'[j] =
              IF j = kb_idx + 1 THEN NL ELSE Store(keyboard_buffer, kb_idx, key)[j]
      BY <1>1, <2>1, <2>2, StoreEffect DEF TypeKey, Typed
    <3>2. j # kb_idx /\ j >= kb_idx
      BY <1>0 DEF Cells
    <3>3. Store(keyboard_buffer, kb_idx, key)[j] = keyboard_buffer[j]
      BY <1>0, <3>2, StoreEffect
    <3>. QED  BY <2>3, <3>1, <3>2, <3>3 DEF BuffersRest, Rests
  <2>. QED  BY <1>1, <2>3, EditStands DEF TypeKey, stored
<1>2. CASE TypeTab
  <2>1. ASSUME ~Pending  PROVE Rests(keyboard_buffer', kb_idx')
    <3>. SUFFICES ASSUME NEW j \in Cells, j >= kb_idx + 1
                  PROVE  keyboard_buffer'[j] \in {NL, NUL}
      BY <1>2 DEF TypeTab, Rests
    <3>1. j # kb_idx /\ j >= kb_idx
      BY <1>0 DEF Cells
    <3>2. keyboard_buffer'[j] = keyboard_buffer[j]
      BY <1>0, <1>2, <3>1, StoreEffect DEF TypeTab
    <3>. QED  BY <2>1, <3>1, <3>2 DEF BuffersRest, Rests
  <2>. QED  BY <1>2, <2>1, EditStands DEF TypeTab, stored
<1>3. CASE Backspace
  <2>1. ASSUME ~Pending  PROVE Rests(keyboard_buffer', kb_idx')
    <3>. SUFFICES ASSUME NEW j \in Cells, j >= kb_idx - 1
                  PROVE  keyboard_buffer'[j] \in {NL, NUL}
      BY <1>3 DEF Backspace, Rests
    <3>1. kb_idx - 1 \in Int /\ j \in Int
      BY <1>0 DEF Cells
    <3>2. keyboard_buffer'[j] = IF j = kb_idx - 1 THEN NUL ELSE keyboard_buffer[j]
      BY <1>0, <1>3, <3>1, StoreEffect DEF Backspace
    <3>3. j = kb_idx - 1 \/ j >= kb_idx
      BY <1>0, <3>1
    <3>. QED  BY <2>1, <3>2, <3>3 DEF BuffersRest, Rests
  <2>. QED  BY <1>3, <2>1, EditStands DEF Backspace, stored
<1>4. CASE Enter
  <2>1. Pending' /\ buf_kb' = buf_kb /\ keyboard_buffer' = keyboard_buffer
        /\ reader' = reader /\ on_screen' = on_screen
    BY <1>4 DEF Enter, Pending, TypeOK, stored
  <2>2. BuffersRest'
    BY <2>1 DEF BuffersRest, Rests
  <2>3. ASSUME ~entered'[on_screen].spoiled
        PROVE  Stands(entered[on_screen])' /\ Scanned'
    <3>1. ~Pending /\ entered'[on_screen] = line[on_screen]
      BY <1>0, <1>4, <2>3 DEF Enter, TypeOK, SpoiledLine
    <3>2. Held(line[on_screen]) /\ Rests(keyboard_buffer, kb_idx) /\ kb_idx <= MAX_TYPE
      BY <2>3, <3>1 DEF LineHeld, BuffersRest, CountCovers
    <3>3. reader.pc \notin {"scan", "copy"}
      BY <3>1 DEF LineHeld
    <3>. QED  BY <2>1, <3>1, <3>2, <3>3 DEF Stands, Scanned, Held, Rests
  <2>. QED  BY <2>1, <2>2, <2>3 DEF EnteredHeld
<1>5. ASSUME NEW target \in Terminals, SwitchTerminal(target)
      PROVE  BuffersRest' /\ EnteredHeld'
  <2>1. /\ ~Pending /\ kb_idx = 0 /\ target # on_screen
        /\ keyboard_buffer' = buf_kb[target] /\ kb_idx' = curr_idx[target]
        /\ buf_kb' = [buf_kb EXCEPT ![on_screen] = keyboard_buffer]
        /\ on_screen' = target /\ enter_p_flag' = enter_p_flag /\ reader' = reader
    BY <1>5 DEF SwitchTerminal
  <2>2. kb_idx' = 0
    BY <2>1 DEF CountCovers
  <2>3. ~Pending'
    BY <2>1 DEF LineHeld, OthersQuiet, Pending
  <2>4. Rests(keyboard_buffer, 0) /\ Rests(buf_kb[target], 0)
    BY <2>1 DEF BuffersRest
  <2>5. \A t \in Terminals : Rests(buf_kb'[t], 0)
    BY <2>1, <2>4 DEF BuffersRest, TypeOK
  <2>. QED
    BY <2>1, <2>2, <2>3, <2>4, <2>5 DEF BuffersRest, EnteredHeld, Rests
<1>6. ASSUME NEW nbytes \in Requests, ReadCall(nbytes)  PROVE BuffersRest' /\ EnteredHeld'
  BY <1>6 DEF ReadCall, BuffersRest, EnteredHeld, Rests, Stands, Scanned, Pending, keyboard,
              stored, history
<1>7. CASE ReadProceed
  <2>1. reader' = [reader EXCEPT !.pc = "test"] /\ reader.pc = "wait"
    BY <1>7 DEF ReadProceed
  <2>2. reader'.pc = "test" /\ reader'.count = reader.count
    BY <2>1 DEF TypeOK, Readers
  <2>. QED
    BY <1>7, <2>1, <2>2 DEF ReadProceed, BuffersRest, EnteredHeld, Rests, Stands, Scanned,
         Pending, keyboard, stored, history
<1>8. CASE ReadTest
  <2>1. \/ reader' = NotReading
        \/ reader' = [reader EXCEPT !.pc = "scan"] /\ reader.pc = "test"
    BY <1>8 DEF ReadTest
  <2>2. \/ reader'.pc = "run"
        \/ reader'.pc = "scan" /\ reader'.count = 0
    BY <2>1 DEF TypeOK, Readers, NotReading, EnteredHeld
  <2>3. UNCHANGED <<keyboard, enter_p_flag, stored, on_screen, history>>
    BY <1>8 DEF ReadTest
  <2>4. \A j \in Cells : ~(j < 0)
    BY DEF Cells
  <2>. QED
    BY <2>2, <2>3, <2>4 DEF BuffersRest, EnteredHeld, Rests, Stands, Scanned,
         Pending, keyboard, stored, history
<1>9. CASE ReadScan
  <2>1. /\ reader.pc = "scan" /\ reader' = [reader EXCEPT !.count = reader.count + 1]
        /\ reader.count \in Cells => keyboard_buffer[reader.count] # NUL
        /\ UNCHANGED <<keyboard, enter_p_flag, stored, on_screen, history>>
    BY <1>9 DEF ReadScan
  <2>2. reader'.pc = "scan" /\ reader'.count = reader.count + 1 /\ reader.count \in Nat
    BY <2>1 DEF TypeOK, Readers, MaxScan
  <2>3. Scanned => Scanned'
    <3>. SUFFICES ASSUME Scanned, NEW j \in Cells, j < reader.count + 1
                  PROVE  keyboard_buffer[j] # NUL
      BY <2>1, <2>2 DEF Scanned, keyboard
    <3>1. j = reader.count \/ j < reader.count
      BY <2>2 DEF Cells
    <3>. QED  BY <2>1, <3>1 DEF Scanned
  <2>. QED
    BY <2>1, <2>2, <2>3 DEF BuffersRest, EnteredHeld, Rests, Stands, Pending, keyboard,
         stored, history
<1>10. CASE ReadScanned
  <2>1. /\ reader.pc = "scan" /\ reader' = [reader EXCEPT !.pc = "copy"]
        /\ reader.count \in Cells => keyboard_buffer[reader.count] = NUL
        /\ UNCHANGED <<keyboard, enter_p_flag, stored, on_screen, history>>
    BY <1>10 DEF ReadScanned
  <2>2. reader'.pc = "copy" /\ reader'.count = reader.count
    BY <2>1 DEF TypeOK, Readers
  <2>3. Scanned => Scanned'
    BY <2>1, <2>2 DEF Scanned, keyboard
  <2>. QED
    BY <2>1, <2>2, <2>3 DEF BuffersRest, EnteredHeld, Rests, Stands, Pending, keyboard,
         stored, history
<1>11. CASE ReadCopy
  <2>1. /\ keyboard_buffer' = EmptyBuffer /\ kb_idx' = 0 /\ reader' = NotReading
        /\ buf_kb' = buf_kb /\ on_screen' = on_screen
        /\ enter_p_flag' = [enter_p_flag EXCEPT ![on_screen] = 0]
    BY <1>11 DEF ReadCopy, Cleared, stored
  <2>2. ~Pending' /\ reader'.pc = "run"
    BY <1>0, <2>1 DEF Pending, NotReading, TypeOK
  <2>3. Rests(EmptyBuffer, 0)
    BY DEF Rests, EmptyBuffer
  <2>. QED
    BY <2>1, <2>2, <2>3 DEF BuffersRest, EnteredHeld, Rests
<1>12. CASE UNCHANGED vars
  BY <1>12 DEF vars, BuffersRest, EnteredHeld, Rests, Stands, Scanned, Pending, keyboard,
               stored, history
<1>. QED
  BY <1>1, <1>2, <1>3, <1>4, <1>5, <1>6, <1>7, <1>8, <1>9, <1>10, <1>11, <1>12
     DEF Next, Keyboard, Reader

\* What a copy hands over, from where the line stands and the scan has stopped.
LEMMA CopyDelivers ==
    ASSUME TypeOK, LineHeld, EnteredHeld, ReadCopy, Deliverable(entered[on_screen])
    PROVE  LET text == Taken(entered[on_screen].text, reader.nbytes)
           IN  /\ IsPrefix(text, Delivered)
               /\ \A i \in Len(text) + 1 .. Len(Delivered) : Delivered[i] \in {NL, Junk}
<1>. DEFINE whole == entered[on_screen].text
            text == Taken(whole, reader.nbytes)
            n == Len(whole)
<1>1. reader.pc = "copy" /\ Pending
  BY DEF ReadCopy, LineHeld
<1>2. Stands(entered[on_screen]) /\ Scanned
  BY <1>1 DEF EnteredHeld, Deliverable
<1>3. /\ whole \in Seq(Bytes) /\ n \in Nat /\ reader.nbytes \in Nat /\ reader.count \in Nat
  <2>1. entered[on_screen] \in Lines /\ reader \in Readers
    BY DEF TypeOK
  <2>2. whole \in Seq(Bytes) /\ n \in Nat
    BY <2>1 DEF Lines
  <2>3. reader.nbytes \in Nat
    <3>1. reader.nbytes \in Requests \cup {0}
      BY <2>1 DEF Readers
    <3>2. Requests \subseteq Nat
      BY TerminalAssumption
    <3>3. CASE reader.nbytes \in Requests
      BY ONLY <3>2, <3>3
    <3>4. CASE reader.nbytes = 0
      BY ONLY <3>4
    <3>. QED  BY ONLY <3>1, <3>3, <3>4
  <2>4. reader.count \in Nat
    BY <2>1 DEF Readers, MaxScan
  <2>. QED  BY <2>2, <2>3, <2>4
<1>4. /\ n <= MAX_TYPE /\ \A i \in 1 .. n : keyboard_buffer[i - 1] = whole[i]
      /\ \A j \in Cells : j >= n => keyboard_buffer[j] \in {NL, NUL}
      /\ \A i \in 1 .. n : whole[i] # NUL
  BY <1>2 DEF Stands, Rests, Deliverable
<1>5. /\ \A j \in Cells : j < reader.count => keyboard_buffer[j] # NUL
      /\ reader.count \in Cells => keyboard_buffer[reader.count] = NUL
  BY <1>1, <1>2 DEF Scanned
<1>. HIDE DEF whole
<1>6. reader.count >= n
  <2>. SUFFICES ASSUME reader.count < n  PROVE FALSE
    BY <1>3
  <2>1. reader.count \in Cells /\ reader.count + 1 \in 1 .. n /\ (reader.count + 1) - 1 = reader.count
    BY <1>3, <1>4 DEF Cells
  <2>2. keyboard_buffer[reader.count] = whole[reader.count + 1]
    BY <1>4, <2>1
  <2>. QED  BY <1>4, <1>5, <2>1, <2>2
<1>. DEFINE shown == IF reader.nbytes < n THEN reader.nbytes ELSE n
<1>7. /\ shown \in Nat /\ shown <= n /\ shown <= HowMany /\ HowMany \in Nat
      /\ HowMany <= reader.count /\ HowMany <= reader.nbytes
  BY <1>3, <1>6 DEF HowMany
<1>8. text = SubSeq(whole, 1, shown)
  BY DEF Taken
<1>9. Len(text) = shown /\ \A i \in 1 .. shown : text[i] = whole[i]
  BY <1>3, <1>7, <1>8
<1>10. Len(Delivered) = HowMany /\ Delivered \in Seq(Bytes \cup {Junk})
  <2>1. \A i \in 1 .. HowMany :
            (IF i - 1 \in Cells THEN keyboard_buffer[i - 1] ELSE Junk) \in Bytes \cup {Junk}
    BY DEF TypeOK
  <2>. DEFINE m == HowMany
  <2>2. m \in Nat
    BY <1>7
  <2>. HIDE DEF m
  <2>3. Delivered = [i \in 1 .. m |-> IF i - 1 \in Cells THEN keyboard_buffer[i - 1] ELSE Junk]
    BY DEF Delivered, m
  <2>4. Delivered \in [1 .. m -> Bytes \cup {Junk}]
    BY <2>1, <2>3 DEF m
  <2>. QED  BY <2>2, <2>4 DEF m
<1>11. ASSUME NEW i \in 1 .. HowMany
       PROVE  /\ Delivered[i] = IF i - 1 \in Cells THEN keyboard_buffer[i - 1] ELSE Junk
              /\ i <= shown => Delivered[i] = whole[i]
              /\ i > shown => Delivered[i] \in {NL, Junk}
  <2>1. Delivered[i] = IF i - 1 \in Cells THEN keyboard_buffer[i - 1] ELSE Junk
    BY <1>7 DEF Delivered
  <2>2. ASSUME i <= shown  PROVE Delivered[i] = whole[i]
    <3>1. i \in 1 .. n /\ i - 1 \in Cells
      BY <1>3, <1>4, <1>7, <2>2 DEF Cells
    <3>. QED  BY <1>4, <2>1, <3>1
  <2>3. ASSUME i > shown  PROVE Delivered[i] \in {NL, Junk}
    <3>1. i - 1 >= n /\ i - 1 < reader.count
      BY <1>3, <1>7, <2>3
    <3>2. CASE i - 1 \in Cells
      <4>1. keyboard_buffer[i - 1] \in {NL, NUL} /\ keyboard_buffer[i - 1] # NUL
        BY <1>4, <1>5, <3>1, <3>2
      <4>. QED  BY <2>1, <3>2, <4>1
    <3>. QED  BY <2>1, <3>2
  <2>. QED  BY <2>1, <2>2, <2>3
<1>. HIDE DEF text, shown
<1>12. \A i \in Len(text) + 1 .. Len(Delivered) : Delivered[i] \in {NL, Junk}
  BY <1>7, <1>9, <1>10, <1>11
<1>13. IsPrefix(text, Delivered)
  <2>1. ASSUME NEW i \in 1 .. Len(text)  PROVE text[i] = Delivered[i]
    <3>1. i \in 1 .. shown /\ i \in 1 .. HowMany /\ i <= shown
      BY <1>7, <1>9
    <3>2. text[i] = whole[i]
      BY <1>9, <3>1
    <3>3. Delivered[i] = whole[i]
      BY <1>11, <3>1
    <3>. QED  BY <3>2, <3>3
  <2>2. Len(text) <= Len(Delivered)
    BY <1>7, <1>9, <1>10
  <2>. QED  BY <1>7, <1>9, <1>10, <2>1, <2>2 DEF IsPrefix
<1>. QED  BY <1>12, <1>13 DEF text, whole

\* While the user leaves no terminal in mid-line, terminal_read delivers the line
\* that was entered, whatever keys, erasures and earlier reads came before it: the
\* memset of keyboard_buffer and the NUL of a backspace leave no byte of an older line.
THEOREM LinesDelivered ==
    ASSUME SwitchMidLine = FALSE
    PROVE  Spec => LineDelivered
<1>. DEFINE Inv == TypeOK /\ CountCovers /\ LineHeld /\ BuffersRest /\ EnteredHeld
<1>1. Init => Inv
  <2>1. Init => TypeOK /\ CountCovers
    BY InitType DEF Init, CountCovers
  <2>2. Init => LineHeld
    BY DEF Init, LineHeld, Held, OthersQuiet, EmptyLine, NotReading, Terminals, Pending
  <2>3. Init => BuffersRest /\ EnteredHeld
    BY DEF Init, BuffersRest, EnteredHeld, Rests, EmptyBuffer, Pending, NotReading, Terminals
  <2>. QED  BY <2>1, <2>2, <2>3
<1>2. Inv /\ [Next]_vars => Inv'
  BY TypeStep, CountStep, HeldStep, EnteredStep
<1>3. Inv => (ReadCopy /\ Deliverable(entered[on_screen]) =>
                  LET text == Taken(entered[on_screen].text, reader.nbytes)
                  IN  /\ IsPrefix(text, Delivered)
                      /\ \A i \in Len(text) + 1 .. Len(Delivered) : Delivered[i] \in {NL, Junk})
  BY CopyDelivers
<1>. HIDE DEF Inv
<1>. QED
  BY <1>1, <1>2, <1>3, PTL DEF Spec, LineDelivered
=============================================================================
