---------------------------- MODULE DevicesProofs ----------------------------
(***************************************************************************)
(* Proofs about Devices, for whatever the BIOS leaves in the clock, all    *)
(* frequencies that programs ask for and any depth of interrupts: the      *)
(* chips agree with the kernel, the rate asked for survives the handlers   *)
(* that use the same ports, and a read of the clock waits for it.          *)
(***************************************************************************)
EXTENDS Devices, SequenceTheorems, TLAPS

USE DevicesAssumption

-----------------------------------------------------------------------------
(***************************************************************************)
(* Facts about bytes and tasks                                             *)
(***************************************************************************)
LEMMA SetBit64 == \A byte \in 0 .. 255 : SetBit(byte, 64) \in 0 .. 255
BY DEF SetBit, Bit

LEMMA UpdateBit == \A byte \in 0 .. 127 : Read(byte) = {byte, byte + 128}
BY DEF Read, SetBit, Bit

LEMMA ByteWritten ==
    \A byte \in 0 .. 255, rate \in 0 .. 15 : WithRate(byte, rate) \in 0 .. 127
BY DEF WithRate

\* The divider stays whether the clock was updating or not.
Written(a, rate, byte) ==
    WithRate(byte, rate) \div 16 = a \div 16 /\ WithRate(byte, rate) % 16 = rate

LEMMA RateWritten ==
    \A a \in 0 .. 127, rate \in 0 .. 15 : \A byte \in {a, a + 128} : Written(a, rate, byte)
BY DEF Written, WithRate

\* The requests are numbers, and the least of them is negative.
LEMMA Requested == INT_MIN \in Int /\ INT_MIN < 0 /\ INT_MIN .. INT_MAX \subseteq Int
<1>1. INT_MAX \in Int  BY SMT DEF INT_MAX
<1>2. INT_MAX > 0  BY SMT DEF INT_MAX
<1>3. INT_MIN \in Int  BY <1>1, SMT DEF INT_MIN
<1>4. INT_MIN < 0  BY <1>1, <1>2, SMT DEF INT_MIN
<1>5. QED  BY <1>1, <1>3, <1>4

LEMMA TaskFields ==
    ASSUME NEW t \in Tasks
    PROVE  /\ t.frequency \in Int /\ t.temp \in Nat /\ t.rate \in 0 .. 15
           /\ t.saved_a \in 0 .. 255
<1>1. t.frequency \in Int
  <2>1. t.frequency \in Frequencies \cup {2}  BY DEF Tasks, MIN_RATE
  <2>2. Frequencies \cup {2} \subseteq Int  BY DevicesAssumption, Requested
  <2>3. QED  BY <2>1, <2>2
<1>2. QED
  BY <1>1 DEF Tasks

LEMMA ScaledTask ==
    ASSUME NEW t \in Tasks, t.temp * 2 \in Nat, t.rate - 1 \in 0 .. 15
    PROVE  [t EXCEPT !.temp = @ * 2, !.rate = @ - 1] \in Tasks
<1>. DEFINE P == {"i8259_init", "init_rtc", "init_keyboard", "sti", "init_PIT",
                  "user", "scale", "cli", "selectA", "readA", "selectA2", "writeA",
                  "read", "read_sti", "spin"}
            Q == Frequencies \cup {MIN_RATE}  R == 0 .. 15  T == 0 .. 255
            x == t.temp * 2  y == t.rate - 1
<1>1. Tasks = [pc : P, frequency : Q, temp : Nat, rate : R, saved_a : T]
  BY DEF Tasks
<1>2. x \in Nat /\ y \in R  OBVIOUS
<1>3. [t EXCEPT !.temp = @ * 2, !.rate = @ - 1] = [t EXCEPT !.temp = x, !.rate = y]
  OBVIOUS
<1>. HIDE DEF P, Q, R, T, x, y
<1>4. [t EXCEPT !.temp = x, !.rate = y] \in [pc : P, frequency : Q, temp : Nat, rate : R, saved_a : T]
  BY ONLY <1>1, <1>2, t \in Tasks
<1>5. QED  BY ONLY <1>1, <1>3, <1>4

LEMMA SavedTask ==
    ASSUME NEW t \in Tasks, NEW byte \in 0 .. 255, NEW u,
           u = [t EXCEPT !.pc = "selectA2", !.saved_a = byte]
    PROVE  /\ u \in Tasks /\ u.pc = "selectA2" /\ u.frequency = t.frequency
           /\ u.temp = t.temp /\ u.rate = t.rate
<1>. DEFINE P == {"i8259_init", "init_rtc", "init_keyboard", "sti", "init_PIT",
                  "user", "scale", "cli", "selectA", "readA", "selectA2", "writeA",
                  "read", "read_sti", "spin"}
            Q == Frequencies \cup {MIN_RATE}  R == 0 .. 15  T == 0 .. 255
<1>1. Tasks = [pc : P, frequency : Q, temp : Nat, rate : R, saved_a : T]
  BY DEF Tasks
<1>2. "selectA2" \in P /\ byte \in T  OBVIOUS
<1>. HIDE DEF P, Q, R, T
<1>3. /\ u \in [pc : P, frequency : Q, temp : Nat, rate : R, saved_a : T]
      /\ u.pc = "selectA2" /\ u.frequency = t.frequency
      /\ u.temp = t.temp /\ u.rate = t.rate
  BY ONLY <1>1, <1>2, t \in Tasks, u = [t EXCEPT !.pc = "selectA2", !.saved_a = byte]
<1>4. QED  BY ONLY <1>1, <1>3

LEMMA AtType ==
    \A pc \in {"i8259_init", "init_rtc", "init_keyboard", "sti", "init_PIT", "user"} :
        At(pc) \in Tasks
BY DEF At, Tasks, MIN_RATE

-----------------------------------------------------------------------------
(***************************************************************************)
(* Types.  The rate is lowered only while it is above 6, because the scale *)
(* it is computed with has come to MAX_RATE by then.                       *)
(***************************************************************************)
\* The scale and the rate of rtc_set_frequency, step by step.
Pair(temp, rate) ==
    \/ temp = 4 /\ rate = 15
    \/ temp = 8 /\ rate = 14
    \/ temp = 16 /\ rate = 13
    \/ temp = 32 /\ rate = 12
    \/ temp = 64 /\ rate = 11
    \/ temp = 128 /\ rate = 10
    \/ temp = 256 /\ rate = 9
    \/ temp = 512 /\ rate = 8
    \/ temp = 1024 /\ rate = 7

\* A turn of the loop goes from one line of the table to the next.
LEMMA NextPair ==
    ASSUME NEW temp \in Nat, NEW rate \in Nat, Pair(temp, rate), temp < MAX_RATE
    PROVE  temp * 2 \in Nat /\ rate - 1 \in 0 .. 15 /\ Pair(temp * 2, rate - 1)
<1>1. CASE temp = 4 /\ rate = 15
  BY <1>1 DEF Pair
<1>2. CASE temp = 8 /\ rate = 14
  BY <1>2 DEF Pair
<1>3. CASE temp = 16 /\ rate = 13
  BY <1>3 DEF Pair
<1>4. CASE temp = 32 /\ rate = 12
  BY <1>4 DEF Pair
<1>5. CASE temp = 64 /\ rate = 11
  BY <1>5 DEF Pair
<1>6. CASE temp = 128 /\ rate = 10
  BY <1>6 DEF Pair
<1>7. CASE temp = 256 /\ rate = 9
  BY <1>7 DEF Pair
<1>8. CASE temp = 512 /\ rate = 8
  BY <1>8 DEF Pair
<1>9. QED
  BY <1>1, <1>2, <1>3, <1>4, <1>5, <1>6, <1>7, <1>8 DEF Pair, MAX_RATE

InRateCall == task.pc \in {"scale", "cli", "selectA", "readA", "selectA2", "writeA"}

\* The scale is the smallest one that reaches the frequency, once it is found.
RightScale ==
    InRateCall =>
        /\ Pair(task.temp, task.rate)
        /\ task.frequency \in Accepted
        /\ task.temp = 4 \/ task.temp < 2 * task.frequency
        /\ task.pc # "scale" => task.frequency <= task.temp

\* The types by the parts of the machine that a step changes or leaves alone.
PicTypes ==
    /\ master_mask \in SUBSET Lines /\ slave_mask \in SUBSET Lines
    /\ master \in Chips /\ slave \in Chips
ClockTypes ==
    index \in {"A", "B", "C"} /\ regA \in 0 .. 127 /\ regB \in 0 .. 255 /\ regC \in BOOLEAN
LineTypes == irr \in SUBSET Irqs /\ pit_on \in BOOLEAN /\ key_waiting \in BOOLEAN
CpuTypes == iflag \in BOOLEAN /\ stack \in Seq(Frames)
CallTypes == task \in Tasks /\ RightScale
CountTypes ==
    interrupt_flag \in {0, 1} /\ pit_count \in 0 .. NUMBER_OF_TERMINALS + 1 /\ served \in 0 .. 2

Parts == PicTypes /\ ClockTypes /\ LineTypes /\ CpuTypes /\ CallTypes /\ CountTypes

LEMMA TypesByParts == (TypeOK /\ RightScale => Parts) /\ (Parts' => TypeOK' /\ RightScale')
<1>1. TypeOK /\ RightScale => Parts
  BY DEF TypeOK, Parts, PicTypes, ClockTypes, LineTypes, CpuTypes, CallTypes, CountTypes
<1>2. Parts' => TypeOK' /\ RightScale'
  BY DEF TypeOK, Parts, PicTypes, ClockTypes, LineTypes, CpuTypes, CallTypes, CountTypes
<1>3. QED  BY <1>1, <1>2

LEMMA PicKept == PicTypes /\ UNCHANGED pic => PicTypes'
BY DEF PicTypes, pic
LEMMA ClockKept == ClockTypes /\ UNCHANGED clock => ClockTypes'
BY DEF ClockTypes, clock
LEMMA LinesKept == LineTypes /\ UNCHANGED lines => LineTypes'
BY DEF LineTypes, lines
LEMMA CpuKept == CpuTypes /\ UNCHANGED cpu => CpuTypes'
BY DEF CpuTypes, cpu
LEMMA CallKept == CallTypes /\ UNCHANGED task => CallTypes'
BY DEF CallTypes, RightScale, InRateCall

\* Outside of rtc_set_frequency the scale does not matter.
LEMMA CallElsewhere ==
    task' \in Tasks
    /\ task'.pc \notin {"scale", "cli", "selectA", "readA", "selectA2", "writeA"}
        => CallTypes'
BY DEF CallTypes, RightScale, InRateCall

LEMMA TypeInit == Init => TypeOK /\ RightScale
<1>. SUFFICES ASSUME Init PROVE TypeOK /\ RightScale  OBVIOUS
<1>1. PicTypes
  BY DEF Init, PicTypes, Lines, Chips
<1>2. ClockTypes
  <2>1. BiosA \in 0 .. 127 /\ BiosB \in 0 .. 255  BY DEF DevicesAssumption
  <2>2. QED  BY <2>1 DEF Init, ClockTypes
<1>3. LineTypes /\ CpuTypes
  <2>1. <<>> \in Seq(Frames)  OBVIOUS
  <2>2. QED  BY <2>1 DEF Init, LineTypes, CpuTypes
<1>4. CallTypes
  <2>1. At("i8259_init") \in Tasks  BY AtType
  <2>2. task = At("i8259_init") /\ task.pc = "i8259_init"  BY DEF Init, At
  <2>3. QED  BY <2>1, <2>2 DEF CallTypes, RightScale, InRateCall
<1>5. CountTypes
  BY DEF Init, CountTypes, NUMBER_OF_TERMINALS
<1>6. Parts  BY <1>1, <1>2, <1>3, <1>4, <1>5 DEF Parts
<1>7. QED
  BY <1>6 DEF TypeOK, Parts, PicTypes, ClockTypes, LineTypes, CpuTypes, CallTypes, CountTypes

\* A step of a call that only moves on in the code.
LEMMA Moved ==
    ASSUME task \in Tasks,
           NEW pc \in {"init_rtc", "init_keyboard", "sti", "init_PIT", "user", "cli",
                       "selectA", "readA", "writeA", "read_sti", "spin"},
           Goto(pc)
    PROVE  /\ task' \in Tasks /\ task'.pc = pc
           /\ task'.frequency = task.frequency /\ task'.temp = task.temp
           /\ task'.rate = task.rate
BY DEF Goto, Tasks

LEMMA MovedElsewhere ==
    ASSUME task \in Tasks,
           NEW pc \in {"init_rtc", "init_keyboard", "sti", "init_PIT", "user", "read_sti",
                       "spin"},
           Goto(pc)
    PROVE  CallTypes'
<1>1. task' \in Tasks /\ task'.pc = pc  BY Moved
<1>2. pc \notin {"scale", "cli", "selectA", "readA", "selectA2", "writeA"}  OBVIOUS
<1>3. QED  BY <1>1, <1>2, CallElsewhere

\* A step inside of rtc_set_frequency, once the scale is found.
LEMMA MovedInCall ==
    ASSUME CallTypes, task.pc \in {"cli", "selectA", "readA", "selectA2"},
           task' \in Tasks,
           task'.pc \in {"selectA", "readA", "selectA2", "writeA"},
           task'.frequency = task.frequency, task'.temp = task.temp,
           task'.rate = task.rate
    PROVE  CallTypes'
<1>1. /\ Pair(task.temp, task.rate) /\ task.frequency \in Accepted
      /\ task.temp = 4 \/ task.temp < 2 * task.frequency
      /\ task.frequency <= task.temp
  BY DEF CallTypes, RightScale, InRateCall
<1>2. /\ Pair(task'.temp, task'.rate) /\ task'.frequency \in Accepted
      /\ task'.temp = 4 \/ task'.temp < 2 * task'.frequency
      /\ task'.frequency <= task'.temp
  BY <1>1
<1>3. QED
  BY <1>2 DEF CallTypes, RightScale, InRateCall

\* send_eoi, enable_irq and what the CPU pushes keep the types.
LEMMA EoiTypes ==
    ASSUME PicTypes, NEW irq \in Irqs, Acknowledged(irq), UNCHANGED <<master_mask, slave_mask>>
    PROVE  PicTypes'
<1>1. master \in Chips /\ slave \in Chips  BY DEF PicTypes
<1>2. \A chip \in Chips, line \in Int : [chip EXCEPT !.isr = @ \ {line}] \in Chips
  BY DEF Chips
<1>3. irq \in Int /\ irq - 8 \in Int  BY DEF Irqs, PIT, KEYBOARD, RTC
<1>4. master' \in Chips /\ slave' \in Chips
  <2>1. CASE irq >= 8
    <3>1. /\ slave' = [slave EXCEPT !.isr = @ \ {irq - 8}]
          /\ master' = [master EXCEPT !.isr = @ \ {CASCADE}]
      BY <2>1 DEF Acknowledged
    <3>2. CASCADE \in Int  BY DEF CASCADE
    <3>3. QED  BY <1>1, <1>2, <1>3, <3>1, <3>2
  <2>2. CASE ~(irq >= 8)
    <3>1. master' = [master EXCEPT !.isr = @ \ {irq}] /\ slave' = slave
      BY <2>2 DEF Acknowledged
    <3>2. QED  BY <1>1, <1>2, <1>3, <3>1
  <2>3. QED  BY <2>1, <2>2
<1>5. QED
  BY <1>4 DEF PicTypes

LEMMA UnmaskTypes ==
    ASSUME PicTypes, NEW irq \in Irqs, Unmasked(irq)
    PROVE  PicTypes'
<1>1. \A chip \in Chips, mask \in SUBSET Lines : [chip EXCEPT !.imr = mask] \in Chips
  BY DEF Chips
<1>2. CASE irq >= 8
  <2>1. /\ slave_mask' = slave_mask \ {irq - 8}
        /\ slave' = [slave EXCEPT !.imr = slave_mask']
        /\ UNCHANGED <<master_mask, master>>
    BY <1>2 DEF Unmasked
  <2>2. slave_mask' \in SUBSET Lines  BY <2>1 DEF PicTypes
  <2>3. slave' \in Chips  BY <1>1, <2>1, <2>2 DEF PicTypes
  <2>4. QED  BY <2>1, <2>2, <2>3 DEF PicTypes
<1>3. CASE ~(irq >= 8)
  <2>1. /\ master_mask' = master_mask \ {irq}
        /\ master' = [master EXCEPT !.imr = master_mask']
        /\ UNCHANGED <<slave_mask, slave>>
    BY <1>3 DEF Unmasked
  <2>2. master_mask' \in SUBSET Lines  BY <2>1 DEF PicTypes
  <2>3. master' \in Chips  BY <1>1, <2>1, <2>2 DEF PicTypes
  <2>4. QED  BY <2>1, <2>2, <2>3 DEF PicTypes
<1>4. QED  BY <1>2, <1>3

LEMMA PoppedType ==
    ASSUME stack \in Seq(Frames), stack # <<>>
    PROVE  Popped \in Seq(Frames)
BY DEF Popped

LEMMA DeviceLines == PIT \in Irqs /\ KEYBOARD \in Irqs /\ RTC \in Irqs
BY DEF Irqs

LEMMA TypeStep == TypeOK /\ RightScale /\ [Next]_vars => TypeOK' /\ RightScale'
<1>. SUFFICES ASSUME Parts, [Next]_vars PROVE Parts'
  BY TypesByParts
<1>0. /\ PicTypes /\ ClockTypes /\ LineTypes /\ CpuTypes /\ CallTypes /\ CountTypes
      /\ task \in Tasks
  BY DEF Parts, CallTypes
<1>1. CASE ClockEvent
  <2>1. ClockTypes'  BY <1>0, <1>1 DEF ClockEvent, ClockTypes
  <2>2. LineTypes'  BY <1>0, <1>1, DeviceLines DEF ClockEvent, LineTypes
  <2>3. CountTypes'  BY <1>0, <1>1 DEF ClockEvent, CountTypes
  <2>4. UNCHANGED <<pic, cpu, task>>  BY <1>1 DEF ClockEvent
  <2>5. QED
    BY <1>0, <2>1, <2>2, <2>3, <2>4, PicKept, CpuKept, CallKept DEF Parts
<1>2. CASE TimerTick
  <2>1. LineTypes'  BY <1>0, <1>2, DeviceLines DEF TimerTick, LineTypes
  <2>2. CountTypes'  BY <1>0, <1>2 DEF TimerTick, CountTypes
  <2>3. UNCHANGED <<pic, clock, cpu, task>>  BY <1>2 DEF TimerTick
  <2>4. QED
    BY <1>0, <2>1, <2>2, <2>3, PicKept, ClockKept, CpuKept, CallKept DEF Parts
<1>3. CASE Key
  <2>1. LineTypes'  BY <1>0, <1>3, DeviceLines DEF Key, LineTypes
  <2>2. CountTypes'  BY <1>0, <1>3 DEF Key, CountTypes
  <2>3. UNCHANGED <<pic, clock, cpu, task>>  BY <1>3 DEF Key
  <2>4. QED
    BY <1>0, <2>1, <2>2, <2>3, PicKept, ClockKept, CpuKept, CallKept DEF Parts
<1>4. ASSUME NEW irq \in Irqs, Deliver(irq) PROVE Parts'
  <2>1. PicTypes'
    <3>1. /\ MasterLine(irq) \in Lines
          /\ irq >= 8 => irq - 8 \in Lines
      BY DEF Lines, MasterLine, Irqs, PIT, KEYBOARD, RTC, CASCADE
    <3>2. \A chip \in Chips, l \in Lines : [chip EXCEPT !.isr = @ \cup {l}] \in Chips
      BY DEF Chips
    <3>3. master' \in Chips
      BY <1>0, <1>4, <3>1, <3>2 DEF Deliver, PicTypes
    <3>4. slave' \in Chips
      <4>1. CASE irq >= 8
        <5>1. slave' = [slave EXCEPT !.isr = @ \cup {irq - 8}]  BY <1>4, <4>1 DEF Deliver
        <5>2. QED  BY <1>0, <3>1, <3>2, <4>1, <5>1 DEF PicTypes
      <4>2. CASE ~(irq >= 8)
        BY <1>0, <1>4, <4>2 DEF Deliver, PicTypes
      <4>3. QED  BY <4>1, <4>2
    <3>5. QED
      BY <1>0, <1>4, <3>3, <3>4 DEF Deliver, PicTypes
  <2>2. CpuTypes'
    <3>1. [irq |-> irq, at |-> "entry"] \in Frames  BY DEF Frames
    <3>2. stack' = Append(stack, [irq |-> irq, at |-> "entry"]) /\ iflag' = FALSE
      BY <1>4 DEF Deliver
    <3>3. stack \in Seq(Frames)  BY <1>0 DEF CpuTypes
    <3>4. stack' \in Seq(Frames)  BY ONLY <3>1, <3>2, <3>3
    <3>5. QED  BY <3>2, <3>4 DEF CpuTypes
  <2>3. LineTypes'  BY <1>0, <1>4 DEF Deliver, LineTypes
  <2>4. CountTypes'  BY <1>0, <1>4 DEF Deliver, CountTypes
  <2>5. UNCHANGED <<clock, task>>  BY <1>4 DEF Deliver
  <2>6. QED
    BY <1>0, <2>1, <2>2, <2>3, <2>4, <2>5, ClockKept, CallKept DEF Parts
<1>5. CASE HandleRtc
  <2>1. PicTypes'
    BY <1>0, <1>5, EoiTypes, DeviceLines DEF HandleRtc
  <2>2. CpuTypes'
    <3>1. stack \in Seq(Frames) /\ stack # <<>>
      BY <1>0, <1>5 DEF HandleRtc, Entered, CpuTypes
    <3>2. Len(stack) \in 1 .. Len(stack) /\ Top \in Frames
      BY <3>1 DEF Top
    <3>3. [Top EXCEPT !.at = "exit"] \in Frames
      BY <3>2 DEF Frames
    <3>4. stack' = [stack EXCEPT ![Len(stack)] = [Top EXCEPT !.at = "exit"]] /\ iflag' = TRUE
      BY <1>5, <3>2 DEF HandleRtc, Top
    <3>5. stack' \in Seq(Frames)
      BY ONLY <3>1, <3>2, <3>3, <3>4
    <3>6. QED
      BY <3>4, <3>5 DEF CpuTypes
  <2>3. ClockTypes'
    BY <1>0, <1>5 DEF HandleRtc, ReadC, ClockTypes
  <2>4. CountTypes'
    BY <1>0, <1>5 DEF HandleRtc, CountTypes
  <2>5. UNCHANGED <<lines, task>>  BY <1>5 DEF HandleRtc
  <2>6. QED
    BY <1>0, <2>1, <2>2, <2>3, <2>4, <2>5, LinesKept, CallKept DEF Parts
<1>6. CASE HandleKeyboard
  <2>1. PicTypes'
    BY <1>0, <1>6, EoiTypes, DeviceLines DEF HandleKeyboard
  <2>2. CpuTypes'
    BY <1>0, <1>6, PoppedType DEF HandleKeyboard, Entered, CpuTypes
  <2>3. LineTypes'  BY <1>0, <1>6 DEF HandleKeyboard, LineTypes
  <2>4. CountTypes'  BY <1>0, <1>6 DEF HandleKeyboard, CountTypes
  <2>5. UNCHANGED <<clock, task>>  BY <1>6 DEF HandleKeyboard
  <2>6. QED
    BY <1>0, <2>1, <2>2, <2>3, <2>4, <2>5, ClockKept, CallKept DEF Parts
<1>7. CASE StartShell
  <2>1. PicTypes'
    BY <1>0, <1>7, EoiTypes, DeviceLines DEF StartShell
  <2>2. CpuTypes'
    <3>1. <<>> \in Seq(Frames)  OBVIOUS
    <3>2. QED  BY <1>7, <3>1 DEF StartShell, CpuTypes
  <2>3. CallTypes'
    <3>1. task' = At("user")  BY <1>7 DEF StartShell
    <3>2. At("user") \in Tasks  BY AtType
    <3>3. At("user").pc = "user"  BY DEF At
    <3>4. QED  BY <3>1, <3>2, <3>3, CallElsewhere
  <2>4. CountTypes'
    BY <1>0, <1>7 DEF StartShell, CountTypes, NUMBER_OF_TERMINALS
  <2>5. UNCHANGED <<clock, lines>>  BY <1>7 DEF StartShell
  <2>6. QED
    BY <1>0, <2>1, <2>2, <2>3, <2>4, <2>5, ClockKept, LinesKept DEF Parts
<1>8. CASE HandlePit
  <2>1. PicTypes'
    BY <1>0, <1>8, EoiTypes, DeviceLines DEF HandlePit
  <2>2. CpuTypes'
    BY <1>0, <1>8, PoppedType DEF HandlePit, Entered, CpuTypes
  <2>3. CountTypes'
    BY <1>0, <1>8 DEF HandlePit, CountTypes, NUMBER_OF_TERMINALS
  <2>4. UNCHANGED <<clock, lines, task>>  BY <1>8 DEF HandlePit
  <2>5. QED
    BY <1>0, <2>1, <2>2, <2>3, <2>4, ClockKept, LinesKept, CallKept DEF Parts
<1>9. CASE Iret
  <2>1. CpuTypes'
    BY <1>0, <1>9, PoppedType DEF Iret, CpuTypes
  <2>2. CountTypes'  BY <1>0, <1>9 DEF Iret, CountTypes
  <2>3. UNCHANGED <<pic, clock, lines, task>>  BY <1>9 DEF Iret
  <2>4. QED
    BY <1>0, <2>1, <2>2, <2>3, PicKept, ClockKept, LinesKept, CallKept DEF Parts
<1>10. CASE Boot
  <2>1. CASE i8259_init
    <3>1. PicTypes'
      <4>1. /\ [base |-> 32, imr |-> master_mask, isr |-> {}] \in Chips
            /\ [base |-> 40, imr |-> slave_mask, isr |-> {}] \in Chips
        BY <1>0 DEF PicTypes, Chips
      <4>2. QED  BY <1>0, <2>1, <4>1 DEF i8259_init, PicTypes
    <3>2. CallTypes'  BY <1>0, <2>1, MovedElsewhere DEF i8259_init
    <3>3. LineTypes'  BY <1>0, <2>1 DEF i8259_init, LineTypes
    <3>4. CountTypes'  BY <1>0, <2>1 DEF i8259_init, CountTypes
    <3>5. UNCHANGED <<clock, cpu>>  BY <2>1 DEF i8259_init
    <3>6. QED
      BY <1>0, <3>1, <3>2, <3>3, <3>4, <3>5, ClockKept, CpuKept DEF Parts
  <2>2. CASE init_rtc
    <3>1. ClockTypes'
      <4>1. regA \in 0 .. 127  BY <1>0 DEF ClockTypes
      <4>2. PICK prev \in {regA, regA + 128} : regB' = SetBit(prev, 64)
        BY <2>2, <4>1, UpdateBit DEF init_rtc
      <4>3. prev \in 0 .. 255  BY ONLY <4>1, prev \in {regA, regA + 128}
      <4>4. regB' \in 0 .. 255  BY <4>2, <4>3, SetBit64
      <4>5. QED  BY <1>0, <2>2, <4>4 DEF init_rtc, ClockTypes
    <3>2. PicTypes'
      BY <1>0, <2>2, UnmaskTypes, DeviceLines DEF init_rtc
    <3>3. CallTypes'  BY <1>0, <2>2, MovedElsewhere DEF init_rtc
    <3>4. CountTypes'  BY <1>0, <2>2 DEF init_rtc, CountTypes
    <3>5. UNCHANGED <<lines, cpu>>  BY <2>2 DEF init_rtc
    <3>6. QED
      BY <1>0, <3>1, <3>2, <3>3, <3>4, <3>5, LinesKept, CpuKept DEF Parts
  <2>3. CASE init_keyboard
    <3>1. PicTypes'
      BY <1>0, <2>3, UnmaskTypes, DeviceLines DEF init_keyboard
    <3>2. CallTypes'  BY <1>0, <2>3, MovedElsewhere DEF init_keyboard
    <3>3. CountTypes'  BY <1>0, <2>3 DEF init_keyboard, CountTypes
    <3>4. UNCHANGED <<clock, lines, cpu>>  BY <2>3 DEF init_keyboard
    <3>5. QED
      BY <1>0, <3>1, <3>2, <3>3, <3>4, ClockKept, LinesKept, CpuKept DEF Parts
  <2>4. CASE EnableInterrupts
    <3>1. CallTypes'  BY <1>0, <2>4, MovedElsewhere DEF EnableInterrupts
    <3>2. CpuTypes'  BY <1>0, <2>4 DEF EnableInterrupts, CpuTypes
    <3>3. CountTypes'  BY <1>0, <2>4 DEF EnableInterrupts, CountTypes
    <3>4. UNCHANGED <<pic, clock, lines>>  BY <2>4 DEF EnableInterrupts
    <3>5. QED
      BY <1>0, <3>1, <3>2, <3>3, <3>4, PicKept, ClockKept, LinesKept DEF Parts
  <2>5. CASE init_PIT
    <3>1. PicTypes'
      BY <1>0, <2>5, UnmaskTypes, DeviceLines DEF init_PIT
    <3>2. CallTypes'
      <4>1. task' = At("user")  BY <2>5 DEF init_PIT
      <4>2. At("user") \in Tasks  BY AtType
      <4>3. At("user").pc = "user"  BY DEF At
      <4>4. QED  BY <4>1, <4>2, <4>3, CallElsewhere
    <3>3. LineTypes'  BY <1>0, <2>5 DEF init_PIT, LineTypes
    <3>4. CountTypes'  BY <1>0, <2>5 DEF init_PIT, CountTypes
    <3>5. UNCHANGED <<clock, cpu>>  BY <2>5 DEF init_PIT
    <3>6. QED
      BY <1>0, <3>1, <3>2, <3>3, <3>4, <3>5, ClockKept, CpuKept DEF Parts
  <2>6. QED
    BY <1>10, <2>1, <2>2, <2>3, <2>4, <2>5 DEF Boot
<1>11. ASSUME NEW frequency \in Frequencies \cup {MIN_RATE}, frequency \in Accepted,
              SetFrequency(frequency)
       PROVE  Parts'
  <2>1. task' = [pc |-> "scale", frequency |-> frequency, temp |-> 4, rate |-> 15,
                 saved_a |-> 0]
    BY <1>11 DEF SetFrequency, At
  <2>2. CallTypes'
    <3>1. task' \in Tasks
      BY <2>1 DEF Tasks
    <3>2. /\ task'.pc = "scale" /\ task'.frequency = frequency /\ task'.temp = 4
          /\ task'.rate = 15
      BY <2>1
    <3>3. Pair(4, 15)  BY DEF Pair
    <3>4. RightScale'
      BY <1>11, <3>2, <3>3 DEF RightScale
    <3>5. QED
      BY <3>1, <3>4 DEF CallTypes
  <2>3. CpuTypes'  BY <1>0, <1>11 DEF SetFrequency, UnchangedBelow, CpuTypes
  <2>4. CountTypes'  BY <1>0, <1>11 DEF SetFrequency, UnchangedBelow, CountTypes
  <2>5. UNCHANGED <<pic, clock, lines>>  BY <1>11 DEF SetFrequency, UnchangedBelow
  <2>6. QED
    BY <1>0, <2>2, <2>3, <2>4, <2>5, PicKept, ClockKept, LinesKept DEF Parts
<1>12. CASE rtc_open \/ rtc_close
  BY <1>11, <1>12 DEF rtc_open, rtc_close, MIN_RATE, Accepted
<1>13. CASE Write
  BY <1>11, <1>13 DEF Write
<1>14. CASE ReadCall
  <2>1. CallTypes'  BY <1>0, <1>14, MovedElsewhere DEF ReadCall
  <2>2. CpuTypes'  BY <1>0, <1>14 DEF ReadCall, UnchangedBelow, CpuTypes
  <2>3. CountTypes'  BY <1>0, <1>14 DEF ReadCall, RaiseFlag, UnchangedBelow, CountTypes
  <2>4. UNCHANGED <<pic, clock, lines>>  BY <1>14 DEF ReadCall, UnchangedBelow
  <2>5. QED
    BY <1>0, <2>1, <2>2, <2>3, <2>4, PicKept, ClockKept, LinesKept DEF Parts
<1>15. CASE SystemCall
  <2>0. ASSUME UnchangedBelow, UNCHANGED <<interrupt_flag, served>>, iflag' \in BOOLEAN,
               ClockTypes', CallTypes'
        PROVE  Parts'
    <3>1. CpuTypes'  BY <1>0, <2>0 DEF UnchangedBelow, CpuTypes
    <3>2. CountTypes'  BY <1>0, <2>0 DEF UnchangedBelow, CountTypes
    <3>3. UNCHANGED <<pic, lines>>  BY <2>0 DEF UnchangedBelow
    <3>4. QED
      BY <1>0, <2>0, <3>1, <3>2, <3>3, PicKept, LinesKept DEF Parts
  <2>1. CASE ScaleStep
    <3>0. /\ UnchangedBelow /\ UNCHANGED <<interrupt_flag, served>> /\ UNCHANGED clock
          /\ iflag' = iflag /\ task.pc = "scale"
      BY <2>1 DEF ScaleStep, Below
    <3>1. iflag' \in BOOLEAN /\ ClockTypes'
      BY <1>0, <3>0, ClockKept DEF CpuTypes
    <3>2. task.frequency \in Int /\ task.temp \in Nat /\ task.rate \in 0 .. 15
      BY <1>0, TaskFields
    <3>3. /\ Pair(task.temp, task.rate) /\ task.frequency \in Accepted
          /\ task.temp = 4 \/ task.temp < 2 * task.frequency
      BY <1>0, <3>0 DEF CallTypes, RightScale, InRateCall
    <3>4. CASE Scaling
      <4>1. /\ task.temp < MAX_RATE /\ task.frequency > task.temp
            /\ task' = [task EXCEPT !.temp = @ * 2, !.rate = @ - 1]
        BY <2>1, <3>4 DEF ScaleStep, Scaling, Scale, MIN_RATE
      <4>2. task.temp * 2 \in Nat /\ task.rate - 1 \in 0 .. 15
            /\ Pair(task.temp * 2, task.rate - 1)
        <5>1. task.temp \in Nat /\ task.rate \in Nat
          BY <3>2
        <5>2. Pair(task.temp, task.rate) /\ task.temp < MAX_RATE
          BY <3>3, <4>1
        <5>3. QED
          BY ONLY <5>1, <5>2, NextPair
      <4>3. task' \in Tasks
        BY <1>0, <4>1, <4>2, ScaledTask
      <4>4. /\ task'.pc = "scale" /\ task'.frequency = task.frequency
            /\ task'.temp = task.temp * 2 /\ task'.rate = task.rate - 1
        BY <1>0, <3>0, <4>1 DEF Tasks
      <4>5. task.temp * 2 < 2 * task.frequency
        BY ONLY <3>2, <4>1
      <4>6. RightScale'
        BY <3>3, <4>2, <4>4, <4>5 DEF RightScale
      <4>7. QED
        BY <2>0, <3>0, <3>1, <4>3, <4>6 DEF CallTypes
    <3>5. CASE ~Scaling
      <4>1. Goto("cli")
        BY <2>1, <3>5 DEF ScaleStep
      <4>2. task' \in Tasks /\ task'.pc = "cli"
            /\ task'.frequency = task.frequency /\ task'.temp = task.temp
            /\ task'.rate = task.rate
        BY <1>0, <4>1, Moved
      <4>3. task.frequency <= task.temp
        <5>1. task.frequency <= MAX_RATE
          BY <3>3, Requested DEF Accepted, MAX_RATE
        <5>2. QED
          BY <3>2, <3>5, <5>1 DEF Scaling, MAX_RATE
      <4>4. RightScale'
        BY <3>3, <4>2, <4>3 DEF RightScale
      <4>5. QED
        BY <2>0, <3>0, <3>1, <4>2, <4>4 DEF CallTypes
    <3>6. QED  BY <3>4, <3>5
  <2>2. CASE DisableInterrupts
    <3>1. task.pc = "cli" /\ Goto("selectA") /\ UNCHANGED clock /\ iflag' = FALSE
      BY <2>2 DEF DisableInterrupts, Cli, Below
    <3>2. /\ task' \in Tasks /\ task'.pc = "selectA" /\ task'.frequency = task.frequency
          /\ task'.temp = task.temp /\ task'.rate = task.rate
      BY <1>0, <3>1, Moved
    <3>3. CallTypes'
      BY <1>0, <3>1, <3>2, MovedInCall
    <3>4. QED
      BY <1>0, <2>0, <2>2, <3>1, <3>3, ClockKept DEF DisableInterrupts
  <2>3. CASE SelectA
    <3>1. PICK pc \in {"readA", "writeA"} : Goto(pc) /\ task.pc \in {"selectA", "selectA2"}
      BY <2>3 DEF SelectA, Below
    <3>2. /\ task' \in Tasks /\ task'.pc = pc /\ task'.frequency = task.frequency
          /\ task'.temp = task.temp /\ task'.rate = task.rate
      BY <1>0, <3>1, Moved
    <3>3. CallTypes'
      BY <1>0, <3>1, <3>2, MovedInCall
    <3>4. ClockTypes' /\ iflag' \in BOOLEAN
      BY <1>0, <2>3 DEF SelectA, ClockTypes, CpuTypes
    <3>5. QED
      BY <2>0, <2>3, <3>3, <3>4 DEF SelectA
  <2>4. CASE ReadA
    <3>0. regA \in 0 .. 127  BY <1>0 DEF ClockTypes
    <3>1. PICK byte \in {0, regA, regA + 128} :
              task' = [task EXCEPT !.pc = "selectA2", !.saved_a = byte]
      <4>1. Read(regA) = {regA, regA + 128}  BY <3>0, UpdateBit
      <4>2. QED  BY <2>4, <4>1 DEF ReadA
    <3>2. byte \in 0 .. 255  BY ONLY <3>0, byte \in {0, regA, regA + 128}
    <3>3. /\ task' \in Tasks /\ task'.pc = "selectA2" /\ task'.frequency = task.frequency
          /\ task'.temp = task.temp /\ task'.rate = task.rate
      <4>1. task \in Tasks  BY <1>0
      <4>2. \A t \in Tasks, b \in 0 .. 255 :
                LET u == [t EXCEPT !.pc = "selectA2", !.saved_a = b]
                IN  /\ u \in Tasks /\ u.pc = "selectA2" /\ u.frequency = t.frequency
                    /\ u.temp = t.temp /\ u.rate = t.rate
        BY SavedTask
      <4>. DEFINE u == [task EXCEPT !.pc = "selectA2", !.saved_a = byte]
      <4>3. /\ u \in Tasks /\ u.pc = "selectA2" /\ u.frequency = task.frequency
            /\ u.temp = task.temp /\ u.rate = task.rate
        BY ONLY <3>2, <4>1, <4>2
      <4>. HIDE DEF u
      <4>4. task' = u  BY <3>1 DEF u
      <4>5. QED  BY ONLY <4>3, <4>4
    <3>4. task.pc = "readA"  BY <2>4 DEF ReadA, Below
    <3>5. CallTypes'
      BY <1>0, <3>3, <3>4, MovedInCall
    <3>6. ClockTypes' /\ iflag' \in BOOLEAN
      BY <1>0, <2>4 DEF ReadA, ClockTypes, CpuTypes
    <3>7. QED
      BY <2>0, <2>4, <3>5, <3>6 DEF ReadA
  <2>5. CASE WriteA
    <3>1. regA' \in 0 .. 127
      <4>1. task.saved_a \in 0 .. 255 /\ task.rate \in 0 .. 15  BY <1>0, TaskFields
      <4>2. QED  BY <1>0, <2>5, <4>1, ByteWritten DEF WriteA, ClockTypes
    <3>2. ClockTypes' /\ iflag' \in BOOLEAN
      BY <1>0, <2>5, <3>1 DEF WriteA, ClockTypes
    <3>3. CallTypes'  BY <1>0, <2>5, MovedElsewhere DEF WriteA
    <3>4. QED
      BY <2>0, <2>5, <3>2, <3>3 DEF WriteA
  <2>6. CASE ReadSti
    <3>1. CallTypes'  BY <1>0, <2>6, MovedElsewhere DEF ReadSti
    <3>2. iflag' \in BOOLEAN /\ UNCHANGED clock  BY <2>6 DEF ReadSti
    <3>3. QED
      BY <1>0, <2>0, <2>6, <3>1, <3>2, ClockKept DEF ReadSti
  <2>7. CASE ReadReturn
    <3>1. CallTypes'  BY <1>0, <2>7, MovedElsewhere DEF ReadReturn
    <3>2. iflag' \in BOOLEAN /\ UNCHANGED clock  BY <1>0, <2>7 DEF ReadReturn, CpuTypes
    <3>3. QED
      BY <1>0, <2>0, <2>7, <3>1, <3>2, ClockKept DEF ReadReturn
  <2>8. QED
    BY <1>15, <2>1, <2>2, <2>3, <2>4, <2>5, <2>6, <2>7 DEF SystemCall
<1>16. CASE UNCHANGED vars
  <2>1. UNCHANGED <<pic, clock, lines, cpu, task>>  BY <1>16 DEF vars
  <2>2. CountTypes'  BY <1>0, <1>16 DEF vars, CountTypes
  <2>3. QED
    BY <1>0, <2>1, <2>2, PicKept, ClockKept, LinesKept, CpuKept, CallKept DEF Parts
<1>17. QED
  BY <1>1, <1>2, <1>3, <1>4, <1>5, <1>6, <1>7, <1>8, <1>9, <1>10, <1>12, <1>13, <1>14,
     <1>15, <1>16
  DEF Next, Handler

LEMMA Typed == Spec => [](TypeOK /\ RightScale)
BY TypeInit, TypeStep, PTL DEF Spec

\* The devices' and the kernel's state keep their types: the rate fits into its
\* four bits whatever frequency rtc_write is given.
THEOREM TypeCorrect == Spec => []TypeOK
BY Typed, PTL

-----------------------------------------------------------------------------
(***************************************************************************)
(* Interrupts: InService is not inductive.  A handler's EOI clears the     *)
(* bits of the handler only if no other handler is before its EOI, hence   *)
(* only the last one entered is, and that one with interrupts off.         *)
(***************************************************************************)
Serving == stack # <<>> /\ Top.at = "entry"

Interrupts ==
    /\ \A i \in 1 .. Len(stack) : stack[i].at = "entry" => i = Len(stack)
    /\ Serving => /\ ~iflag
                  /\ master.isr = {MasterLine(Top.irq)}
                  /\ slave.isr = IF Top.irq = RTC THEN {0} ELSE {}
    /\ ~Serving => master.isr = {} /\ slave.isr = {}

\* Before the sti nothing interrupts the boot code.
Early == task.pc \in {"i8259_init", "init_rtc", "init_keyboard", "sti"}

BootOrder ==
    /\ Early => ~iflag /\ stack = <<>>
    /\ CASCADE \notin master_mask
    /\ task.pc # "i8259_init" =>
        /\ master.base = 32 /\ master.imr = master_mask
        /\ slave.base = 40 /\ slave.imr = slave_mask
    /\ task.pc \notin {"i8259_init", "init_rtc"} => 0 \notin slave_mask

LEMMA InterruptsServed == TypeOK /\ Interrupts => InService
<1>. SUFFICES ASSUME TypeOK, Interrupts PROVE InService  OBVIOUS
<1>. DEFINE entered ==
    {stack[i].irq : i \in {j \in 1 .. Len(stack) : stack[j].at = "entry"}}
<1>1. Len(stack) \in Nat /\ (stack # <<>> => Len(stack) \in 1 .. Len(stack))
  BY DEF TypeOK
<1>2. CASE Serving
  <2>1. entered = {Top.irq}
    BY <1>1, <1>2 DEF Interrupts, Serving, Top
  <2>2. Top.irq \in Irqs
    <3>1. stack \in Seq(Frames) /\ Len(stack) \in 1 .. Len(stack)
      BY <1>1, <1>2 DEF Serving, TypeOK
    <3>2. Top \in Frames  BY <3>1 DEF Top
    <3>3. QED  BY <3>2 DEF Frames
  <2>3. {MasterLine(irq) : irq \in entered} = {MasterLine(Top.irq)}
    BY <2>1
  <2>4. {irq - 8 : irq \in entered \cap {RTC}} = IF Top.irq = RTC THEN {0} ELSE {}
    <3>1. CASE Top.irq = RTC
      <4>1. entered \cap {RTC} = {8}  BY <2>1, <3>1 DEF RTC
      <4>2. {irq - 8 : irq \in {8}} = {0}  OBVIOUS
      <4>3. QED  BY <3>1, <4>1, <4>2
    <3>2. CASE Top.irq # RTC
      <4>1. entered \cap {RTC} = {}  BY <2>1, <3>2
      <4>2. QED  BY <3>2, <4>1
    <3>3. QED  BY <3>1, <3>2
  <2>5. QED
    BY <1>2, <2>3, <2>4 DEF InService, Interrupts
<1>3. CASE ~Serving
  <2>1. entered = {}
    BY <1>1, <1>3 DEF Interrupts, Serving, Top
  <2>2. QED
    BY <1>3, <2>1 DEF InService, Interrupts
<1>4. QED  BY <1>2, <1>3

LEMMA InterruptsInit == Init => Interrupts /\ BootOrder
BY DEF Init, Interrupts, BootOrder, Serving, Early, At, Lines

\* The handlers that leave by an iret of their own return to one that has sent its EOI.
LEMMA PoppedServes ==
    ASSUME TypeOK, Interrupts, stack # <<>>, stack' = Popped
    PROVE  /\ ~Serving'
           /\ \A i \in 1 .. Len(stack') : stack'[i].at = "entry" => i = Len(stack')
<1>1. /\ Len(stack) \in Nat \ {0} /\ stack' \in Seq(Frames)
      /\ Len(stack') = Len(stack) - 1
      /\ \A i \in 1 .. Len(stack') : stack'[i] = stack[i]
  <2>1. stack \in Seq(Frames) /\ stack # <<>>  BY DEF TypeOK
  <2>2. Len(stack) \in Nat \ {0}  BY <2>1
  <2>3. \A i \in 1 .. Len(stack) - 1 : stack[i] \in Frames  BY <2>1, <2>2
  <2>4. /\ SubSeq(stack, 1, Len(stack) - 1) \in Seq(Frames)
        /\ Len(SubSeq(stack, 1, Len(stack) - 1)) = Len(stack) - 1
        /\ \A i \in 1 .. Len(stack) - 1 : SubSeq(stack, 1, Len(stack) - 1)[i] = stack[i]
    <3>1. 1 \in Int /\ Len(stack) - 1 \in Int  BY <2>2
    <3>. DEFINE n == Len(stack) - 1
    <3>2. /\ SubSeq(stack, 1, n) \in Seq(Frames)
          /\ Len(SubSeq(stack, 1, n)) = IF 1 <= n THEN n - 1 + 1 ELSE 0
          /\ \A i \in 1 .. n - 1 + 1 : SubSeq(stack, 1, n)[i] = stack[1 + i - 1]
      BY <2>3, <3>1, SubSeqProperties
    <3>3. /\ n - 1 + 1 = n /\ (1 <= n \/ n = 0)
          /\ \A i \in 1 .. n : 1 + i - 1 = i
      <4>1. n \in Nat  BY <2>2
      <4>. HIDE DEF n
      <4>2. n - 1 + 1 = n /\ (1 <= n \/ n = 0)  BY <4>1
      <4>3. \A i \in 1 .. n : 1 + i - 1 = i  BY <4>1
      <4>4. QED  BY <4>2, <4>3
    <3>. HIDE DEF n
    <3>4. /\ SubSeq(stack, 1, n) \in Seq(Frames) /\ Len(SubSeq(stack, 1, n)) = n
          /\ \A i \in 1 .. n : SubSeq(stack, 1, n)[i] = stack[i]
      BY <3>2, <3>3
    <3>5. QED  BY <3>4 DEF n
  <2>5. QED  BY <2>2, <2>4 DEF Popped
<1>2. \A i \in 1 .. Len(stack') : stack'[i].at # "entry"
  BY <1>1 DEF Interrupts
<1>3. QED
  BY <1>1, <1>2 DEF Serving, Top

LEMMA InterruptsStep ==
    TypeOK /\ Interrupts /\ BootOrder /\ [Next]_vars => Interrupts' /\ BootOrder'
<1>. SUFFICES ASSUME TypeOK, Interrupts, BootOrder, [Next]_vars
              PROVE  Interrupts' /\ BootOrder'
  OBVIOUS
<1>. DEFINE Same == UNCHANGED <<master, slave, stack>>
            Masks == UNCHANGED <<master_mask, slave_mask, master, slave>>
<1>1. ASSUME Same, iflag' => iflag \/ ~Serving  PROVE Interrupts'
  BY <1>1 DEF Interrupts, Serving, Top
<1>2. ASSUME Masks, UNCHANGED <<iflag, stack, task>>  PROVE Interrupts' /\ BootOrder'
  BY <1>1, <1>2 DEF BootOrder, Early
<1>3. CASE ClockEvent \/ TimerTick \/ Key
  BY <1>2, <1>3 DEF ClockEvent, TimerTick, Key, pic, cpu
<1>4. ASSUME NEW irq \in Irqs, Deliver(irq)  PROVE Interrupts' /\ BootOrder'
  <2>1. ~Serving /\ iflag
    BY <1>4 DEF Deliver, Interrupts
  <2>2. /\ stack' \in Seq(Frames \cup {[irq |-> irq, at |-> "entry"]})
        /\ Len(stack) \in Nat /\ Len(stack') = Len(stack) + 1
        /\ stack'[Len(stack')] = [irq |-> irq, at |-> "entry"]
        /\ \A i \in 1 .. Len(stack) : stack'[i] = stack[i]
    BY <1>4 DEF Deliver, TypeOK
  <2>3. Top' = [irq |-> irq, at |-> "entry"] /\ Serving'
    BY <2>2 DEF Top, Serving
  <2>4. /\ master'.isr = {MasterLine(irq)}
        /\ slave'.isr = IF irq = RTC THEN {0} ELSE {}
    <3>1. /\ master.isr = {} /\ slave.isr = {} /\ master \in Chips /\ slave \in Chips
      BY <2>1 DEF Interrupts, TypeOK
    <3>2. /\ master' = [master EXCEPT !.isr = @ \cup {MasterLine(irq)}]
          /\ slave' = IF irq >= 8 THEN [slave EXCEPT !.isr = @ \cup {irq - 8}] ELSE slave
      BY <1>4 DEF Deliver
    <3>3. /\ irq = RTC => irq >= 8 /\ irq - 8 = 0
          /\ irq # RTC => ~(irq >= 8)
      BY DEF Irqs, PIT, KEYBOARD, RTC
    <3>4. master'.isr = {MasterLine(irq)}
      BY <3>1, <3>2 DEF Chips
    <3>5. QED
      BY <3>1, <3>2, <3>3, <3>4 DEF Chips
  <2>5. \A i \in 1 .. Len(stack) : stack[i].at # "entry"
    BY <2>1 DEF Interrupts, Serving, Top, TypeOK
  <2>6. Interrupts'
    BY <1>4, <2>2, <2>3, <2>4, <2>5 DEF Deliver, Interrupts
  <2>7. BootOrder'
    BY <1>4, <2>1 DEF Deliver, BootOrder, Early, TypeOK, Chips
  <2>8. QED  BY <2>6, <2>7
<1>5. ASSUME NEW irq \in Irqs, Entered(irq), Acknowledged(irq)
      PROVE  /\ master'.isr = {} /\ slave'.isr = {}
             /\ master'.base = master.base /\ master'.imr = master.imr
             /\ slave'.base = slave.base /\ slave'.imr = slave.imr
             /\ stack # <<>>
  <2>1. Serving /\ Top.irq = irq
    BY <1>5 DEF Entered, Serving
  <2>2. /\ master.isr = {MasterLine(irq)}
        /\ slave.isr = IF irq = RTC THEN {0} ELSE {}
    BY <2>1 DEF Interrupts
  <2>3. QED
    BY <1>5, <2>2
    DEF Acknowledged, Entered, MasterLine, Irqs, PIT, KEYBOARD, RTC, CASCADE, TypeOK, Chips
<1>6. CASE HandleRtc
  <2>1. /\ master'.isr = {} /\ slave'.isr = {}
        /\ master'.base = master.base /\ master'.imr = master.imr
        /\ slave'.base = slave.base /\ slave'.imr = slave.imr
        /\ stack # <<>>
    BY <1>5, <1>6 DEF HandleRtc, Irqs
  <2>2. /\ Len(stack) \in Nat \ {0} /\ Top \in Frames
    BY <2>1 DEF TypeOK, Top
  <2>3. stack' = [stack EXCEPT ![Len(stack)] = [Top EXCEPT !.at = "exit"]]
    BY <1>6, <2>2 DEF HandleRtc, Top
  <2>4. /\ stack' \in Seq(Frames) /\ Len(stack') = Len(stack)
        /\ stack'[Len(stack)].at = "exit"
        /\ \A i \in 1 .. Len(stack) - 1 : stack'[i] = stack[i]
    BY <2>2, <2>3 DEF TypeOK, Frames
  <2>5. \A i \in 1 .. Len(stack') : stack'[i].at # "entry"
    BY <2>2, <2>4 DEF Interrupts
  <2>6. Interrupts'
    BY <2>1, <2>2, <2>4, <2>5 DEF Interrupts, Serving, Top
  <2>7. BootOrder'
    BY <1>6, <2>1 DEF HandleRtc, BootOrder, Early
  <2>8. QED  BY <2>6, <2>7
<1>7. CASE HandleKeyboard \/ HandlePit
  <2>1. /\ master'.isr = {} /\ slave'.isr = {}
        /\ master'.base = master.base /\ master'.imr = master.imr
        /\ slave'.base = slave.base /\ slave'.imr = slave.imr
        /\ stack # <<>>
    BY <1>5, <1>7 DEF HandleKeyboard, HandlePit, Irqs
  <2>2. /\ stack' = Popped
        /\ UNCHANGED <<master_mask, slave_mask, task>>
    BY <1>7 DEF HandleKeyboard, HandlePit
  <2>3. Interrupts'
    BY <2>1, <2>2, PoppedServes DEF Interrupts
  <2>4. BootOrder'
    BY <2>1, <2>2 DEF BootOrder, Early
  <2>5. QED  BY <2>3, <2>4
<1>8. CASE StartShell
  <2>1. /\ master'.isr = {} /\ slave'.isr = {}
        /\ master'.base = master.base /\ master'.imr = master.imr
        /\ slave'.base = slave.base /\ slave'.imr = slave.imr
        /\ stack # <<>>
    BY <1>5, <1>8 DEF StartShell, Irqs
  <2>2. stack' = <<>> /\ task'.pc = "user" /\ UNCHANGED <<master_mask, slave_mask>>
    BY <1>8 DEF StartShell, At
  <2>3. Interrupts'
    BY <2>1, <2>2 DEF Interrupts, Serving
  <2>4. BootOrder'
    BY <2>1, <2>2 DEF BootOrder, Early
  <2>5. QED  BY <2>3, <2>4
<1>9. CASE Iret
  <2>1. /\ stack # <<>> /\ ~Serving /\ stack' = Popped
        /\ UNCHANGED <<master_mask, slave_mask, master, slave, iflag, task>>
    BY <1>9 DEF Iret, Serving, pic
  <2>2. Interrupts'
    BY <2>1, PoppedServes DEF Interrupts
  <2>3. BootOrder'
    BY <2>1 DEF BootOrder, Early
  <2>4. QED  BY <2>2, <2>3
<1>10. CASE Boot
  <2>1. stack = <<>> /\ ~Serving /\ stack' = stack
    BY <1>10
    DEF Boot, i8259_init, init_rtc, init_keyboard, EnableInterrupts, init_PIT, Below,
        Serving, cpu
  <2>2. ASSUME NEW irq \in Irqs, Unmasked(irq)
        PROVE  /\ master'.isr = master.isr /\ slave'.isr = slave.isr
               /\ master'.base = master.base /\ slave'.base = slave.base
               /\ master_mask' \subseteq master_mask /\ slave_mask' \subseteq slave_mask
               /\ master.imr = master_mask => master'.imr = master_mask'
               /\ slave.imr = slave_mask => slave'.imr = slave_mask'
               /\ irq = RTC => 0 \notin slave_mask'
    BY <2>2 DEF Unmasked, Irqs, PIT, KEYBOARD, RTC, TypeOK, Chips
  <2>3. CASE i8259_init
    <3>1. /\ master' = [base |-> 32, imr |-> master_mask, isr |-> {}]
          /\ slave' = [base |-> 40, imr |-> slave_mask, isr |-> {}]
          /\ task'.pc = "init_rtc" /\ ~iflag
          /\ UNCHANGED <<master_mask, slave_mask, iflag>>
      BY <2>3 DEF i8259_init, Below, Goto, TypeOK, Tasks, BootOrder, Early, cpu
    <3>2. QED
      BY <2>1, <3>1 DEF Interrupts, Serving, BootOrder, Early
  <2>4. CASE init_rtc
    <3>1. task.pc = "init_rtc" /\ task'.pc = "init_keyboard" /\ ~iflag /\ iflag' = iflag
      BY <2>4 DEF init_rtc, Below, Goto, TypeOK, Tasks, BootOrder, Early, cpu
    <3>2. Unmasked(RTC) /\ RTC \in Irqs
      BY <2>4 DEF init_rtc, Irqs
    <3>3. QED
      BY <2>1, <2>2, <3>1, <3>2 DEF Interrupts, Serving, BootOrder, Early
  <2>5. CASE init_keyboard
    <3>1. task.pc = "init_keyboard" /\ task'.pc = "sti" /\ ~iflag /\ iflag' = iflag
      BY <2>5 DEF init_keyboard, Below, Goto, TypeOK, Tasks, BootOrder, Early, cpu
    <3>2. Unmasked(KEYBOARD) /\ KEYBOARD \in Irqs
      BY <2>5 DEF init_keyboard, Irqs
    <3>3. QED
      BY <2>1, <2>2, <3>1, <3>2 DEF Interrupts, Serving, BootOrder, Early
  <2>6. CASE EnableInterrupts
    <3>1. /\ task.pc = "sti" /\ task'.pc = "init_PIT"
          /\ UNCHANGED <<master_mask, slave_mask, master, slave>>
      BY <2>6 DEF EnableInterrupts, Below, Goto, TypeOK, Tasks, pic
    <3>2. QED
      BY <2>1, <3>1 DEF Interrupts, Serving, BootOrder, Early
  <2>7. CASE init_PIT
    <3>1. task.pc = "init_PIT" /\ task'.pc = "user"
      BY <2>7 DEF init_PIT, Below, At
    <3>2. Unmasked(PIT) /\ PIT \in Irqs
      BY <2>7 DEF init_PIT, Irqs
    <3>3. QED
      BY <2>1, <2>2, <3>1, <3>2 DEF Interrupts, Serving, BootOrder, Early
  <2>8. QED
    BY <1>10, <2>3, <2>4, <2>5, <2>6, <2>7 DEF Boot
<1>11. ASSUME stack = <<>>, Masks, stack' = stack, ~Early, ~Early'
       PROVE  Interrupts' /\ BootOrder'
  BY <1>11 DEF Interrupts, Serving, BootOrder, Early
<1>12. CASE rtc_open \/ rtc_close \/ Write \/ ReadCall \/ SystemCall
  <2>1. stack = <<>> /\ Masks /\ stack' = stack
    BY <1>12
    DEF rtc_open, rtc_close, Write, SetFrequency, ReadCall, SystemCall, ScaleStep,
        DisableInterrupts, SelectA, ReadA, WriteA, ReadSti, ReadReturn, Below,
        UnchangedBelow, pic
  <2>2. ~Early
    BY <1>12
    DEF rtc_open, rtc_close, Write, SetFrequency, ReadCall, SystemCall, ScaleStep,
        DisableInterrupts, SelectA, ReadA, WriteA, ReadSti, ReadReturn, Below, Early
  <2>3. ~Early'
    <3>1. ASSUME NEW frequency, SetFrequency(frequency)  PROVE task'.pc = "scale"
      BY <3>1 DEF SetFrequency, At
    <3>2. ASSUME NEW pc, Goto(pc)  PROVE task'.pc = pc
      BY <3>2 DEF Goto, TypeOK, Tasks
    <3>3. CASE rtc_open \/ rtc_close \/ Write
      BY <3>1, <3>3 DEF rtc_open, rtc_close, Write, Early
    <3>4. CASE ScaleStep
      <4>1. CASE Scaling
        BY <3>4, <4>1 DEF ScaleStep, Scale, Below, TypeOK, Tasks, Early
      <4>2. CASE ~Scaling
        BY <3>2, <3>4, <4>2 DEF ScaleStep, Early
      <4>3. QED  BY <4>1, <4>2
    <3>5. CASE ReadA
      BY <3>5 DEF ReadA, TypeOK, Tasks, Early
    <3>6. CASE ReadCall \/ DisableInterrupts \/ SelectA \/ WriteA \/ ReadSti \/ ReadReturn
      BY <3>2, <3>6
      DEF ReadCall, DisableInterrupts, SelectA, WriteA, ReadSti, ReadReturn, Early
    <3>7. QED
      BY <1>12, <3>3, <3>4, <3>5, <3>6 DEF SystemCall
  <2>4. QED  BY <1>11, <2>1, <2>2, <2>3
<1>13. CASE UNCHANGED vars
  BY <1>2, <1>13 DEF vars, pic, cpu
<1>14. QED
  BY <1>3, <1>4, <1>6, <1>7, <1>8, <1>9, <1>10, <1>12, <1>13 DEF Next, Handler

LEMMA Served == Spec => [](TypeOK /\ Interrupts /\ BootOrder)
<1>1. TypeOK /\ TypeOK' /\ Interrupts /\ BootOrder /\ [Next]_vars
          => Interrupts' /\ BootOrder'
  BY InterruptsStep
<1>2. QED
  BY <1>1, InterruptsInit, TypeCorrect, PTL DEF Spec

\* Both chips consider an interrupt in service exactly while its handler is before
\* send_eoi, however deep handlers interrupt one another: no priority stays blocked.
THEOREM ServiceEnds == Spec => []InService
BY Served, InterruptsServed, PTL

\* i8259_init and enable_irq have left the chips as the kernel's masks and the IDT
\* need them before the first sti, and nothing undoes it.
THEOREM ControllersStayReady == Spec => []ControllersReady
<1>1. BootOrder => ControllersReady
  <2>. SUFFICES ASSUME BootOrder, iflag
                PROVE  /\ \A irq \in Irqs : Vector(irq) \in DeviceVectors
                       /\ master.imr = master_mask /\ slave.imr = slave_mask
                       /\ CASCADE \notin master.imr /\ RTC - 8 \notin slave.imr
    BY DEF ControllersReady
  <2>1. ~Early  BY DEF BootOrder
  <2>2. QED
    BY <2>1
    DEF BootOrder, Early, Vector, DeviceVectors, Irqs, PIT, KEYBOARD, RTC
<1>2. QED
  BY <1>1, Served, PTL

-----------------------------------------------------------------------------
(***************************************************************************)
(* The rate: between the accesses of rtc_set_frequency to the ports no     *)
(* handler runs, so register A is still selected when it is read and       *)
(* written, and what is written differs from it in the rate alone.         *)
(***************************************************************************)
Setup == Early \/ task.pc = "init_PIT"

Exclusive ==
    /\ task.pc \in {"selectA", "readA", "selectA2", "writeA"} => ~iflag /\ stack = <<>>
    /\ task.pc \in {"readA", "writeA"} => index = "A"
    /\ task.pc \in {"selectA2", "writeA"} => task.saved_a \in {regA, regA + 128}

\* No system call is made before all shells are started.
ClockAtBoot ==
    /\ Setup => regA = BiosA
    /\ pit_count <= NUMBER_OF_TERMINALS => (Setup \/ task.pc = "user") /\ regA = BiosA

Rates == RateTakesHold /\ Exclusive /\ ClockAtBoot

LEMMA RatesInit == Init => Rates
BY DEF Init, Rates, RateTakesHold, Exclusive, ClockAtBoot, Setup, Early, At

LEMMA RatesStep == TypeOK /\ Rates /\ [Next]_vars => Rates'
<1>. SUFFICES ASSUME TypeOK, Rates, [Next]_vars PROVE Rates'  OBVIOUS
<1>. USE DEF Rates, RateTakesHold, Exclusive, ClockAtBoot, Setup, Early
<1>1. ASSUME UNCHANGED <<index, regA, task, iflag, stack, pit_count>>  PROVE Rates'
  BY <1>1
<1>2. CASE ClockEvent \/ TimerTick \/ Key
  BY <1>1, <1>2 DEF ClockEvent, TimerTick, Key, pic, clock, cpu
<1>3. ASSUME NEW irq \in Irqs, Deliver(irq)  PROVE Rates'
  BY <1>3 DEF Deliver, clock
<1>4. ASSUME stack # <<>>, UNCHANGED <<regA, task>>,
             pit_count' <= NUMBER_OF_TERMINALS => pit_count <= NUMBER_OF_TERMINALS
      PROVE  Rates'
  BY <1>4
<1>5. CASE HandleRtc \/ HandleKeyboard \/ Iret
  BY <1>4, <1>5 DEF HandleRtc, HandleKeyboard, Iret, Entered, clock
<1>6. CASE HandlePit
  BY <1>4, <1>6 DEF HandlePit, Entered, clock, NUMBER_OF_TERMINALS
<1>7. ASSUME regA = BiosA, UNCHANGED regA, task' = At("user")  PROVE Rates'
  <2>1. task'.pc = "user" /\ task'.rate = BiosA % 16
    BY <1>7 DEF At
  <2>2. QED  BY <1>7, <2>1
<1>8. CASE StartShell
  <2>1. pit_count <= NUMBER_OF_TERMINALS
    BY <1>8 DEF StartShell, TypeOK, NUMBER_OF_TERMINALS
  <2>2. QED
    BY <1>7, <1>8, <2>1 DEF StartShell, clock
<1>9. CASE Boot
  <2>1. ASSUME NEW pc \in {"init_rtc", "init_keyboard", "sti", "init_PIT"}, Goto(pc),
               Setup, UNCHANGED <<regA, pit_count>>
        PROVE  Rates'
    BY <2>1 DEF Goto, TypeOK, Tasks
  <2>2. CASE i8259_init \/ init_rtc \/ init_keyboard \/ EnableInterrupts
    BY <2>1, <2>2
    DEF i8259_init, init_rtc, init_keyboard, EnableInterrupts, Below, clock
  <2>3. CASE init_PIT
    BY <1>7, <2>3 DEF init_PIT, Below, clock
  <2>4. QED
    BY <1>9, <2>2, <2>3 DEF Boot
<1>10. ASSUME NEW frequency, SetFrequency(frequency)  PROVE Rates'
  <2>1. task'.pc = "scale"
    BY <1>10 DEF SetFrequency, At
  <2>2. regA' = regA /\ pit_count' = NUMBER_OF_TERMINALS + 1
    BY <1>10 DEF SetFrequency, UnchangedBelow, clock, AllStarted
  <2>3. QED
    BY <2>1, <2>2 DEF NUMBER_OF_TERMINALS
<1>11. CASE rtc_open \/ rtc_close \/ Write
  BY <1>10, <1>11 DEF rtc_open, rtc_close, Write
<1>12. ASSUME NEW pc, Goto(pc)
       PROVE  /\ task'.pc = pc /\ task'.rate = task.rate
              /\ task'.saved_a = task.saved_a
  BY <1>12 DEF Goto, TypeOK, Tasks
<1>13. CASE ReadCall
  <2>1. task.pc = "user" /\ task'.pc = "read_sti" /\ task'.rate = task.rate
    BY <1>12, <1>13 DEF ReadCall, Below
  <2>2. regA' = regA /\ pit_count' = NUMBER_OF_TERMINALS + 1
    BY <1>13 DEF ReadCall, UnchangedBelow, clock, AllStarted
  <2>3. QED
    BY <2>1, <2>2 DEF NUMBER_OF_TERMINALS
<1>14. CASE SystemCall
  <2>1. CASE ScaleStep
    <3>1. task.pc = "scale" /\ task'.pc \in {"scale", "cli"}
      <4>1. CASE Scaling
        BY <2>1, <4>1 DEF ScaleStep, Scale, Below, TypeOK, Tasks
      <4>2. CASE ~Scaling
        BY <1>12, <2>1, <4>2 DEF ScaleStep, Below
      <4>3. QED  BY <4>1, <4>2
    <3>2. QED
      BY <2>1, <3>1 DEF ScaleStep, UnchangedBelow, clock
  <2>2. CASE DisableInterrupts
    <3>1. task.pc = "cli" /\ task'.pc = "selectA" /\ stack' = <<>> /\ ~iflag'
      BY <1>12, <2>2 DEF DisableInterrupts, Cli, Below, UnchangedBelow
    <3>2. QED
      BY <2>2, <3>1 DEF DisableInterrupts, UnchangedBelow, clock
  <2>3. CASE SelectA
    <3>1. /\ index' = "A" /\ UNCHANGED <<regA, iflag, stack, pit_count>>
          /\ \/ task.pc = "selectA" /\ task'.pc = "readA"
             \/ task.pc = "selectA2" /\ task'.pc = "writeA"
          /\ task'.saved_a = task.saved_a
      BY <1>12, <2>3 DEF SelectA, Below, UnchangedBelow
    <3>2. QED  BY <3>1
  <2>4. CASE ReadA
    <3>1. task.pc = "readA" /\ index = "A"
      BY <2>4 DEF ReadA, Below
    <3>2. PICK byte \in {regA, regA + 128} :
              task' = [task EXCEPT !.pc = "selectA2", !.saved_a = byte]
      <4>1. Read(regA) = {regA, regA + 128}  BY UpdateBit DEF TypeOK
      <4>2. QED  BY <2>4, <3>1, <4>1 DEF ReadA
    <3>3. task'.pc = "selectA2" /\ task'.saved_a = byte
      BY <3>2 DEF TypeOK, Tasks
    <3>4. UNCHANGED <<regA, iflag, stack, pit_count>>
      BY <2>4 DEF ReadA, UnchangedBelow
    <3>5. QED  BY <3>1, <3>2, <3>3, <3>4
  <2>5. CASE WriteA
    <3>1. /\ task.pc = "writeA" /\ index = "A" /\ task.saved_a \in {regA, regA + 128}
          /\ regA' = WithRate(task.saved_a, task.rate)
      BY <2>5 DEF WriteA, Below
    <3>2. regA \in 0 .. 127 /\ task.rate \in 0 .. 15
      BY TaskFields DEF TypeOK
    <3>3. regA' \div 16 = regA \div 16 /\ regA' % 16 = task.rate
      <4>1. /\ WithRate(task.saved_a, task.rate) \div 16 = regA \div 16
            /\ WithRate(task.saved_a, task.rate) % 16 = task.rate
        <5>1. task.saved_a \in {regA, regA + 128}  BY <3>1
        <5>2. Written(regA, task.rate, task.saved_a)  BY ONLY <3>2, <5>1, RateWritten
        <5>3. QED  BY ONLY <5>2 DEF Written
      <4>2. regA' = WithRate(task.saved_a, task.rate)  BY <3>1
      <4>3. QED  BY ONLY <4>1, <4>2
    <3>4. task'.pc = "user" /\ task'.rate = task.rate /\ pit_count' = pit_count
      BY <1>12, <2>5 DEF WriteA, UnchangedBelow
    <3>5. QED
      BY <3>1, <3>3, <3>4
  <2>6. CASE ReadSti
    <3>1. task.pc = "read_sti" /\ task'.pc = "spin" /\ task'.rate = task.rate
      BY <1>12, <2>6 DEF ReadSti, Below
    <3>2. QED
      BY <2>6, <3>1 DEF ReadSti, UnchangedBelow, clock
  <2>7. CASE ReadReturn
    <3>1. task.pc = "spin" /\ task'.pc = "user" /\ task'.rate = task.rate
      BY <1>12, <2>7 DEF ReadReturn, Below
    <3>2. QED
      BY <2>7, <3>1 DEF ReadReturn, UnchangedBelow, clock
  <2>8. QED
    BY <1>14, <2>1, <2>2, <2>3, <2>4, <2>5, <2>6, <2>7 DEF SystemCall
<1>15. CASE UNCHANGED vars
  BY <1>1, <1>15 DEF vars, clock, cpu
<1>16. QED
  BY <1>2, <1>3, <1>5, <1>6, <1>8, <1>9, <1>11, <1>13, <1>14, <1>15 DEF Next, Handler

LEMMA RatesHold == Spec => [](TypeOK /\ RightScale /\ Rates)
BY RatesInit, RatesStep, Typed, PTL DEF Spec

\* handle_rtc uses the same index port as rtc_set_frequency: the divider survives,
\* and the rate in force is the one that the last call computed.
THEOREM RateHolds == Spec => []RateTakesHold
<1>1. Rates => RateTakesHold  BY DEF Rates
<1>2. QED  BY <1>1, RatesHold, PTL

\* A request that the loop leaves with the scale at temp, from the line before it in
\* the table: the request is temp, or 4 or less.
LEMMA ScaleIsRequest ==
    ASSUME NEW frequency \in Accepted, NEW temp, NEW rate, Pair(temp, rate),
           temp = 4 \/ temp < 2 * frequency, frequency <= temp
    PROVE  Hertz[rate] = IF frequency > 2 * MIN_RATE THEN frequency \div 2 ELSE MIN_RATE
<1>1. CASE frequency \in {INT_MIN, 0, 1, 2, 4}
  <2>1. frequency \in Int /\ frequency <= 4  BY <1>1, Requested
  <2>2. temp = 4 /\ rate = 15  BY <1>1, <2>1, Requested DEF Pair
  <2>3. Hertz[15] = 2 /\ ~(frequency > 2 * MIN_RATE)  BY <2>1 DEF Hertz, MIN_RATE
  <2>4. QED  BY <2>2, <2>3 DEF MIN_RATE
<1>2. CASE frequency \in {8, 16, 32, 64, 128, 256, 512, 1024}
  <2>1. temp = frequency  BY <1>2 DEF Pair
  <2>2. QED  BY <1>2, <2>1 DEF Pair, Hertz, MIN_RATE
<1>3. QED  BY <1>1, <1>2 DEF Accepted, MAX_RATE

\* rtc_set_frequency gives half of what it is asked for, and 2 Hz for 4 and below, for
\* every 32-bit request that rtc_write lets through.
THEOREM FrequencyIsHalved == Spec => HalfTheRequest
<1>1. ASSUME TypeOK, RightScale, Rates, WriteA
      PROVE  Hertz[regA' % 16] = IF task.frequency > 2 * MIN_RATE
                                 THEN task.frequency \div 2
                                 ELSE MIN_RATE
  <2>1. /\ task.pc = "writeA" /\ index = "A" /\ task.saved_a \in {regA, regA + 128}
        /\ regA' = WithRate(task.saved_a, task.rate)
    BY <1>1 DEF WriteA, Below, Rates, Exclusive
  <2>2. regA \in 0 .. 127 /\ task.rate \in 0 .. 15
    BY <1>1, TaskFields DEF TypeOK
  <2>3. regA' % 16 = task.rate
    <3>1. task.saved_a \in {regA, regA + 128} /\ regA' = WithRate(task.saved_a, task.rate)
      BY <2>1
    <3>2. Written(regA, task.rate, task.saved_a)
      BY ONLY <2>2, <3>1, RateWritten
    <3>3. QED  BY ONLY <3>1, <3>2 DEF Written
  <2>4. /\ Pair(task.temp, task.rate) /\ task.frequency \in Accepted
        /\ task.temp = 4 \/ task.temp < 2 * task.frequency
        /\ task.frequency <= task.temp
    BY <1>1, <2>1 DEF RightScale, InRateCall
  <2>5. QED
    BY ONLY <2>3, <2>4, ScaleIsRequest
<1>2. TypeOK /\ RightScale /\ Rates =>
          [WriteA => Hertz[regA' % 16] = IF task.frequency > 2 * MIN_RATE
                                         THEN task.frequency \div 2
                                         ELSE MIN_RATE]_vars
  BY <1>1
<1>3. QED
  BY <1>2, RatesHold, PTL DEF HalfTheRequest

-----------------------------------------------------------------------------
(***************************************************************************)
(* Reading the clock                                                       *)
(***************************************************************************)
Waiting ==
    task.pc \in {"read_sti", "spin"} /\ interrupt_flag = 0 => served > 0

LEMMA WaitingStep == TypeOK /\ Waiting /\ [Next]_vars => Waiting'
<1>. SUFFICES ASSUME TypeOK, Waiting, [Next]_vars PROVE Waiting'  OBVIOUS
<1>. USE DEF Waiting
<1>1. ASSUME UNCHANGED <<task, interrupt_flag, served>>  PROVE Waiting'
  BY <1>1
<1>2. ASSUME NEW irq \in Irqs, Deliver(irq)  PROVE Waiting'
  BY <1>1, <1>2 DEF Deliver
<1>3. CASE \/ ClockEvent \/ TimerTick \/ Key \/ HandleKeyboard \/ HandlePit \/ Iret
           \/ UNCHANGED vars
  BY <1>1, <1>3 DEF ClockEvent, TimerTick, Key, HandleKeyboard, HandlePit, Iret, vars
<1>4. CASE HandleRtc
  BY <1>4 DEF HandleRtc, TypeOK
<1>5. ASSUME task'.pc \notin {"read_sti", "spin"}  PROVE Waiting'
  BY <1>5
<1>6. ASSUME NEW pc, Goto(pc)  PROVE task'.pc = pc
  BY <1>6 DEF Goto, TypeOK, Tasks
<1>7. CASE StartShell
  BY <1>5, <1>7 DEF StartShell, At
<1>8. CASE Boot
  <2>1. CASE init_PIT
    BY <1>5, <2>1 DEF init_PIT, At
  <2>2. QED
    BY <1>5, <1>6, <1>8, <2>1
    DEF Boot, i8259_init, init_rtc, init_keyboard, EnableInterrupts
<1>9. CASE rtc_open \/ rtc_close \/ Write
  BY <1>5, <1>9 DEF rtc_open, rtc_close, Write, SetFrequency, At
<1>10. CASE ReadCall
  BY <1>10 DEF ReadCall, RaiseFlag
<1>11. CASE SystemCall
  <2>1. CASE ScaleStep
    <3>1. CASE Scaling
      BY <1>5, <2>1, <3>1 DEF ScaleStep, Scale, Below, TypeOK, Tasks
    <3>2. CASE ~Scaling
      BY <1>5, <1>6, <2>1, <3>2 DEF ScaleStep
    <3>3. QED  BY <3>1, <3>2
  <2>2. CASE ReadA
    BY <1>5, <2>2 DEF ReadA, TypeOK, Tasks
  <2>3. CASE ReadSti
    BY <2>3 DEF ReadSti, Below, clock
  <2>4. CASE DisableInterrupts \/ SelectA \/ WriteA \/ ReadReturn
    BY <1>5, <1>6, <2>4 DEF DisableInterrupts, SelectA, WriteA, ReadReturn
  <2>5. QED
    BY <1>11, <2>1, <2>2, <2>3, <2>4 DEF SystemCall
<1>12. QED
  BY <1>2, <1>3, <1>4, <1>7, <1>8, <1>9, <1>10, <1>11 DEF Next, Handler

\* rtc_read returns only after an interrupt that came while it was waiting.
THEOREM ReadStaysWaiting == Spec => ReadWaits
<1>1. Init => Waiting
  BY DEF Init, Waiting, At
<1>2. TypeOK /\ Waiting => [ReadReturn => served > 0]_vars
  BY DEF Waiting, ReadReturn, Below
<1>3. QED
  BY <1>1, <1>2, WaitingStep, TypeCorrect, PTL DEF Spec, ReadWaits
=============================================================================
