------------------------------- MODULE Library -------------------------------
(***************************************************************************)
(* The routines on memory and strings that the kernel (lib.c) and the user *)
(* programs (ece391support.c) carry with them instead of a C library.      *)
(*                                                                         *)
(* A behaviour is one call: the registers or locals of the routine are in  *)
(* r, and every iteration of a loop is a step, so what an iteration reads  *)
(* is what the ones before it have left, also where source and destination *)
(* overlap.  The widest store is WORD bytes (4 in the code).               *)
(***************************************************************************)
EXTENDS Integers

CONSTANTS
    SIZE,            \* bytes of memory
    WORD,            \* bytes that one movsl or stosl stores
    MaxByte,         \* bytes are 0 .. MaxByte
    MaxValue         \* bound on the numbers that itoa converts

ASSUME LibraryAssumption ==
    /\ SIZE \in Nat \ {0}
    /\ WORD \in Nat \ {0}
    /\ MaxByte \in Nat /\ MaxByte >= 2
    /\ MaxValue \in Nat

Addr == 0 .. SIZE - 1
Byte == 0 .. MaxByte
NUL == 0

\* lookup[] of itoa: the digits are bytes and none of them is the NUL.
Digit(i) == i + 1

Radixes == 2 .. MaxByte

VARIABLES
    mem,
    call,            \* the routine and its arguments
    entry,           \* the memory when the routine was called
    r                \* the routine's place, its registers or locals, its result

libraryVars == <<mem, call, entry, r>>

Blocks == {"memset", "memcpy", "memmove"}
Copies == {"strcpy", "ece391_strcpy", "strncpy"}
Compares == {"strncmp", "ece391_strncmp", "ece391_strcmp"}
Conversions == {"strrev", "itoa"}
Routines == Blocks \cup Copies \cup Compares \cup Conversions

\* dest and src are the first two arguments, or both the only one; n is the length
\* or the value, c the value to set or the radix.
Calls == [routine : Routines, dest : Addr, src : Addr, n : Nat, c : Nat]

-----------------------------------------------------------------------------
(***************************************************************************)
(* The calls that the callers make                                         *)
(***************************************************************************)
Terminated(s) == \E a \in s .. SIZE - 1 : entry[a] = NUL

\* The length of a string in a memory, and as it was at the call.
LengthIn(memory, s) ==
    CHOOSE n \in 0 .. SIZE - 1 :
        memory[s + n] = NUL /\ \A i \in 0 .. n - 1 : memory[s + i] # NUL

Length(s) == LengthIn(entry, s)

Fits(s, n) == s + n <= SIZE

\* No byte of the source is overwritten before it is read by a routine that works
\* upwards.
Upwards(n) == call.dest <= call.src \/ call.src + n <= call.dest

\* What division by the radix leaves of a number, digit after digit.
Rest(number, radix) ==
    LET rest[i \in Nat] == IF i = 0 THEN number ELSE rest[i - 1] \div radix
    IN  rest

Legal ==
    CASE call.routine = "memset" -> Fits(call.dest, call.n) /\ call.c \in Byte
      [] call.routine = "memcpy" ->
            Fits(call.dest, call.n) /\ Fits(call.src, call.n) /\ Upwards(call.n)
      [] call.routine = "memmove" -> Fits(call.dest, call.n) /\ Fits(call.src, call.n)
      [] call.routine \in {"strcpy", "ece391_strcpy"} ->
            /\ Terminated(call.src)
            /\ Fits(call.dest, Length(call.src) + 1) /\ Upwards(Length(call.src) + 1)
      [] call.routine = "strncpy" ->
            /\ Terminated(call.src) \/ Fits(call.src, call.n + 1)
            /\ Fits(call.dest, call.n) /\ Upwards(call.n)
      [] call.routine \in {"strncmp", "ece391_strncmp"} ->
            \A s \in {call.dest, call.src} : Terminated(s) \/ Fits(s, call.n)
      [] call.routine = "ece391_strcmp" -> Terminated(call.dest) /\ Terminated(call.src)
      [] call.routine = "strrev" -> Terminated(call.dest)
      [] call.routine = "itoa" ->
            Fits(call.dest, 2) /\ Rest(call.n, call.c)[SIZE - call.dest - 1] = 0

\* The arguments worth telling apart: those that a routine has.
Sources(routine) == IF routine \in Conversions \cup {"memset"} THEN {0} ELSE Addr

Numbers(routine) ==
    CASE routine = "itoa" -> 0 .. MaxValue
      [] routine \in Blocks \cup {"strncpy", "strncmp", "ece391_strncmp"} -> 0 .. SIZE
      [] OTHER -> {0}

Parameters(routine) ==
    CASE routine = "memset" -> Byte
      [] routine = "itoa" -> Radixes
      [] OTHER -> {0}

-----------------------------------------------------------------------------
(***************************************************************************)
(* Entering a routine                                                      *)
(***************************************************************************)
Locals(pc) == [pc |-> pc, di |-> call.dest, si |-> call.src, cx |-> call.n, dx |-> 0,
               step |-> 1, result |-> 0]

\* Mutant of Downwards: the comparison is the other way round.
DownwardsSwapped == call.dest < call.src

\* cmp %edi, %esi; jae
Downwards == call.src < call.dest

EnterMove ==
    IF Downwards
    THEN [Locals("move") EXCEPT !.di = @ + call.n - 1, !.si = @ + call.n - 1, !.step = -1]
    ELSE Locals("move")

Enter ==
    CASE call.routine \in {"memset", "memcpy"} -> Locals("top")
      [] call.routine = "memmove" -> EnterMove
      [] call.routine \in Copies -> [Locals(call.routine) EXCEPT !.cx = 0]
      [] call.routine = "strncmp" -> [Locals("strncmp") EXCEPT !.cx = 0]
      [] call.routine = "ece391_strncmp" -> Locals("zero length")
      [] call.routine = "ece391_strcmp" -> Locals("compare")
      [] call.routine = "strrev" -> [Locals("strlen") EXCEPT !.cx = 0]
      [] call.routine = "itoa" -> Locals(IF call.n = 0 THEN "zero" ELSE "digits")

LibraryInit ==
    /\ entry \in [Addr -> Byte]
    /\ \E routine \in Routines, dest \in Addr :
        \E src \in Sources(routine), n \in Numbers(routine), c \in Parameters(routine) :
            call = [routine |-> routine, dest |-> dest, src |-> src, n |-> n, c |-> c]
    /\ Legal
    /\ mem = entry
    /\ r = Enter

-----------------------------------------------------------------------------
(***************************************************************************)
(* memset, memcpy, memmove                                                 *)
(***************************************************************************)
At(pc) == r.pc = pc
Goto(pc) == r' = [r EXCEPT !.pc = pc]
Returns(result) == r' = [r EXCEPT !.pc = "done", !.result = result]
Store(a, byte) == mem' = [mem EXCEPT ![a] = byte]
Unchanged == UNCHANGED <<call, entry>>

\* What a store at edi + k takes: a byte of eax, or the source's.
Stored(k) == IF call.routine = "memset" THEN call.c ELSE mem[r.si + k]

\* Up to the first aligned byte.
Top ==
    /\ At("top")
    /\ \/ r.cx = 0 /\ Returns(0) /\ UNCHANGED mem
       \/ /\ r.cx > 0 /\ r.di % WORD # 0
          /\ Store(r.di, Stored(0))
          /\ r' = [r EXCEPT !.di = @ + 1, !.si = @ + 1, !.cx = @ - 1]
       \/ /\ r.cx > 0 /\ r.di % WORD = 0
          /\ r' = [r EXCEPT !.pc = "words", !.cx = @ \div WORD, !.dx = r.cx % WORD]
          /\ UNCHANGED mem
    /\ Unchanged

\* rep stosl, rep movsl
Words ==
    /\ At("words")
    /\ \/ r.cx = 0 /\ Goto("bottom") /\ UNCHANGED mem
       \/ /\ r.cx > 0
          /\ mem' = [a \in Addr |-> IF a - r.di \in 0 .. WORD - 1 THEN Stored(a - r.di)
                                                                ELSE mem[a]]
          /\ r' = [r EXCEPT !.di = @ + WORD, !.si = @ + WORD, !.cx = @ - 1]
    /\ Unchanged

Bottom ==
    /\ At("bottom")
    /\ \/ r.dx = 0 /\ Returns(0) /\ UNCHANGED mem
       \/ /\ r.dx > 0
          /\ Store(r.di, Stored(0))
          /\ r' = [r EXCEPT !.di = @ + 1, !.si = @ + 1, !.dx = @ - 1]
    /\ Unchanged

\* rep movsb, in the direction of the direction flag
Move ==
    /\ At("move")
    /\ \/ r.cx = 0 /\ Returns(0) /\ UNCHANGED mem
       \/ /\ r.cx > 0
          /\ Store(r.di, mem[r.si])
          /\ r' = [r EXCEPT !.di = @ + r.step, !.si = @ + r.step, !.cx = @ - 1]
    /\ Unchanged

-----------------------------------------------------------------------------
(***************************************************************************)
(* Strings                                                                 *)
(***************************************************************************)
Strcpy ==
    /\ At("strcpy")
    /\ Store(call.dest + r.cx, mem[call.src + r.cx])
    /\ IF mem[call.src + r.cx] = NUL THEN Returns(0) ELSE r' = [r EXCEPT !.cx = @ + 1]
    /\ Unchanged

\* The byte is tested where it has been copied to.
ece391_strcpy ==
    /\ At("ece391_strcpy")
    /\ Store(call.dest + r.cx, mem[call.src + r.cx])
    /\ IF mem'[call.dest + r.cx] = NUL THEN Returns(0) ELSE r' = [r EXCEPT !.cx = @ + 1]
    /\ Unchanged

Strncpy ==
    /\ At("strncpy")
    /\ IF r.cx < call.n /\ mem[call.src + r.cx] # NUL
       THEN Store(call.dest + r.cx, mem[call.src + r.cx]) /\ r' = [r EXCEPT !.cx = @ + 1]
       ELSE Goto("pad") /\ UNCHANGED mem
    /\ Unchanged

\* Mutant of Padded: i <= n.
PaddedBeyond == r.cx > call.n

Padded == r.cx >= call.n

Pad ==
    /\ At("pad")
    /\ IF ~Padded
       THEN Store(call.dest + r.cx, NUL) /\ r' = [r EXCEPT !.cx = @ + 1]
       ELSE Returns(0) /\ UNCHANGED mem
    /\ Unchanged

Differ(i) == mem[call.dest + i] # mem[call.src + i]
Difference(i) == mem[call.dest + i] - mem[call.src + i]

Strncmp ==
    /\ At("strncmp")
    /\ CASE r.cx >= call.n -> Returns(0)
         [] r.cx < call.n /\ (Differ(r.cx) \/ mem[call.dest + r.cx] = NUL) ->
                Returns(Difference(r.cx))
         [] OTHER -> r' = [r EXCEPT !.cx = @ + 1]
    /\ UNCHANGED mem /\ Unchanged

ZeroLength ==
    /\ At("zero length")
    /\ IF call.n = 0 THEN Returns(0) ELSE Goto("compare")
    /\ UNCHANGED mem /\ Unchanged

\* Mutant of LastByte: the last byte is not compared.
LastByteEarly == call.routine = "ece391_strncmp" /\ r.cx - 1 <= 1

\* --n == 0
LastByte == call.routine = "ece391_strncmp" /\ r.cx - 1 = 0

\* The pointers have moved as far as dx says, and n is what is left of it.
Compare ==
    /\ At("compare")
    /\ CASE Differ(r.dx) -> Returns(Difference(r.dx))
         [] ~Differ(r.dx) /\ (mem[call.dest + r.dx] = NUL \/ LastByte) -> Returns(0)
         [] OTHER -> r' = [r EXCEPT !.dx = @ + 1, !.cx = @ - 1]
    /\ UNCHANGED mem /\ Unchanged

-----------------------------------------------------------------------------
(***************************************************************************)
(* strlen, strrev, itoa                                                    *)
(***************************************************************************)
Zero ==
    /\ At("zero")
    /\ mem' = [mem EXCEPT ![call.dest] = Digit(0), ![call.dest + 1] = NUL]
    /\ Returns(0)
    /\ Unchanged

\* From the lowest place up; cx is newval.
Digits ==
    /\ At("digits")
    /\ IF r.cx > 0
       THEN /\ Store(r.di, Digit(r.cx % call.c))
            /\ r' = [r EXCEPT !.di = @ + 1, !.cx = @ \div call.c]
       ELSE /\ Store(r.di, NUL)
            /\ r' = [r EXCEPT !.pc = "strlen", !.cx = 0]
    /\ Unchanged

\* Mutant of LastIndex: the NUL is swapped too.
LastIndexNul(length) == length

LastIndex(length) == length - 1

\* strlen of strrev; then di is beg and si is end.
Strlen ==
    /\ At("strlen")
    /\ r' = IF mem[call.dest + r.cx] # NUL
            THEN [r EXCEPT !.cx = @ + 1]
            ELSE [r EXCEPT !.pc = "swap", !.di = 0, !.si = LastIndex(r.cx)]
    /\ UNCHANGED mem /\ Unchanged

Swap ==
    /\ At("swap")
    /\ IF r.di < r.si
       THEN /\ mem' = [mem EXCEPT ![call.dest + r.di] = mem[call.dest + r.si],
                                  ![call.dest + r.si] = mem[call.dest + r.di]]
            /\ r' = [r EXCEPT !.di = @ + 1, !.si = @ - 1]
       ELSE Returns(0) /\ UNCHANGED mem
    /\ Unchanged

LibraryNext ==
    \/ Top
    \/ Words
    \/ Bottom
    \/ Move
    \/ Strcpy
    \/ ece391_strcpy
    \/ Strncpy
    \/ Pad
    \/ Strncmp
    \/ ZeroLength
    \/ Compare
    \/ Zero
    \/ Digits
    \/ Strlen
    \/ Swap

LibrarySpec == LibraryInit /\ [][LibraryNext]_libraryVars

-----------------------------------------------------------------------------
(***************************************************************************)
(* Properties                                                              *)
(***************************************************************************)
Done(routines) == At("done") /\ call.routine \in routines

\* The memory at the call with the n bytes from s on, or n times c, at dest.
Copied(n) ==
    [a \in Addr |-> IF a - call.dest \in 0 .. n - 1 THEN entry[call.src + (a - call.dest)]
                    ELSE entry[a]]

\* The types of the call and the registers.
LibraryTypeOK ==
    /\ entry \in [Addr -> Byte] /\ mem \in [Addr -> Byte]
    /\ call \in Calls
    /\ r.di \in Int /\ r.si \in Int /\ r.cx \in Int /\ r.dx \in Nat
    /\ r.step \in {1, -1} /\ r.result \in Int

\* Whatever the alignment and the overlap, memcpy, memmove and memset leave at dest
\* what was at src (or the byte given), and every other byte as it was.
BlocksRight ==
    Done(Blocks) =>
        mem = IF call.routine = "memset"
              THEN [a \in Addr |-> IF a - call.dest \in 0 .. call.n - 1 THEN call.c ELSE entry[a]]
              ELSE Copied(call.n)

\* A copied string ends with its NUL and nothing behind it is touched; strncpy pads
\* a shorter string with NULs and leaves a longer one without.
CopiesRight ==
    /\ Done({"strcpy", "ece391_strcpy"}) => mem = Copied(Length(call.src) + 1)
    /\ Done({"strncpy"}) =>
        \A a \in Addr :
            LET i == a - call.dest IN
            mem[a] = IF i \notin 0 .. call.n - 1 THEN entry[a]
                     ELSE IF \E j \in 0 .. i : entry[call.src + j] = NUL THEN NUL
                     ELSE entry[call.src + i]

\* Two strings agree over n bytes, or up to the NUL of both.
SameTo(n) ==
    \A i \in 0 .. n - 1 :
        \/ entry[call.dest + i] = entry[call.src + i]
        \/ \E j \in 0 .. i - 1 : entry[call.dest + j] = NUL /\ entry[call.src + j] = NUL

\* The three comparisons return zero exactly for strings that agree, and else the
\* difference of the first bytes that do not.
ComparesRight ==
    Done(Compares) =>
        LET length == IF call.routine = "ece391_strcmp" THEN SIZE ELSE call.n
        IN  IF r.result = 0
            THEN \A n \in 0 .. length : Fits(call.dest, n) /\ Fits(call.src, n) => SameTo(n)
            ELSE \E i \in 0 .. length - 1 :
                    /\ Fits(call.dest, i + 1) /\ Fits(call.src, i + 1) /\ SameTo(i)
                    /\ r.result = entry[call.dest + i] - entry[call.src + i]

\* The number that the digits of a string stand for, the highest first.
NumberOf(s, radix) ==
    LET length == LengthIn(mem, s)
        value[i \in 0 .. length] ==
            IF i = 0 THEN 0 ELSE radix * value[i - 1] + (mem[s + i - 1] - Digit(0))
    IN  value[length]

\* itoa writes the digits of the number, the highest first and none too many, and
\* strrev leaves the bytes of the string in the reverse order.
ConversionsRight ==
    /\ Done({"itoa"}) =>
        /\ NumberOf(call.dest, call.c) = call.n
        /\ call.n # 0 => mem[call.dest] # Digit(0)
    /\ Done({"strrev"}) =>
        \A a \in Addr :
            LET i == a - call.dest
                length == Length(call.dest)
            IN  mem[a] = IF i \in 0 .. length - 1 THEN entry[call.dest + length - 1 - i]
                         ELSE entry[a]

\* The loops that are still ahead, the one that runs counted.
Loops ==
    CASE At("top") \/ At("digits") -> 3
      [] r.pc \in {"words", "strncpy", "zero length", "strlen"} -> 2
      [] At("done") -> 0
      [] OTHER -> 1

\* How often the one that runs can still turn round.
Turns ==
    CASE r.pc \in {"top", "words", "move", "digits"} -> r.cx
      [] At("bottom") -> r.dx
      [] r.pc \in {"strncpy", "pad", "strncmp"} -> call.n - r.cx
      [] r.pc \in {"strcpy", "ece391_strcpy"} -> SIZE - call.src - r.cx
      [] At("compare") -> SIZE - call.dest - r.dx
      [] At("strlen") -> SIZE - call.dest - r.cx
      [] At("swap") -> r.si - r.di + 1
      [] OTHER -> 0

\* The next loop, or another turn of this one.
CallNearer == Loops' < Loops \/ (Loops' = Loops /\ Turns' \in Nat /\ Turns' < Turns)

\* Every iteration brings a routine nearer to its return, and those that look for a
\* NUL find one before memory ends: whichever way it goes, a call runs through its
\* loops in their order and each of them no more often than its argument allows.
CallGetsOn == [][CallNearer]_libraryVars
=============================================================================
