---------------------------- MODULE LibraryProofs ----------------------------
(***************************************************************************)
(* Proofs about Library, for every size of memory and of a word, all bytes *)
(* and all arguments that callers pass: memset, memcpy, memmove and the    *)
(* copies of strings leave exactly the bytes they should, the comparisons  *)
(* answer what they promise without reading behind either string, and itoa *)
(* and strrev convert every number and turn round every string.            *)
(***************************************************************************)
EXTENDS Library, WellFoundedInduction, TLAPS

-----------------------------------------------------------------------------
(***************************************************************************)
(* A set of natural numbers has a least member, so what holds of zero and  *)
(* of the successor of each number it holds of, holds of all of them, and  *)
(* a recursive definition has the function it describes.                   *)
(***************************************************************************)
LEMMA Less == IsWellFoundedOn({p \in Nat \X Nat : p[1] < p[2]}, Nat)
<1>1. OpToRel(<, Nat) = {p \in Nat \X Nat : p[1] < p[2]}
  BY Zenon DEF OpToRel
<1>2. QED
  BY <1>1, NatLessThanWellFounded, Zenon

LEMMA Least ==
    ASSUME NEW T \in SUBSET Nat, T # {}
    PROVE  \E n \in T : \A m \in T : n <= m
<1>. DEFINE R == {p \in Nat \X Nat : p[1] < p[2]}
<1>1. IsWellFoundedOn(R, Nat)
  BY Less
<1>2. \A x, y \in Nat : <<y, x>> \in R <=> y < x
  OBVIOUS
<1>. HIDE DEF R
<1>3. \E x \in T : \A y \in T : ~ (<<y, x>> \in R)
  BY <1>1, WFMin
<1>4. PICK x \in T : \A y \in T : ~ (<<y, x>> \in R)
  BY <1>3
<1>5. \A y \in T : x <= y
  <2>. TAKE y \in T
  <2>1. y \in Nat /\ x \in Nat  OBVIOUS
  <2>2. ~(y < x)  BY <1>2, <1>4, <2>1
  <2>3. QED  BY <2>1, <2>2
<1>6. QED  BY <1>5

LEMMA Induct ==
    ASSUME NEW T, 0 \in T, \A n \in Nat : n \in T => n + 1 \in T
    PROVE  \A n \in Nat : n \in T
<1>. SUFFICES ASSUME NEW m \in Nat, m \notin T  PROVE FALSE
  OBVIOUS
<1>. DEFINE Outside == Nat \ T
<1>1. Outside \in SUBSET Nat /\ Outside # {}
  OBVIOUS
<1>2. PICK n \in Outside : \A k \in Outside : n <= k
  <2>. HIDE DEF Outside
  <2>. QED  BY <1>1, Least
<1>3. n \in Nat /\ n # 0 /\ n - 1 \in Nat
  OBVIOUS
<1>4. n - 1 \in T
  <2>1. CASE n - 1 \in Outside
    <3>1. n <= n - 1  BY <1>2, <2>1
    <3>2. QED  BY <1>3, <3>1
  <2>2. QED  BY <1>3, <2>1
<1>5. (n - 1) + 1 = n
  BY <1>3
<1>6. n \in T
  BY <1>3, <1>4, <1>5
<1>7. QED  BY <1>6

\* A recursive definition on the natural numbers defines a function.
Follows(f, S, z, h) ==
    f \in [Nat -> S] /\ f[0] = z /\ \A n \in Nat : f[n + 1] = h[n][f[n]]

LEMMA Recursion ==
    ASSUME NEW S, NEW z \in S, NEW h \in [Nat -> [S -> S]]
    PROVE  \E f : Follows(f, S, z, h)
<1>. DEFINE Starts(n, g) == /\ g \in [0 .. n -> S] /\ g[0] = z
                            /\ \A i \in 0 .. n - 1 : g[i + 1] = h[i][g[i]]
<1>1. \A n \in Nat : \E g : Starts(n, g)
  <2>. DEFINE T == {n \in Nat : \E g : Starts(n, g)}
  <2>1. 0 \in T
    <3>1. Starts(0, [i \in 0 .. 0 |-> z])  OBVIOUS
    <3>2. QED  BY <3>1
  <2>2. ASSUME NEW n \in Nat, n \in T  PROVE n + 1 \in T
    <3>1. PICK g : Starts(n, g)  BY <2>2
    <3>. DEFINE k == [i \in 0 .. n + 1 |-> IF i = n + 1 THEN h[n][g[n]] ELSE g[i]]
    <3>2. g[n] \in S /\ h[n][g[n]] \in S  BY <3>1
    <3>3. k \in [0 .. n + 1 -> S]  BY <3>1, <3>2
    <3>4. k[0] = z  BY <3>1
    <3>5. ASSUME NEW i \in 0 .. (n + 1) - 1  PROVE k[i + 1] = h[i][k[i]]
      <4>1. k[i] = g[i]  OBVIOUS
      <4>2. CASE i = n  BY <4>1, <4>2
      <4>3. CASE i # n
        <5>1. i \in 0 .. n - 1 /\ i + 1 \in 0 .. n + 1 /\ i + 1 # n + 1  BY <4>3
        <5>2. g[i + 1] = h[i][g[i]]  BY <3>1, <5>1
        <5>3. k[i + 1] = g[i + 1]  BY <5>1
        <5>4. QED  BY <4>1, <5>2, <5>3
      <4>4. QED  BY <4>2, <4>3
    <3>6. Starts(n + 1, k)
      <4>. HIDE DEF k
      <4>. QED  BY <3>3, <3>4, <3>5
    <3>7. \E f : Starts(n + 1, f)
      <4>. HIDE DEF Starts
      <4>. QED  BY <3>6
    <3>. HIDE DEF Starts
    <3>. QED  BY <3>7
  <2>3. \A n \in Nat : n \in T
    <3>. HIDE DEF T
    <3>. QED  BY <2>1, <2>2, Induct
  <2>. QED  BY <2>3
<1>2. ASSUME NEW n \in Nat, NEW m \in Nat, n <= m, NEW g, NEW k, Starts(n, g), Starts(m, k)
      PROVE  g[n] = k[n]
  <2>. DEFINE T == {i \in Nat : i <= n => g[i] = k[i]}
  <2>1. 0 \in T  BY <1>2
  <2>2. ASSUME NEW i \in Nat, i \in T  PROVE i + 1 \in T
    <3>. SUFFICES ASSUME i + 1 <= n  PROVE g[i + 1] = k[i + 1]
      OBVIOUS
    <3>1. i \in 0 .. n - 1 /\ i \in 0 .. m - 1 /\ i <= n  BY <1>2
    <3>2. g[i] = k[i]  BY <2>2, <3>1
    <3>3. g[i + 1] = h[i][g[i]] /\ k[i + 1] = h[i][k[i]]  BY <1>2, <3>1
    <3>. QED  BY <3>2, <3>3
  <2>3. \A i \in Nat : i \in T
    <3>. HIDE DEF T
    <3>. QED  BY <2>1, <2>2, Induct
  <2>. QED  BY <2>3
<1>. DEFINE f == [n \in Nat |-> (CHOOSE g : Starts(n, g))[n]]
<1>3. \A n \in Nat : Starts(n, CHOOSE g : Starts(n, g))
  <2>. HIDE DEF Starts
  <2>. QED  BY <1>1
<1>4. f \in [Nat -> S]
  <2>1. \A n \in Nat : (CHOOSE g : Starts(n, g))[n] \in S
    <3>. TAKE n \in Nat
    <3>. DEFINE g == CHOOSE g : Starts(n, g)
    <3>1. Starts(n, g)  BY <1>3
    <3>. HIDE DEF g
    <3>2. g[n] \in S  BY <3>1
    <3>. QED  BY <3>2 DEF g
  <2>. QED  BY <2>1
<1>5. f[0] = z
  <2>. DEFINE g == CHOOSE g : Starts(0, g)
  <2>1. Starts(0, g)  BY <1>3
  <2>. HIDE DEF g
  <2>2. g[0] = z  BY <2>1
  <2>. QED  BY <2>2 DEF g
<1>6. ASSUME NEW n \in Nat  PROVE f[n + 1] = h[n][f[n]]
  <2>. DEFINE g == CHOOSE g : Starts(n, g)
              k == CHOOSE k : Starts(n + 1, k)
  <2>1. Starts(n, g) /\ Starts(n + 1, k)  
    <3>1. n + 1 \in Nat OBVIOUS
    <3>. HIDE DEF Starts
    <3>. QED BY <1>3, <3>1
  <2>2. f[n] = g[n] /\ f[n + 1] = k[n + 1]  OBVIOUS
  <2>. HIDE DEF g, k, f
  <2>3. k[n + 1] = h[n][k[n]]  BY <2>1
  <2>4. g[n] = k[n]
    <3>1. n + 1 \in Nat /\ n <= n + 1  OBVIOUS
    <3>. HIDE DEF Starts
    <3>. QED  BY <1>2, <2>1, <3>1
  <2>. QED  BY <2>2, <2>3, <2>4
<1>7. Follows(f, S, z, h)
  <2>. HIDE DEF f
  <2>. QED  BY <1>4, <1>5, <1>6 DEF Follows
<1>. HIDE DEF f
<1>. QED  BY <1>7

LEMMA RestOf ==
    ASSUME NEW n \in Nat, NEW c \in Nat \ {0}
    PROVE  /\ Rest(n, c) \in [Nat -> Nat]
           /\ Rest(n, c)[0] = n
           /\ \A i \in Nat : Rest(n, c)[i + 1] = Rest(n, c)[i] \div c
<1>. DEFINE h == [i \in Nat |-> [x \in Nat |-> x \div c]]
<1>1. h \in [Nat -> [Nat -> Nat]]
  OBVIOUS
<1>2. PICK f \in [Nat -> Nat] : f[0] = n /\ \A i \in Nat : f[i + 1] = h[i][f[i]]
  <2>. DEFINE S == Nat
              z == n
  <2>1. z \in S /\ h \in [Nat -> [S -> S]]
    BY <1>1
  <2>2. PICK f : Follows(f, S, z, h)
    <3>. HIDE DEF S, h, z
    <3>. QED  BY <2>1, Recursion
  <2>. QED  BY <2>2 DEF Follows
<1>. DEFINE Solves(g) == g = [i \in Nat |-> IF i = 0 THEN n ELSE g[i - 1] \div c]
<1>4. Solves(f)
  <2>1. \A i \in Nat : f[i] = IF i = 0 THEN n ELSE f[i - 1] \div c
    <3>. TAKE i \in Nat
    <3>1. CASE i # 0
      <4>1. i - 1 \in Nat /\ (i - 1) + 1 = i  BY <3>1
      <4>2. f[(i - 1) + 1] = h[i - 1][f[i - 1]]  BY <1>2, <4>1
      <4>3. f[i - 1] \in Nat  BY <4>1
      <4>4. h[i - 1][f[i - 1]] = f[i - 1] \div c  BY <4>1, <4>3
      <4>. QED  BY <4>1, <4>2, <4>4, <3>1
    <3>. QED  BY <1>2, <3>1
  <2>. QED  BY <2>1
<1>. DEFINE g == CHOOSE g : Solves(g)
<1>5. g = Rest(n, c)
  BY DEF Rest
<1>6. Solves(g)
  <2>. HIDE DEF Solves
  <2>. QED  BY <1>4
<1>. HIDE DEF g
<1>7. g[0] = n /\ \A i \in Nat : g[i + 1] = g[i] \div c
  BY <1>6
<1>8. \A i \in Nat : i \in {j \in Nat : g[j] \in Nat}
  <2>1. 0 \in {j \in Nat : g[j] \in Nat}
    BY <1>7
  <2>2. ASSUME NEW i \in Nat, i \in {j \in Nat : g[j] \in Nat}
        PROVE  i + 1 \in {j \in Nat : g[j] \in Nat}
    <3>1. g[i] \in Nat /\ g[i + 1] = g[i] \div c  BY <1>7, <2>2
    <3>2. g[i] \div c \in Nat  BY <3>1
    <3>. QED  BY <3>1, <3>2
  <2>. QED  BY <2>1, <2>2, Induct
<1>. QED  BY <1>5, <1>6, <1>7, <1>8

-----------------------------------------------------------------------------
USE LibraryAssumption

CallFixed == call \in Calls /\ entry \in [Addr -> Byte] /\ Legal

LEMMA CallInit == LibraryInit => CallFixed
<1>. SUFFICES ASSUME LibraryInit PROVE CallFixed  OBVIOUS
<1>1. PICK routine \in Routines, dest \in Addr :
          \E src \in Sources(routine), n \in Numbers(routine), c \in Parameters(routine) :
              call = [routine |-> routine, dest |-> dest, src |-> src, n |-> n, c |-> c]
  BY DEF LibraryInit
<1>2. PICK src \in Sources(routine), n \in Numbers(routine), c \in Parameters(routine) :
          call = [routine |-> routine, dest |-> dest, src |-> src, n |-> n, c |-> c]
  BY <1>1
<1>3. SIZE \in Nat /\ 0 \in Addr
  BY <1>1 DEF Addr
<1>4. src \in Addr
  BY <1>3 DEF Sources
<1>5. n \in Nat
  BY <1>3 DEF Numbers
<1>6. c \in Nat
  BY DEF Parameters, Byte, Radixes
<1>7. call \in Calls
  BY <1>2, <1>4, <1>5, <1>6 DEF Calls
<1>8. QED
  BY <1>7 DEF LibraryInit, CallFixed

LEMMA CallStep == CallFixed /\ [LibraryNext]_libraryVars => CallFixed' /\ UNCHANGED <<call, entry>>
<1>. SUFFICES ASSUME CallFixed, [LibraryNext]_libraryVars
              PROVE  CallFixed' /\ UNCHANGED <<call, entry>>
  OBVIOUS
<1>1. UNCHANGED <<call, entry>>
  BY DEF LibraryNext, Top, Words, Bottom, Move, Strcpy, ece391_strcpy, Strncpy, Pad, Strncmp,
         ZeroLength, Compare, Zero, Digits, Strlen, Swap, Unchanged, libraryVars
<1>2. QED
  BY <1>1 DEF CallFixed, Legal, Fits, Upwards, Length, Terminated

-----------------------------------------------------------------------------
(***************************************************************************)
(* memset, memcpy and memmove.  The loop invariant: what is left to do is  *)
(* known from the registers, and exactly the rest has been written, from   *)
(* the lower or from the upper end.                                        *)
(***************************************************************************)
Pcs == {"top", "words", "bottom", "move", "strncmp", "zero length", "compare", "done"}

Registers ==
    [pc : Pcs, di : Int, si : Int, cx : Nat, dx : Nat, step : {1, -1}, result : Int]

Record(pc, di, si, cx, dx, step, result) ==
    [pc |-> pc, di |-> di, si |-> si, cx |-> cx, dx |-> dx, step |-> step, result |-> result]

LEMMA InPcs ==
    /\ "top" \in Pcs /\ "words" \in Pcs /\ "bottom" \in Pcs /\ "move" \in Pcs
    /\ "compare" \in Pcs /\ "strncmp" \in Pcs /\ "done" \in Pcs /\ 0 \in Int
BY DEF Pcs

LEMMA RecordType ==
    ASSUME NEW q, NEW pc \in Pcs, NEW di \in Int, NEW si \in Int, NEW cx \in Nat,
           NEW dx \in Nat, NEW step \in {1, -1}, NEW result \in Int,
           q = Record(pc, di, si, cx, dx, step, result)
    PROVE  q \in Registers
BY DEF Record, Registers

LEMMA RecordOf ==
    ASSUME NEW q \in Registers
    PROVE  /\ q = Record(q.pc, q.di, q.si, q.cx, q.dx, q.step, q.result)
           /\ q.pc \in Pcs /\ q.di \in Int /\ q.si \in Int /\ q.cx \in Nat /\ q.dx \in Nat
           /\ q.step \in {1, -1} /\ q.result \in Int
BY DEF Record, Registers

Left ==
    IF r.pc \in {"top", "move"} THEN r.cx
    ELSE IF r.pc = "words" THEN WORD * r.cx + r.dx
    ELSE IF r.pc = "bottom" THEN r.dx
    ELSE 0

\* What belongs at a place of the block.
Wanted(i) == IF call.routine = "memset" THEN call.c ELSE entry[call.src + i]

\* The places low .. high - 1 of the block have been written, and nothing else.
Written(m, low, high) ==
    \A a \in Addr : m[a] = IF a - call.dest \in low .. high - 1
                           THEN Wanted(a - call.dest) ELSE entry[a]

Upward ==
    /\ r.step = 1
    /\ r.di = call.dest + (call.n - Left) /\ r.si = call.src + (call.n - Left)
    /\ Written(mem, 0, call.n - Left)
    /\ call.routine = "memset" \/ Upwards(call.n)

Downward ==
    /\ r.pc = "move" /\ r.step = -1
    /\ r.di = call.dest + Left - 1 /\ r.si = call.src + Left - 1
    /\ Written(mem, Left, call.n)
    /\ call.src < call.dest

BlockInv ==
    call.routine \in Blocks =>
        /\ r \in Registers /\ r.pc \in {"top", "words", "bottom", "move", "done"}
        /\ mem \in [Addr -> Byte]
        /\ Left \in 0 .. call.n
        /\ r.pc = "move" => call.routine = "memmove"
        /\ IF r.pc = "done" THEN Written(mem, 0, call.n) ELSE Upward \/ Downward

LEMMA BlockLegal ==
    ASSUME CallFixed, call.routine \in Blocks
    PROVE  /\ call.dest \in Nat /\ call.src \in Nat /\ call.n \in Nat
           /\ call.dest + call.n <= SIZE
           /\ call.routine = "memset" => call.c \in Byte
           /\ call.routine # "memset" => call.src + call.n <= SIZE
           /\ call.routine = "memcpy" => Upwards(call.n)
<1>1. /\ call.dest \in Nat /\ call.src \in Nat /\ call.n \in Nat
  BY DEF CallFixed, Calls, Addr
<1>2. CASE call.routine = "memset"
  <2>1. Fits(call.dest, call.n) /\ call.c \in Byte
    BY <1>2 DEF CallFixed, Legal
  <2>2. QED  BY <1>1, <1>2, <2>1 DEF Fits
<1>3. CASE call.routine = "memcpy"
  <2>1. Fits(call.dest, call.n) /\ Fits(call.src, call.n) /\ Upwards(call.n)
    BY <1>3 DEF CallFixed, Legal
  <2>2. QED  BY <1>1, <1>3, <2>1 DEF Fits
<1>4. CASE call.routine = "memmove"
  <2>1. Fits(call.dest, call.n) /\ Fits(call.src, call.n)
    BY <1>4 DEF CallFixed, Legal
  <2>2. QED  BY <1>1, <1>4, <2>1 DEF Fits
<1>5. QED
  BY <1>2, <1>3, <1>4 DEF Blocks

\* A routine that goes upwards stores count more bytes, which it reads where no
\* byte has been stored.
LEMMA StoreUp ==
    ASSUME CallFixed, call.routine \in Blocks, mem \in [Addr -> Byte],
           NEW k \in Nat, NEW count \in Nat, k + count <= call.n,
           r.di = call.dest + k, r.si = call.src + k,
           Written(mem, 0, k), call.routine = "memset" \/ Upwards(call.n),
           mem' = [a \in Addr |-> IF a - r.di \in 0 .. count - 1 THEN Stored(a - r.di)
                                                                 ELSE mem[a]]
    PROVE  mem' \in [Addr -> Byte] /\ Written(mem', 0, k + count)
<1>. SUFFICES ASSUME NEW a \in Addr
              PROVE  /\ mem'[a] \in Byte
                     /\ mem'[a] = IF a - call.dest \in 0 .. k + count - 1
                                  THEN Wanted(a - call.dest) ELSE entry[a]
  BY DEF Written
<1>1. /\ call.dest \in Nat /\ call.src \in Nat /\ call.n \in Nat /\ a \in Nat
      /\ call.dest + call.n <= SIZE /\ SIZE \in Nat
  BY BlockLegal DEF Addr
<1>2. CASE a - r.di \in 0 .. count - 1
  <2>1. a - call.dest \in k .. k + count - 1 /\ a - r.di = a - call.dest - k
    BY <1>1, <1>2
  <2>2. mem'[a] = Stored(a - r.di)
    BY <1>2
  <2>3. CASE call.routine = "memset"
    BY <1>1, <2>1, <2>2, <2>3, BlockLegal DEF Stored, Wanted
  <2>4. CASE call.routine # "memset"
    <3>1. r.si + (a - r.di) = call.src + (a - call.dest)
      BY <1>1, <2>1
    <3>2. call.src + (a - call.dest) \in Addr
      <4>1. call.src + call.n <= SIZE  BY <2>4, BlockLegal
      <4>2. a - call.dest \in 0 .. call.n - 1  BY <1>1, <2>1
      <4>3. \A i \in 0 .. call.n - 1 : call.src + i \in Addr
        BY <1>1, <4>1 DEF Addr
      <4>4. QED  BY <4>2, <4>3
    <3>3. call.src + (a - call.dest) - call.dest \notin 0 .. k - 1
      BY <1>1, <2>1, <2>4 DEF Upwards
    <3>4. mem[call.src + (a - call.dest)] = entry[call.src + (a - call.dest)]
      <4>1. PICK b \in Addr : b = call.src + (a - call.dest) /\ b - call.dest \notin 0 .. k - 1
        BY <1>1, <3>2, <3>3
      <4>2. mem[b] = entry[b]  BY <4>1 DEF Written
      <4>3. QED  BY <4>1, <4>2
    <3>5. QED
      BY <1>1, <2>1, <2>2, <2>4, <3>1, <3>2, <3>4 DEF Stored, Wanted
  <2>5. QED  BY <2>3, <2>4
<1>3. CASE a - r.di \notin 0 .. count - 1
  <2>1. mem'[a] = mem[a]
    BY <1>3
  <2>2. a - call.dest \in 0 .. k - 1 <=> a - call.dest \in 0 .. k + count - 1
    BY <1>1, <1>3
  <2>3. QED
    BY <2>1, <2>2 DEF Written
<1>4. QED  BY <1>2, <1>3

LEMMA StoreOne ==
    ASSUME mem \in [Addr -> Byte], NEW byte, NEW i \in Int, Store(i, byte)
    PROVE  mem' = [a \in Addr |-> IF a - i \in 0 .. 1 - 1 THEN byte ELSE mem[a]]
<1>1. \A a \in Addr : a - i \in 0 .. 1 - 1 <=> a = i
  BY DEF Addr
<1>2. QED
  BY <1>1 DEF Store

LEMMA WordCount ==
    ASSUME NEW w \in Nat, NEW words \in Nat \ {0}
    PROVE  /\ w * words = w * (words - 1) + w
           /\ w * (words - 1) \in Nat
OBVIOUS

LEMMA DivMod ==
    ASSUME NEW w \in Nat \ {0}, NEW x \in Nat
    PROVE  /\ x \div w \in Nat /\ x % w \in Nat
           /\ w * (x \div w) + (x % w) = x
OBVIOUS

LEMMA BlockInit == LibraryInit => BlockInv
<1>. SUFFICES ASSUME LibraryInit, call.routine \in Blocks
              PROVE  BlockInv
  BY DEF BlockInv
<1>1. CallFixed /\ mem = entry /\ r = Enter /\ mem \in [Addr -> Byte]
  BY CallInit DEF LibraryInit
<1>2. /\ call.dest \in Nat /\ call.src \in Nat /\ call.n \in Nat
      /\ call.routine = "memcpy" => Upwards(call.n)
  BY <1>1, BlockLegal
<1>3. Written(mem, 0, 0) /\ Written(mem, call.n, call.n)
  BY <1>1, <1>2 DEF Written, Addr
<1>4. CASE call.routine \in {"memset", "memcpy"}
  <2>1. r = [pc |-> "top", di |-> call.dest, si |-> call.src, cx |-> call.n, dx |-> 0,
             step |-> 1, result |-> 0]
    BY <1>1, <1>4 DEF Enter, Locals, Copies
  <2>2. /\ r \in Registers
        /\ Left = call.n
    BY <1>2, <2>1 DEF Registers, Left, Pcs
  <2>3. Upward
    BY <1>2, <1>3, <1>4, <2>1, <2>2 DEF Upward
  <2>4. QED
    BY <1>1, <1>2, <2>1, <2>2, <2>3 DEF BlockInv
<1>5. CASE call.routine = "memmove" /\ ~Downwards
  <2>1. r = [pc |-> "move", di |-> call.dest, si |-> call.src, cx |-> call.n, dx |-> 0,
             step |-> 1, result |-> 0]
    <3>1. Enter = EnterMove  BY <1>5 DEF Enter, Copies
    <3>2. QED  BY <1>1, <1>5, <3>1 DEF EnterMove, Locals
  <2>2. /\ r \in Registers
        /\ Left = call.n
    BY <1>2, <2>1 DEF Registers, Left, Pcs
  <2>3. Upwards(call.n)
    BY <1>2, <1>5 DEF Downwards, Upwards
  <2>4. Upward
    BY <1>2, <1>3, <2>1, <2>2, <2>3 DEF Upward
  <2>5. QED
    BY <1>1, <1>2, <1>5, <2>1, <2>2, <2>4 DEF BlockInv
<1>6. CASE call.routine = "memmove" /\ Downwards
  <2>1. r = [pc |-> "move", di |-> call.dest + call.n - 1, si |-> call.src + call.n - 1,
             cx |-> call.n, dx |-> 0, step |-> -1, result |-> 0]
    <3>1. Enter = EnterMove  BY <1>6 DEF Enter, Copies
    <3>2. EnterMove = [pc |-> "move", di |-> call.dest + call.n - 1, si |-> call.src + call.n - 1,
             cx |-> call.n, dx |-> 0, step |-> -1, result |-> 0]
      BY <1>2, <1>6 DEF EnterMove, Locals
    <3>3. QED  BY <1>1, <3>1, <3>2
  <2>2. /\ r \in Registers
        /\ Left = call.n
    BY <1>2, <2>1 DEF Registers, Left, Pcs
  <2>3. Downward
    BY <1>2, <1>3, <1>6, <2>1, <2>2 DEF Downward, Downwards
  <2>4. QED
    BY <1>1, <1>2, <1>6, <2>1, <2>2, <2>3 DEF BlockInv
<1>7. QED
  BY <1>4, <1>5, <1>6 DEF Blocks

LEMMA BlockStep ==
    CallFixed /\ BlockInv /\ [LibraryNext]_libraryVars => BlockInv'
<1>. SUFFICES ASSUME CallFixed, BlockInv, [LibraryNext]_libraryVars, call.routine \in Blocks
              PROVE  BlockInv'
  BY CallStep DEF BlockInv
<1>. DEFINE BlockPcs == {"top", "words", "bottom", "move", "done"}
<1>1. call' = call /\ entry' = entry
  BY CallStep
<1>2. /\ call.dest \in Nat /\ call.src \in Nat /\ call.n \in Nat
      /\ call.dest + call.n <= SIZE
      /\ call.routine # "memset" => call.src + call.n <= SIZE
  BY BlockLegal
<1>3. /\ r \in Registers /\ r.pc \in BlockPcs /\ mem \in [Addr -> Byte] /\ Left \in 0 .. call.n
      /\ r.pc = "move" => call.routine = "memmove"
      /\ IF r.pc = "done" THEN Written(mem, 0, call.n) ELSE Upward \/ Downward
  BY DEF BlockInv
<1>4. /\ r.di \in Int /\ r.si \in Int /\ r.cx \in Nat /\ r.dx \in Nat
      /\ r.step \in {1, -1} /\ r.pc \in BlockPcs /\ r.pc \in Pcs /\ r.result \in Int
      /\ r = Record(r.pc, r.di, r.si, r.cx, r.dx, r.step, r.result)
  BY <1>3, RecordOf
\* One step upwards that leaves left bytes to do.
<1>5. ASSUME NEW left \in 0 .. Left, Upward, r.pc # "done",
             r' \in Registers, r'.pc \in BlockPcs, Left' = left, r'.step = 1, r'.pc = "move" => r.pc = "move",
             r'.di = r.di + (Left - left), r'.si = r.si + (Left - left),
             mem' = [a \in Addr |-> IF a - r.di \in 0 .. (Left - left) - 1
                                    THEN Stored(a - r.di) ELSE mem[a]]
      PROVE  BlockInv'
  <2>. DEFINE k == call.n - Left
              count == Left - left
  <2>1. k \in Nat /\ count \in Nat /\ k + count = call.n - left /\ k + count <= call.n
    BY <1>2, <1>3, <1>5
  <2>2. r.di = call.dest + k /\ r.si = call.src + k /\ Written(mem, 0, k)
        /\ (call.routine = "memset" \/ Upwards(call.n))
    BY <1>5 DEF Upward
  <2>3. mem' = [a \in Addr |-> IF a - r.di \in 0 .. count - 1 THEN Stored(a - r.di)
                                                              ELSE mem[a]]
    BY <1>5
  <2>4. r'.di = call.dest + (k + count) /\ r'.si = call.src + (k + count)
    BY <1>2, <1>5, <2>1, <2>2
  <2>. HIDE DEF k, count
  <2>5. mem' \in [Addr -> Byte] /\ Written(mem', 0, k + count)
    BY <1>3, <2>1, <2>2, <2>3, StoreUp
  <2>6. Written(mem, 0, call.n - Left)'
    BY <1>1, <1>5, <2>1, <2>5 DEF Written, Wanted
  <2>7. Upward' /\ (r'.pc = "done" => left = 0)
    BY <1>1, <1>4, <1>5, <2>1, <2>2, <2>4, <2>6 DEF Upward, Upwards, Left
  <2>8. left \in 0 .. call.n
    BY <1>2, <1>3
  <2>9. QED
    <3>1. r'.pc = "done" => Written(mem, 0, call.n)'
      <4>1. left = 0 => call.n - left = call.n  BY <1>2
      <4>2. Written(mem', 0, call.n - left) /\ k + count = call.n - left
        BY <2>1, <2>5
      <4>3. QED  BY <1>1, <2>7, <4>1, <4>2 DEF Written, Wanted
    <3>2. QED
      BY <1>1, <1>3, <1>5, <2>5, <2>7, <2>8, <3>1 DEF BlockInv
<1>6. CASE Top
  <2>1. r.pc = "top" /\ Left = r.cx /\ Upward
    BY <1>3, <1>6 DEF Top, At, Left, Downward
  <2>2. CASE r.cx = 0
    <3>1. /\ r' = [r EXCEPT !.pc = "done", !.result = 0] /\ mem' = mem
      BY <1>6, <2>2 DEF Top, Returns
    <3>2. /\ r' \in Registers /\ r'.pc = "done" /\ r'.step = r.step /\ r'.di = r.di
          /\ r'.si = r.si
      <4>1. r' = Record("done", r.di, r.si, r.cx, r.dx, r.step, 0)
        BY <1>4, <3>1 DEF Record
      <4>2. r' \in Registers
        BY <1>4, <4>1, InPcs, RecordType
      <4>3. QED  BY <1>4, <4>1, <4>2 DEF Record
    <3>3. Left' = 0
      BY <3>2 DEF Left
    <3>4. mem' = [a \in Addr |-> IF a - r.di \in 0 .. (Left - 0) - 1
                                 THEN Stored(a - r.di) ELSE mem[a]]
      BY <1>3, <2>1, <2>2, <3>1
    <3>5. QED
      BY <1>2, <1>3, <1>4, <1>5, <2>1, <2>2, <3>2, <3>3, <3>4 DEF Upward
  <2>3. CASE r.cx > 0 /\ r.di % WORD # 0
    <3>1. /\ r' = [r EXCEPT !.di = r.di + 1, !.si = r.si + 1, !.cx = r.cx - 1]
          /\ Store(r.di, Stored(0))
      BY <1>4, <1>6, <2>3 DEF Top
    <3>2. /\ r' \in Registers /\ r'.pc = "top" /\ r'.step = r.step
          /\ r'.di = r.di + 1 /\ r'.si = r.si + 1 /\ r'.cx = r.cx - 1
      <4>1. r' = Record("top", r.di + 1, r.si + 1, r.cx - 1, r.dx, r.step, r.result)
        BY <1>4, <2>1, <3>1 DEF Record
      <4>2. r.di + 1 \in Int /\ r.si + 1 \in Int /\ r.cx - 1 \in Nat
        BY <1>4, <2>1, <2>3
      <4>3. r' \in Registers
        BY <1>4, <4>1, <4>2, InPcs, RecordType
      <4>4. QED  BY <1>4, <4>1, <4>3 DEF Record
    <3>3. Left' = Left - 1 /\ Left - 1 \in 0 .. Left /\ Left - (Left - 1) = 1
      BY <1>4, <2>1, <2>3, <3>2 DEF Left
    <3>4. mem' = [a \in Addr |-> IF a - r.di \in 0 .. 1 - 1 THEN Stored(0) ELSE mem[a]]
      BY <1>3, <1>4, <3>1, StoreOne
    <3>5. \A a \in Addr : a - r.di \in 0 .. 1 - 1 => a - r.di = 0
      BY <1>4 DEF Addr
    <3>6. mem' = [a \in Addr |-> IF a - r.di \in 0 .. 1 - 1 THEN Stored(a - r.di) ELSE mem[a]]
      BY <3>4, <3>5
    <3>7. QED
      BY <1>5, <2>1, <3>2, <3>3, <3>6 DEF Upward
  <2>4. CASE r.cx > 0 /\ r.di % WORD = 0
    <3>1. /\ r' = [r EXCEPT !.pc = "words", !.cx = r.cx \div WORD, !.dx = r.cx % WORD]
          /\ mem' = mem
      BY <1>4, <1>6, <2>4 DEF Top
    <3>2. /\ r.cx \div WORD \in Nat /\ r.cx % WORD \in Nat
          /\ WORD * (r.cx \div WORD) + (r.cx % WORD) = r.cx
      BY <1>4, DivMod DEF LibraryAssumption
    <3>3. /\ r' \in Registers /\ r'.pc = "words" /\ r'.step = r.step
          /\ r'.di = r.di /\ r'.si = r.si /\ r'.cx = r.cx \div WORD /\ r'.dx = r.cx % WORD
      <4>1. r' = Record("words", r.di, r.si, r.cx \div WORD, r.cx % WORD, r.step, r.result)
        BY <1>4, <3>1 DEF Record
      <4>2. r.cx \div WORD \in Nat /\ r.cx % WORD \in Nat
        BY <1>4, <2>1, <3>2
      <4>3. r' \in Registers
        BY <1>4, <4>1, <4>2, InPcs, RecordType
      <4>4. QED  BY <1>4, <4>1, <4>3 DEF Record
    <3>4. Left' = Left
      BY <2>1, <3>2, <3>3 DEF Left
    <3>5. Upward'
      BY <1>1, <2>1, <3>1, <3>3, <3>4 DEF Upward, Upwards, Written, Wanted
    <3>6. QED
      BY <1>1, <1>3, <3>1, <3>3, <3>4, <3>5 DEF BlockInv
  <2>5. QED
    BY <1>4, <1>6, <2>2, <2>3, <2>4 DEF Top
<1>7. CASE Words
  <2>1. r.pc = "words" /\ Left = WORD * r.cx + r.dx /\ Upward
    BY <1>3, <1>7 DEF Words, At, Left, Downward
  <2>2. CASE r.cx = 0
    <3>1. r' = [r EXCEPT !.pc = "bottom"] /\ mem' = mem
      BY <1>7, <2>2 DEF Words, Goto
    <3>2. /\ r' \in Registers /\ r'.pc = "bottom" /\ r'.step = r.step
          /\ r'.di = r.di /\ r'.si = r.si /\ r'.dx = r.dx
      <4>1. r' = Record("bottom", r.di, r.si, r.cx, r.dx, r.step, r.result)
        BY <1>4, <3>1 DEF Record
      <4>2. r' \in Registers
        BY <1>4, <4>1, InPcs, RecordType
      <4>3. QED  BY <1>4, <4>1, <4>2 DEF Record
    <3>3. Left' = Left
      <4>1. Left = r.dx
        BY <1>4, <2>1, <2>2 DEF LibraryAssumption
      <4>2. QED  BY <3>2, <4>1 DEF Left
    <3>4. Upward'
      BY <1>1, <2>1, <3>1, <3>2, <3>3 DEF Upward, Upwards, Written, Wanted
    <3>5. QED
      BY <1>1, <1>3, <3>1, <3>2, <3>3, <3>4 DEF BlockInv
  <2>3. CASE r.cx > 0
    <3>1. /\ r' = [r EXCEPT !.di = r.di + WORD, !.si = r.si + WORD, !.cx = r.cx - 1]
          /\ mem' = [a \in Addr |-> IF a - r.di \in 0 .. WORD - 1 THEN Stored(a - r.di)
                                                                ELSE mem[a]]
      BY <1>4, <1>7, <2>3 DEF Words
    <3>2. WORD \in Nat
      BY DEF LibraryAssumption
    <3>3. /\ r' \in Registers /\ r'.pc = "words" /\ r'.step = r.step
          /\ r'.di = r.di + WORD /\ r'.si = r.si + WORD
          /\ r'.cx = r.cx - 1 /\ r'.dx = r.dx
      <4>1. r' = Record("words", r.di + WORD, r.si + WORD, r.cx - 1, r.dx, r.step, r.result)
        BY <1>4, <2>1, <3>1 DEF Record
      <4>2. r.di + WORD \in Int /\ r.si + WORD \in Int /\ r.cx - 1 \in Nat
        BY <1>4, <2>1, <2>3, <3>2
      <4>3. r' \in Registers
        BY <1>4, <4>1, <4>2, InPcs, RecordType
      <4>4. QED  BY <1>4, <4>1, <4>3 DEF Record
    <3>4. /\ WORD * r.cx = WORD * (r.cx - 1) + WORD
          /\ WORD * (r.cx - 1) \in Nat
      BY <1>4, <2>3, <3>2, WordCount
    <3>5. Left' = Left - WORD /\ Left - WORD \in 0 .. Left /\ Left - (Left - WORD) = WORD
      <4>1. Left' = WORD * (r.cx - 1) + r.dx
        BY <3>3 DEF Left
      <4>. DEFINE rest == WORD * (r.cx - 1)
      <4>2. rest \in Nat /\ Left = rest + WORD + r.dx /\ Left' = rest + r.dx
        BY <2>1, <3>4, <4>1
      <4>. HIDE DEF rest
      <4>3. QED  BY <1>4, <3>2, <4>2
    <3>6. QED
      BY <1>5, <2>1, <3>1, <3>3, <3>5 DEF Upward
  <2>4. QED
    BY <1>4, <2>2, <2>3
<1>8. CASE Bottom
  <2>1. r.pc = "bottom" /\ Left = r.dx /\ Upward
    BY <1>3, <1>8 DEF Bottom, At, Left, Downward
  <2>2. CASE r.dx = 0
    <3>1. /\ r' = [r EXCEPT !.pc = "done", !.result = 0] /\ mem' = mem
      BY <1>8, <2>2 DEF Bottom, Returns
    <3>2. /\ r' \in Registers /\ r'.pc = "done" /\ r'.step = r.step /\ r'.di = r.di
          /\ r'.si = r.si
      <4>1. r' = Record("done", r.di, r.si, r.cx, r.dx, r.step, 0)
        BY <1>4, <3>1 DEF Record
      <4>2. r' \in Registers
        BY <1>4, <4>1, InPcs, RecordType
      <4>3. QED  BY <1>4, <4>1, <4>2 DEF Record
    <3>3. Left' = Left
      BY <2>1, <2>2, <3>2 DEF Left
    <3>4. Upward'
      BY <1>1, <2>1, <3>1, <3>2, <3>3 DEF Upward, Upwards, Written, Wanted
    <3>5. QED
      <4>1. Left = 0 /\ call.n - 0 = call.n  BY <1>2, <2>1, <2>2
      <4>2. Written(mem, 0, call.n)'  BY <1>1, <3>3, <3>4, <4>1 DEF Upward
      <4>3. QED
        BY <1>1, <1>3, <3>1, <3>2, <3>3, <4>2 DEF BlockInv
  <2>3. CASE r.dx > 0
    <3>1. /\ r' = [r EXCEPT !.di = r.di + 1, !.si = r.si + 1, !.dx = r.dx - 1]
          /\ Store(r.di, Stored(0))
      BY <1>4, <1>8, <2>3 DEF Bottom
    <3>2. /\ r' \in Registers /\ r'.pc = "bottom" /\ r'.step = r.step
          /\ r'.di = r.di + 1 /\ r'.si = r.si + 1 /\ r'.dx = r.dx - 1
      <4>1. r' = Record("bottom", r.di + 1, r.si + 1, r.cx, r.dx - 1, r.step, r.result)
        BY <1>4, <2>1, <3>1 DEF Record
      <4>2. r.di + 1 \in Int /\ r.si + 1 \in Int /\ r.dx - 1 \in Nat
        BY <1>4, <2>1, <2>3
      <4>3. r' \in Registers
        BY <1>4, <4>1, <4>2, InPcs, RecordType
      <4>4. QED  BY <1>4, <4>1, <4>3 DEF Record
    <3>3. Left' = Left - 1 /\ Left - 1 \in 0 .. Left /\ Left - (Left - 1) = 1
      BY <1>4, <2>1, <2>3, <3>2 DEF Left
    <3>4. mem' = [a \in Addr |-> IF a - r.di \in 0 .. 1 - 1 THEN Stored(0) ELSE mem[a]]
      BY <1>3, <1>4, <3>1, StoreOne
    <3>5. \A a \in Addr : a - r.di \in 0 .. 1 - 1 => a - r.di = 0
      BY <1>4 DEF Addr
    <3>6. mem' = [a \in Addr |-> IF a - r.di \in 0 .. 1 - 1 THEN Stored(a - r.di) ELSE mem[a]]
      BY <3>4, <3>5
    <3>7. QED
      BY <1>5, <2>1, <3>2, <3>3, <3>6 DEF Upward
  <2>4. QED
    BY <1>4, <2>2, <2>3
<1>9. CASE Move
  <2>1. r.pc = "move" /\ Left = r.cx /\ call.routine = "memmove"
    BY <1>3, <1>9 DEF Move, At, Left
  <2>2. CASE r.cx = 0
    <3>1. /\ r' = [r EXCEPT !.pc = "done", !.result = 0] /\ mem' = mem
      BY <1>9, <2>2 DEF Move, Returns
    <3>2. /\ r' \in Registers /\ r'.pc = "done"
      <4>1. r' = Record("done", r.di, r.si, r.cx, r.dx, r.step, 0)
        BY <1>4, <3>1 DEF Record
      <4>2. r' \in Registers
        BY <1>4, <4>1, InPcs, RecordType
      <4>3. QED  BY <1>4, <4>1, <4>2 DEF Record
    <3>3. Left' = 0 /\ Left = 0
      BY <2>1, <2>2, <3>2 DEF Left
    <3>4. Written(mem, 0, call.n)
      BY <1>2, <1>3, <3>3 DEF Upward, Downward
    <3>5. QED
      <4>1. Written(mem, 0, call.n)'
        BY <1>1, <3>1, <3>4 DEF Written, Wanted
      <4>2. QED
        BY <1>1, <1>2, <1>3, <3>1, <3>2, <3>3, <4>1 DEF BlockInv
  <2>3. CASE r.cx > 0 /\ Upward
    <3>1. /\ r' = [r EXCEPT !.di = r.di + 1, !.si = r.si + 1, !.cx = r.cx - 1]
          /\ Store(r.di, mem[r.si])
      BY <1>4, <1>9, <2>3 DEF Move, Upward
    <3>2. /\ r' \in Registers /\ r'.pc = "move" /\ r'.step = r.step
          /\ r'.di = r.di + 1 /\ r'.si = r.si + 1 /\ r'.cx = r.cx - 1
      <4>1. r' = Record("move", r.di + 1, r.si + 1, r.cx - 1, r.dx, r.step, r.result)
        BY <1>4, <2>1, <3>1 DEF Record
      <4>2. r.di + 1 \in Int /\ r.si + 1 \in Int /\ r.cx - 1 \in Nat
        BY <1>4, <2>1, <2>3
      <4>3. r' \in Registers
        BY <1>4, <4>1, <4>2, InPcs, RecordType
      <4>4. QED  BY <1>4, <4>1, <4>3 DEF Record
    <3>3. Left' = Left - 1 /\ Left - 1 \in 0 .. Left /\ Left - (Left - 1) = 1
      BY <1>4, <2>1, <2>3, <3>2 DEF Left
    <3>4. mem' = [a \in Addr |-> IF a - r.di \in 0 .. 1 - 1 THEN mem[r.si] ELSE mem[a]]
      BY <1>3, <1>4, <3>1, StoreOne
    <3>5. \A a \in Addr : a - r.di \in 0 .. 1 - 1 => Stored(a - r.di) = mem[r.si]
      BY <1>4, <2>1 DEF Addr, Stored
    <3>6. mem' = [a \in Addr |-> IF a - r.di \in 0 .. 1 - 1 THEN Stored(a - r.di) ELSE mem[a]]
      BY <3>4, <3>5
    <3>7. QED
      BY <1>5, <2>1, <2>3, <3>2, <3>3, <3>6 DEF Upward
  <2>4. CASE r.cx > 0 /\ Downward
    <3>1. /\ r' = [r EXCEPT !.di = r.di - 1, !.si = r.si - 1, !.cx = r.cx - 1]
          /\ mem' = [mem EXCEPT ![r.di] = mem[r.si]]
      <4>1. r.step = -1  BY <2>4 DEF Downward
      <4>2. r.di + r.step = r.di - 1 /\ r.si + r.step = r.si - 1  BY <1>4, <4>1
      <4>3. /\ r' = [r EXCEPT !.di = r.di + r.step, !.si = r.si + r.step, !.cx = r.cx - 1]
            /\ Store(r.di, mem[r.si])
        BY <1>9, <2>4 DEF Move
      <4>4. QED  BY <4>2, <4>3 DEF Store
    <3>2. /\ r' \in Registers /\ r'.pc = "move" /\ r'.step = -1
          /\ r'.di = r.di - 1 /\ r'.si = r.si - 1 /\ r'.cx = r.cx - 1
      <4>1. r.step = -1  BY <2>4 DEF Downward
      <4>2. r' = Record("move", r.di - 1, r.si - 1, r.cx - 1, r.dx, r.step, r.result)
        BY <1>4, <2>1, <3>1 DEF Record
      <4>3. r.di - 1 \in Int /\ r.si - 1 \in Int /\ r.cx - 1 \in Nat
        BY <1>4, <2>4
      <4>4. r' \in Registers
        BY <1>4, <4>1, <4>2, <4>3, InPcs, RecordType
      <4>5. QED  BY <4>1, <4>2, <4>4 DEF Record
    <3>3. Left' = Left - 1 /\ Left - 1 \in 0 .. call.n
      BY <1>2, <1>3, <1>4, <2>1, <2>4, <3>2 DEF Left
    <3>4. /\ r.di = call.dest + (Left - 1) /\ r.si = call.src + (Left - 1)
          /\ r.di \in Addr /\ r.si \in Addr /\ r.si < r.di
          /\ call.src < call.dest
      <4>1. /\ r.di = call.dest + Left - 1 /\ r.si = call.src + Left - 1
            /\ call.src < call.dest
        BY <2>4 DEF Downward
      <4>2. Left \in 1 .. call.n /\ call.src + call.n <= SIZE
        BY <1>2, <1>3, <2>1, <2>4
      <4>3. SIZE \in Nat  BY DEF LibraryAssumption
      <4>4. r.di \in 0 .. SIZE - 1 /\ r.si \in 0 .. SIZE - 1
        BY <1>2, <4>1, <4>2, <4>3
      <4>5. /\ r.di = call.dest + (Left - 1) /\ r.si = call.src + (Left - 1)
            /\ r.si < r.di
        BY <1>2, <4>1, <4>2
      <4>6. QED  BY <4>1, <4>4, <4>5 DEF Addr
    <3>5. mem[r.si] = entry[r.si] /\ entry[r.si] = Wanted(Left - 1)
      BY <1>2, <1>3, <2>1, <2>4, <3>4 DEF Downward, Written, Wanted
    <3>6. Written(mem', Left - 1, call.n)
      <4>1. SUFFICES ASSUME NEW a \in Addr
                     PROVE  mem'[a] = IF a - call.dest \in Left - 1 .. call.n - 1
                                      THEN Wanted(a - call.dest) ELSE entry[a]
        BY DEF Written
      <4>2. a \in Nat /\ Left \in Nat
        BY <1>2, <1>3 DEF Addr
      <4>3. CASE a = r.di
        <5>1. a - call.dest = Left - 1 /\ Left - 1 \in Left - 1 .. call.n - 1
          BY <1>2, <1>3, <3>3, <3>4, <4>2, <4>3
        <5>2. QED  BY <1>3, <3>1, <3>5, <4>3, <5>1
      <4>4. CASE a # r.di
        <5>1. a - call.dest \in Left .. call.n - 1 <=> a - call.dest \in Left - 1 .. call.n - 1
          BY <1>2, <3>4, <4>2, <4>4
        <5>2. mem'[a] = mem[a]
          BY <1>3, <3>1, <4>4
        <5>3. QED  BY <2>4, <5>1, <5>2 DEF Downward, Written
      <4>5. QED  BY <4>3, <4>4
    <3>7. mem' \in [Addr -> Byte]
      BY <1>3, <3>1, <3>4
    <3>8. Downward'
      <4>1. Written(mem, Left, call.n)'
        BY <1>1, <3>3, <3>6 DEF Written, Wanted
      <4>2. r'.di = call.dest + Left' - 1 /\ r'.si = call.src + Left' - 1
        BY <1>2, <1>3, <3>2, <3>3, <3>4
      <4>3. QED  BY <1>1, <3>2, <3>4, <4>1, <4>2 DEF Downward
    <3>9. QED
      BY <1>1, <2>1, <3>2, <3>3, <3>7, <3>8 DEF BlockInv
  <2>5. QED
    BY <1>3, <1>4, <2>1, <2>2, <2>3, <2>4
<1>10. CASE UNCHANGED libraryVars
  BY <1>10 DEF libraryVars, BlockInv, Upward, Downward, Left, Written, Wanted, Upwards
<1>11. QED
  BY <1>4, <1>6, <1>7, <1>8, <1>9, <1>10
  DEF LibraryNext, Strcpy, ece391_strcpy, Strncpy, Pad, Strncmp, ZeroLength, Compare, Zero,
      Digits, Strlen, Swap, At

\* memset, memcpy and memmove leave at dest what they should and every other byte
\* alone, for all addresses, lengths, alignments and overlaps that callers may pass.
THEOREM BlocksStayRight == LibrarySpec => []BlocksRight
<1>1. LibraryInit => CallFixed /\ BlockInv
  BY CallInit, BlockInit
<1>2. CallFixed /\ BlockInv /\ [LibraryNext]_libraryVars => CallFixed' /\ BlockInv'
  BY CallStep, BlockStep
<1>3. CallFixed /\ BlockInv => BlocksRight
  <2>. SUFFICES ASSUME CallFixed, BlockInv, call.routine \in Blocks, r.pc = "done"
                PROVE  mem = IF call.routine = "memset"
                             THEN [a \in Addr |-> IF a - call.dest \in 0 .. call.n - 1
                                                  THEN call.c ELSE entry[a]]
                             ELSE Copied(call.n)
    BY DEF BlocksRight, Done, At
  <2>1. call.n \in Nat
    BY BlockLegal
  <2>2. mem \in [Addr -> Byte] /\ Written(mem, 0, call.n)
    BY DEF BlockInv
  <2>3. mem = [a \in Addr |-> IF a - call.dest \in 0 .. call.n - 1
                              THEN Wanted(a - call.dest) ELSE entry[a]]
    BY <2>1, <2>2 DEF Written
  <2>4. QED
    BY <2>3 DEF Copied, Wanted
<1>4. QED
  BY <1>1, <1>2, <1>3, PTL DEF LibrarySpec

-----------------------------------------------------------------------------
(***************************************************************************)
(* strncmp, ece391_strncmp and ece391_strcmp.  The loop invariant: up to   *)
(* the place reached the strings are the same and have not ended, so the   *)
(* next byte of both may be read.                                          *)
(***************************************************************************)
Counters ==
    [pc : Pcs, di : Int, si : Int, cx : Int, dx : Nat, step : {1, -1}, result : Int]

LEMMA CounterType ==
    ASSUME NEW q, NEW pc \in Pcs, NEW di \in Int, NEW si \in Int, NEW cx \in Int,
           NEW dx \in Nat, NEW step \in {1, -1}, NEW result \in Int,
           q = Record(pc, di, si, cx, dx, step, result)
    PROVE  q \in Counters
BY DEF Record, Counters

LEMMA CounterOf ==
    ASSUME NEW q \in Counters
    PROVE  /\ q = Record(q.pc, q.di, q.si, q.cx, q.dx, q.step, q.result)
           /\ q.pc \in Pcs /\ q.di \in Int /\ q.si \in Int /\ q.cx \in Int /\ q.dx \in Nat
           /\ q.step \in {1, -1} /\ q.result \in Int
BY DEF Record, Counters

Equal(i) == entry[call.dest + i] = entry[call.src + i]
Same(k) == \A i \in 0 .. k - 1 : Equal(i) /\ entry[call.dest + i] # NUL

\* How far the strings are compared.
Bound == IF call.routine = "ece391_strcmp" THEN SIZE ELSE call.n

Answer(result) ==
    IF result = 0
    THEN \A n \in 0 .. Bound : Fits(call.dest, n) /\ Fits(call.src, n) => SameTo(n)
    ELSE \E i \in 0 .. Bound - 1 :
            /\ Fits(call.dest, i + 1) /\ Fits(call.src, i + 1) /\ SameTo(i)
            /\ result = entry[call.dest + i] - entry[call.src + i]

CompareInv ==
    call.routine \in Compares =>
        /\ r \in Counters /\ r.pc \in {"strncmp", "zero length", "compare", "done"}
        /\ mem = entry
        /\ r.pc = "strncmp" =>
            call.routine = "strncmp" /\ r.cx \in 0 .. call.n /\ Same(r.cx)
        /\ r.pc = "zero length" =>
            call.routine = "ece391_strncmp" /\ r.cx = call.n /\ r.dx = 0
        /\ r.pc = "compare" =>
            /\ Same(r.dx)
            /\ call.routine = "ece391_strncmp" => r.cx \in 1 .. call.n /\ r.cx + r.dx = call.n
            /\ call.routine # "ece391_strncmp" => call.routine = "ece391_strcmp"
        /\ r.pc = "done" => Answer(r.result)

LEMMA CompareLegal ==
    ASSUME CallFixed, call.routine \in Compares
    PROVE  /\ call.dest \in Nat /\ call.src \in Nat /\ call.n \in Nat
           /\ \A s \in {call.dest, call.src} :
                Terminated(s) \/ (call.routine # "ece391_strcmp" /\ Fits(s, call.n))
<1>1. call.dest \in Nat /\ call.src \in Nat /\ call.n \in Nat
  BY DEF CallFixed, Calls, Addr
<1>2. CASE call.routine \in {"strncmp", "ece391_strncmp"}
  BY <1>1, <1>2 DEF CallFixed, Legal
<1>3. CASE call.routine = "ece391_strcmp"
  BY <1>1, <1>3 DEF CallFixed, Legal
<1>4. QED  BY <1>2, <1>3 DEF Compares

\* A string that has not ended before a place goes on to that place.
LEMMA MayRead ==
    ASSUME CallFixed, call.routine \in Compares, NEW k \in Nat, Same(k), k < Bound
    PROVE  call.dest + k \in Addr /\ call.src + k \in Addr
<1>1. /\ call.dest \in Nat /\ call.src \in Nat /\ call.n \in Nat /\ SIZE \in Nat
  BY CompareLegal DEF LibraryAssumption
<1>2. ASSUME NEW s \in {call.dest, call.src}  PROVE s + k \in Addr
  <2>1. s \in Nat  BY <1>1
  <2>2. CASE Terminated(s)
    <3>1. PICK a \in s .. SIZE - 1 : entry[a] = NUL
      BY <2>2 DEF Terminated
    <3>2. a - s \in Nat /\ s + (a - s) = a
      BY <1>1, <2>1, <3>1
    <3>3. a - s \notin 0 .. k - 1
      <4>1. \A i \in 0 .. k - 1 : entry[s + i] # NUL
        BY DEF Same, Equal
      <4>2. QED  BY <3>1, <3>2, <4>1
    <3>4. QED
      BY <1>1, <2>1, <3>1, <3>2, <3>3 DEF Addr
  <2>3. CASE call.routine # "ece391_strcmp" /\ Fits(s, call.n)
    BY <1>1, <2>1, <2>3 DEF Bound, Fits, Addr
  <2>4. QED  BY <2>2, <2>3, CompareLegal
<1>3. QED  BY <1>2

\* The three ways for a comparison to end.
LEMMA EndsTogether ==
    ASSUME NEW k \in Nat, Same(k), Equal(k), entry[call.dest + k] = NUL
    PROVE  Answer(0)
<1>1. ASSUME NEW n \in 0 .. Bound, NEW i \in 0 .. n - 1
      PROVE  \/ Equal(i)
             \/ \E j \in 0 .. i - 1 : entry[call.dest + j] = NUL /\ entry[call.src + j] = NUL
  <2>1. CASE i <= k
    BY <2>1 DEF Same
  <2>2. CASE i > k
    <3>1. k \in 0 .. i - 1  BY <2>2
    <3>2. entry[call.src + k] = NUL  BY DEF Equal
    <3>3. QED  BY <3>1, <3>2
  <2>3. QED  BY <2>1, <2>2
<1>2. QED
  BY <1>1 DEF Answer, SameTo, Equal

LEMMA EndsEqual ==
    ASSUME \A i \in 0 .. Bound - 1 : Equal(i), Bound \in Nat
    PROVE  Answer(0)
<1>1. ASSUME NEW n \in 0 .. Bound, NEW i \in 0 .. n - 1
      PROVE  Equal(i)
  <2>1. i \in 0 .. Bound - 1  OBVIOUS
  <2>2. QED  BY <2>1
<1>2. QED
  BY <1>1 DEF Answer, SameTo, Equal

LEMMA EndsDifferent ==
    ASSUME NEW k \in Nat, k < Bound, Same(k), ~Equal(k), Bound \in Nat, CallFixed,
           call.dest + k \in Addr, call.src + k \in Addr,
           call.dest \in Nat, call.src \in Nat
    PROVE  Answer(entry[call.dest + k] - entry[call.src + k])
<1>1. entry[call.dest + k] \in Nat /\ entry[call.src + k] \in Nat
  BY DEF CallFixed, Byte
<1>2. entry[call.dest + k] - entry[call.src + k] # 0
  <2>. DEFINE x == entry[call.dest + k]  y == entry[call.src + k]
  <2>1. x \in Nat /\ y \in Nat /\ x # y  BY <1>1 DEF Equal
  <2>. HIDE DEF x, y
  <2>2. x - y # 0  BY ONLY <2>1
  <2>3. QED  BY ONLY <2>2 DEF x, y
<1>3. SameTo(k)
  BY DEF SameTo, Same, Equal
<1>4. k \in 0 .. Bound - 1 /\ Fits(call.dest, k + 1) /\ Fits(call.src, k + 1)
  BY DEF Addr, Fits, LibraryAssumption
<1>5. QED
  BY <1>2, <1>3, <1>4 DEF Answer

LEMMA CompareInit == LibraryInit => CompareInv
<1>. SUFFICES ASSUME LibraryInit, call.routine \in Compares
              PROVE  CompareInv
  BY DEF CompareInv
<1>1. CallFixed /\ mem = entry /\ r = Enter
  BY CallInit DEF LibraryInit
<1>2. call.dest \in Nat /\ call.src \in Nat /\ call.n \in Nat
  BY <1>1, CompareLegal
<1>3. Same(0)
  BY DEF Same
<1>4. 1 \in {1, -1} /\ 0 \in Nat /\ 0 \in Int /\ "strncmp" \in Pcs /\ "compare" \in Pcs
      /\ "zero length" \in Pcs
  BY DEF Pcs
<1>9. call.dest \in Int /\ call.src \in Int /\ call.n \in Int
  BY <1>2
<1>5. CASE call.routine = "strncmp"
  <2>1. r = Record("strncmp", call.dest, call.src, 0, 0, 1, 0)
    BY <1>1, <1>5 DEF Enter, Locals, Record, Copies
  <2>2. r \in Counters
    BY ONLY <1>4, <1>9, <2>1, CounterType
  <2>3. r.pc = "strncmp" /\ r.cx = 0
    BY <2>1 DEF Record
  <2>4. QED
    BY <1>1, <1>2, <1>3, <1>5, <2>2, <2>3 DEF CompareInv
<1>6. CASE call.routine = "ece391_strncmp"
  <2>1. r = Record("zero length", call.dest, call.src, call.n, 0, 1, 0)
    BY <1>1, <1>6 DEF Enter, Locals, Record, Copies
  <2>2. r \in Counters
    BY ONLY <1>4, <1>9, <2>1, CounterType
  <2>3. r.pc = "zero length" /\ r.cx = call.n /\ r.dx = 0
    BY <2>1 DEF Record
  <2>4. QED
    BY <1>1, <1>6, <2>2, <2>3 DEF CompareInv
<1>7. CASE call.routine = "ece391_strcmp"
  <2>1. r = Record("compare", call.dest, call.src, call.n, 0, 1, 0)
    BY <1>1, <1>7 DEF Enter, Locals, Record, Copies
  <2>2. r \in Counters
    BY ONLY <1>4, <1>9, <2>1, CounterType
  <2>3. r.pc = "compare" /\ r.dx = 0
    BY <2>1 DEF Record
  <2>4. QED
    BY <1>1, <1>3, <1>7, <2>2, <2>3 DEF CompareInv
<1>8. QED
  BY <1>5, <1>6, <1>7 DEF Compares

LEMMA CompareStep ==
    CallFixed /\ CompareInv /\ [LibraryNext]_libraryVars => CompareInv'
<1>. SUFFICES ASSUME CallFixed, CompareInv, [LibraryNext]_libraryVars,
                     call.routine \in Compares
              PROVE  CompareInv'
  BY CallStep DEF CompareInv
<1>1. call' = call /\ entry' = entry
  BY CallStep
<1>2. call.dest \in Nat /\ call.src \in Nat /\ call.n \in Nat /\ Bound \in Nat
  BY CompareLegal DEF Bound, LibraryAssumption
<1>3. /\ r \in Counters /\ r.pc \in {"strncmp", "zero length", "compare", "done"}
      /\ mem = entry
  BY DEF CompareInv
<1>4. /\ r.di \in Int /\ r.si \in Int /\ r.cx \in Int /\ r.dx \in Nat
      /\ r.step \in {1, -1} /\ r.result \in Int
      /\ r = Record(r.pc, r.di, r.si, r.cx, r.dx, r.step, r.result)
  BY <1>3, CounterOf
<1>5. ASSUME NEW result \in Int, Returns(result), mem' = mem, Answer(result)
      PROVE  CompareInv'
  <2>1. r' = Record("done", r.di, r.si, r.cx, r.dx, r.step, result)
    BY <1>4, <1>5 DEF Returns, Record
  <2>2. r' \in Counters
    BY <1>4, <2>1, InPcs, CounterType
  <2>3. r'.pc = "done" /\ r'.result = result
    BY <2>1 DEF Record
  <2>4. Answer(r.result)'
    BY <1>1, <1>5, <2>3 DEF Answer, Bound, Fits, SameTo
  <2>5. QED
    BY <1>1, <1>3, <1>5, <2>2, <2>3, <2>4 DEF CompareInv
<1>6. ASSUME NEW k \in Nat, k < Bound, Same(k), ~Equal(k)
      PROVE  /\ Answer(entry[call.dest + k] - entry[call.src + k])
             /\ entry[call.dest + k] - entry[call.src + k] \in Int
  <2>1. call.dest + k \in Addr /\ call.src + k \in Addr
    BY <1>6, MayRead
  <2>2. entry[call.dest + k] \in Int /\ entry[call.src + k] \in Int
    BY <2>1 DEF CallFixed, Byte
  <2>3. QED
    BY <1>2, <1>6, <2>1, <2>2, EndsDifferent
<1>7. CASE Strncmp
  <2>1. /\ r.pc = "strncmp" /\ call.routine = "strncmp" /\ r.cx \in 0 .. call.n
        /\ Same(r.cx) /\ mem' = mem
    BY <1>7 DEF Strncmp, At, CompareInv
  <2>2. Bound = call.n  BY <2>1 DEF Bound
  <2>3. CASE r.cx >= call.n
    <3>1. Returns(0)  BY <1>2, <1>4, <1>7, <2>3 DEF Strncmp
    <3>2. r.cx = call.n  BY <1>2, <2>1, <2>3
    <3>3. Answer(0)
      BY <1>2, <2>1, <2>2, <3>2, EndsEqual DEF Same
    <3>4. QED  BY <1>5, <2>1, <3>1, <3>3
  <2>4. CASE r.cx < call.n /\ Differ(r.cx)
    <3>1. Returns(Difference(r.cx))  BY <1>2, <1>4, <1>7, <2>4 DEF Strncmp
    <3>2. ~Equal(r.cx) /\ r.cx \in Nat /\ r.cx < Bound
      BY <1>3, <2>1, <2>2, <2>4 DEF Differ, Equal
    <3>3. Difference(r.cx) = entry[call.dest + r.cx] - entry[call.src + r.cx]
      BY <1>3 DEF Difference
    <3>4. QED  BY <1>5, <1>6, <2>1, <3>1, <3>2, <3>3
  <2>5. CASE r.cx < call.n /\ ~Differ(r.cx) /\ mem[call.dest + r.cx] = NUL
    <3>1. Returns(Difference(r.cx))  BY <1>2, <1>4, <1>7, <2>5 DEF Strncmp
    <3>2. Equal(r.cx) /\ entry[call.dest + r.cx] = NUL /\ entry[call.src + r.cx] = NUL
          /\ r.cx \in Nat
      BY <1>3, <2>1, <2>5 DEF Differ, Equal
    <3>3. Difference(r.cx) = 0
      <4>1. Difference(r.cx) = NUL - NUL
        BY <1>3, <3>2 DEF Difference
      <4>2. QED  BY <4>1 DEF NUL
    <3>4. Answer(0)
      BY <2>1, <3>2, EndsTogether
    <3>5. QED  BY <1>5, <2>1, <3>1, <3>3, <3>4
  <2>6. CASE r.cx < call.n /\ ~Differ(r.cx) /\ mem[call.dest + r.cx] # NUL
    <3>1. r' = [r EXCEPT !.cx = r.cx + 1]  BY <1>2, <1>4, <1>7, <2>6 DEF Strncmp
    <3>2. r' = Record("strncmp", r.di, r.si, r.cx + 1, r.dx, r.step, r.result)
      BY <1>4, <2>1, <3>1 DEF Record
    <3>3. r.cx + 1 \in 0 .. call.n /\ r.cx + 1 \in Int
      BY <1>2, <2>1, <2>6
    <3>4. r' \in Counters
      BY <1>4, <3>2, <3>3, InPcs, CounterType
    <3>5. r'.pc = "strncmp" /\ r'.cx = r.cx + 1
      BY <3>2 DEF Record
    <3>6. Same(r.cx + 1)
      <4>1. Equal(r.cx) /\ entry[call.dest + r.cx] # NUL
        BY <1>3, <2>6 DEF Differ, Equal
      <4>2. \A i \in 0 .. (r.cx + 1) - 1 : i \in 0 .. r.cx - 1 \/ i = r.cx
        BY <2>1, <1>4
      <4>3. QED  BY <2>1, <4>1, <4>2 DEF Same
    <3>7. Same(r.cx)'
      BY <1>1, <3>5, <3>6 DEF Same, Equal
    <3>8. QED
      BY <1>1, <1>3, <2>1, <3>3, <3>4, <3>5, <3>7 DEF CompareInv
  <2>7. QED
    BY <1>2, <1>4, <2>3, <2>4, <2>5, <2>6
<1>8. CASE ZeroLength
  <2>1. /\ r.pc = "zero length" /\ call.routine = "ece391_strncmp" /\ r.cx = call.n
        /\ r.dx = 0 /\ mem' = mem
    BY <1>8 DEF ZeroLength, At, CompareInv
  <2>2. CASE call.n = 0
    <3>1. Returns(0)  BY <1>8, <2>2 DEF ZeroLength
    <3>2. Bound = 0  BY <2>1, <2>2 DEF Bound
    <3>3. Answer(0)  BY <3>2, EndsEqual
    <3>4. 0 \in Int  OBVIOUS
    <3>5. QED  BY <1>5, <2>1, <3>1, <3>3, <3>4
  <2>3. CASE call.n # 0
    <3>1. r' = [r EXCEPT !.pc = "compare"]  BY <1>8, <2>3 DEF ZeroLength, Goto
    <3>2. r' = Record("compare", r.di, r.si, r.cx, r.dx, r.step, r.result)
      BY <1>4, <3>1 DEF Record
    <3>3. r' \in Counters
      BY <1>4, <3>2, InPcs, CounterType
    <3>4. r'.pc = "compare" /\ r'.cx = call.n /\ r'.dx = 0
      BY <2>1, <3>2 DEF Record
    <3>5. Same(r.dx)'
      BY <3>4 DEF Same
    <3>6. r'.cx \in 1 .. call.n /\ r'.cx + r'.dx = call.n
      BY <1>2, <2>3, <3>4
    <3>7. QED
      BY <1>1, <1>3, <2>1, <3>3, <3>4, <3>5, <3>6 DEF CompareInv
  <2>4. QED  BY <2>2, <2>3
<1>9. CASE Compare
  <2>1. /\ r.pc = "compare" /\ Same(r.dx) /\ mem' = mem
        /\ call.routine = "ece391_strncmp" => r.cx \in 1 .. call.n /\ r.cx + r.dx = call.n
        /\ call.routine # "ece391_strncmp" => call.routine = "ece391_strcmp"
    BY <1>9 DEF Compare, At, CompareInv
  <2>2. CASE Differ(r.dx)
    <3>1. Returns(Difference(r.dx))  BY <1>9, <2>2 DEF Compare
    <3>2. ~Equal(r.dx)
      BY <1>3, <2>2 DEF Differ, Equal
    <3>3. r.dx < Bound
      <4>1. CASE call.routine = "ece391_strncmp"
        BY <1>2, <1>4, <2>1, <4>1 DEF Bound
      <4>2. CASE call.routine = "ece391_strcmp"
        <5>1. Terminated(call.dest)  BY <4>2, CompareLegal
        <5>2. PICK a \in call.dest .. SIZE - 1 : entry[a] = NUL
          BY <5>1 DEF Terminated
        <5>3. a - call.dest \notin 0 .. r.dx - 1
          <6>1. a - call.dest \in Nat /\ call.dest + (a - call.dest) = a
            BY <1>2, <5>2 DEF LibraryAssumption
          <6>2. QED  BY <2>1, <5>2, <6>1 DEF Same
        <5>4. QED  BY <1>2, <1>4, <4>2, <5>2, <5>3 DEF Bound, LibraryAssumption
      <4>3. QED  BY <2>1, <4>1, <4>2
    <3>4. Difference(r.dx) = entry[call.dest + r.dx] - entry[call.src + r.dx]
      BY <1>3 DEF Difference
    <3>5. QED  BY <1>4, <1>5, <1>6, <2>1, <3>1, <3>2, <3>3, <3>4
  <2>3. CASE ~Differ(r.dx) /\ mem[call.dest + r.dx] = NUL
    <3>1. Returns(0)  BY <1>9, <2>3 DEF Compare
    <3>2. Equal(r.dx) /\ entry[call.dest + r.dx] = NUL
      BY <1>3, <2>3 DEF Differ, Equal
    <3>3. Answer(0)  BY <1>4, <2>1, <3>2, EndsTogether
    <3>4. QED  BY <1>5, <2>1, <3>1, <3>3
  <2>4. CASE ~Differ(r.dx) /\ mem[call.dest + r.dx] # NUL /\ LastByte
    <3>1. Returns(0)  BY <1>9, <2>4 DEF Compare
    <3>2. call.routine = "ece391_strncmp" /\ r.cx = 1 /\ r.dx = call.n - 1
      BY <1>2, <1>4, <2>1, <2>4 DEF LastByte
    <3>3. Bound = call.n  BY <3>2 DEF Bound
    <3>4. \A i \in 0 .. Bound - 1 : i \in 0 .. r.dx - 1 \/ i = r.dx
      BY <1>2, <3>2, <3>3
    <3>5. Equal(r.dx)  BY <1>3, <2>4 DEF Differ, Equal
    <3>6. Answer(0)  BY <1>2, <2>1, <3>4, <3>5, EndsEqual DEF Same
    <3>7. QED  BY <1>5, <2>1, <3>1, <3>6
  <2>5. CASE ~Differ(r.dx) /\ mem[call.dest + r.dx] # NUL /\ ~LastByte
    <3>1. r' = [r EXCEPT !.dx = r.dx + 1, !.cx = r.cx - 1]
      BY <1>9, <2>5 DEF Compare
    <3>2. r' = Record("compare", r.di, r.si, r.cx - 1, r.dx + 1, r.step, r.result)
      BY <1>4, <2>1, <3>1 DEF Record
    <3>3. r.cx - 1 \in Int /\ r.dx + 1 \in Nat
      BY <1>4
    <3>4. r' \in Counters
      BY <1>4, <3>2, <3>3, InPcs, CounterType
    <3>5. r'.pc = "compare" /\ r'.cx = r.cx - 1 /\ r'.dx = r.dx + 1
      BY <3>2 DEF Record
    <3>6. Same(r.dx + 1)
      <4>1. Equal(r.dx) /\ entry[call.dest + r.dx] # NUL
        BY <1>3, <2>5 DEF Differ, Equal
      <4>2. \A i \in 0 .. (r.dx + 1) - 1 : i \in 0 .. r.dx - 1 \/ i = r.dx
        BY <1>4
      <4>3. QED  BY <2>1, <4>1, <4>2 DEF Same
    <3>7. Same(r.dx)'
      BY <1>1, <3>5, <3>6 DEF Same, Equal
    <3>8. call.routine = "ece391_strncmp" =>
              r.cx - 1 \in 1 .. call.n /\ (r.cx - 1) + (r.dx + 1) = call.n
      BY <1>2, <1>4, <2>1, <2>5 DEF LastByte
    <3>9. QED
      BY <1>1, <1>3, <2>1, <3>4, <3>5, <3>7, <3>8 DEF CompareInv
  <2>6. QED  BY <2>2, <2>3, <2>4, <2>5
<1>10. CASE UNCHANGED libraryVars
  BY <1>10 DEF libraryVars, CompareInv, Same, Equal, Answer, Bound, Fits, SameTo
<1>11. QED
  BY <1>3, <1>7, <1>8, <1>9, <1>10
  DEF LibraryNext, Top, Words, Bottom, Move, Strcpy, ece391_strcpy, Strncpy, Pad, Zero,
      Digits, Strlen, Swap, At

\* The kernel's strncmp and both comparisons of the programs' library return zero
\* exactly for strings that agree, else the difference of the first bytes that do
\* not, for all strings and lengths that callers may pass.
THEOREM ComparesStayRight == LibrarySpec => []ComparesRight
<1>1. LibraryInit => CallFixed /\ CompareInv
  BY CallInit, CompareInit
<1>2. CallFixed /\ CompareInv /\ [LibraryNext]_libraryVars => CallFixed' /\ CompareInv'
  BY CallStep, CompareStep
<1>3. CompareInv => ComparesRight
  BY DEF CompareInv, ComparesRight, Done, At, Answer, Bound
<1>4. QED
  BY <1>1, <1>2, <1>3, PTL DEF LibrarySpec

-----------------------------------------------------------------------------
(***************************************************************************)
(* strcpy, ece391_strcpy and strncpy.  The loop invariant: the places below*)
(* cx have been copied, none of them the NUL, and nothing else is written; *)
(* in the padding, a place at or behind the NUL of the source is NUL.      *)
(***************************************************************************)
CursorPcs ==
    {"strcpy", "ece391_strcpy", "strncpy", "pad", "zero", "digits", "strlen", "swap", "done"}

Cursors ==
    [pc : CursorPcs, di : Int, si : Int, cx : Nat, dx : Nat, step : {1, -1}, result : Int]

LEMMA CursorType ==
    ASSUME NEW q, NEW pc \in CursorPcs, NEW di \in Int, NEW si \in Int, NEW cx \in Nat,
           NEW dx \in Nat, NEW step \in {1, -1}, NEW result \in Int,
           q = Record(pc, di, si, cx, dx, step, result)
    PROVE  q \in Cursors
BY DEF Record, Cursors

LEMMA CursorOf ==
    ASSUME NEW q \in Cursors
    PROVE  /\ q = Record(q.pc, q.di, q.si, q.cx, q.dx, q.step, q.result)
           /\ q.pc \in CursorPcs /\ q.di \in Int /\ q.si \in Int /\ q.cx \in Nat /\ q.dx \in Nat
           /\ q.step \in {1, -1} /\ q.result \in Int
BY DEF Record, Cursors

LEMMA InCursorPcs ==
    /\ "strcpy" \in CursorPcs /\ "ece391_strcpy" \in CursorPcs /\ "strncpy" \in CursorPcs
    /\ "pad" \in CursorPcs /\ "zero" \in CursorPcs /\ "digits" \in CursorPcs
    /\ "strlen" \in CursorPcs /\ "swap" \in CursorPcs /\ "done" \in CursorPcs
    /\ 0 \in Int /\ 0 \in Nat /\ 1 \in {1, -1}
BY DEF CursorPcs

\* A string that has a NUL has a first one.
LEMMA LengthExists ==
    ASSUME NEW memory, NEW s \in Nat, NEW a \in s .. SIZE - 1, memory[a] = NUL
    PROVE  /\ LengthIn(memory, s) \in 0 .. SIZE - 1
           /\ s + LengthIn(memory, s) \in s .. a
           /\ memory[s + LengthIn(memory, s)] = NUL
           /\ \A i \in 0 .. LengthIn(memory, s) - 1 : memory[s + i] # NUL
<1>. DEFINE Ends == {n \in Nat : memory[s + n] = NUL}
            IsLength(n) == memory[s + n] = NUL /\ \A i \in 0 .. n - 1 : memory[s + i] # NUL
<1>1. SIZE \in Nat
  OBVIOUS
<1>2. a - s \in Ends
  <2>1. a - s \in Nat /\ s + (a - s) = a  BY <1>1
  <2>. QED  BY <2>1
<1>3. PICK n \in Ends : \A m \in Ends : n <= m
  <2>1. Ends \in SUBSET Nat /\ Ends # {}  BY <1>2
  <2>. HIDE DEF Ends
  <2>. QED  BY <2>1, Least
<1>4. n <= a - s /\ n \in Nat
  BY <1>2, <1>3
<1>5. n \in 0 .. SIZE - 1
  BY <1>1, <1>4
<1>6. IsLength(n)
  <2>1. ASSUME NEW i \in 0 .. n - 1, memory[s + i] = NUL  PROVE FALSE
    <3>1. i \in Ends  BY <2>1, <1>4
    <3>2. n <= i
      <4>. HIDE DEF Ends
      <4>. QED  BY <1>3, <3>1
    <3>. QED  BY <1>4, <3>2
  <2>. QED  BY <1>3, <2>1
<1>7. LengthIn(memory, s) = CHOOSE k \in 0 .. SIZE - 1 : IsLength(k)
  BY DEF LengthIn
<1>. DEFINE length == CHOOSE k \in 0 .. SIZE - 1 : IsLength(k)
<1>8. length \in 0 .. SIZE - 1 /\ IsLength(length)
  <2>. HIDE DEF IsLength
  <2>. QED  BY <1>5, <1>6
<1>. HIDE DEF length
<1>9. length <= n
  <2>1. CASE n < length
    <3>1. n \in 0 .. length - 1  BY <1>4, <1>8, <2>1
    <3>. QED  BY <1>6, <1>8, <3>1
  <2>. QED  BY <1>1, <1>4, <1>8, <2>1
<1>10. LengthIn(memory, s) = length
  BY <1>7 DEF length
<1>. QED  BY <1>1, <1>4, <1>8, <1>9, <1>10

\* Only one number of bytes is the length.
LEMMA LengthIs ==
    ASSUME NEW memory, NEW s \in Nat, NEW n \in Nat, s + n \in Addr, memory[s + n] = NUL,
           \A i \in 0 .. n - 1 : memory[s + i] # NUL
    PROVE  LengthIn(memory, s) = n
<1>1. SIZE \in Nat
  OBVIOUS
<1>2. s + n \in s .. SIZE - 1
  BY DEF Addr
<1>. DEFINE length == LengthIn(memory, s)
<1>3. /\ length \in 0 .. SIZE - 1 /\ memory[s + length] = NUL
      /\ \A i \in 0 .. length - 1 : memory[s + i] # NUL
  <2>. DEFINE a == s + n
  <2>1. a \in s .. SIZE - 1 /\ memory[a] = NUL  BY <1>2
  <2>. HIDE DEF a
  <2>. QED  BY <2>1, LengthExists
<1>. HIDE DEF length
<1>4. ~(n < length)
  <2>1. ASSUME n < length  PROVE n \in 0 .. length - 1  BY <1>1, <1>3, <2>1
  <2>. QED  BY <1>3, <2>1
<1>5. ~(length < n)
  <2>1. ASSUME length < n  PROVE length \in 0 .. n - 1  BY <1>1, <1>3, <2>1
  <2>. QED  BY <1>3, <2>1
<1>6. length = n
  BY <1>1, <1>3, <1>4, <1>5
<1>. QED  BY <1>6 DEF length

\* The source has a NUL at place i or before; what belongs at a place.
Ended(i) == \E j \in 0 .. i : entry[call.src + j] = NUL
Unended(k) == \A i \in 0 .. k - 1 : entry[call.src + i] # NUL
Place(i) == IF Ended(i) THEN NUL ELSE entry[call.src + i]

\* The first k places of the string have been written, and nothing else.
StringWritten(m, k) ==
    \A a \in Addr : m[a] = IF a - call.dest \in 0 .. k - 1 THEN Place(a - call.dest)
                           ELSE entry[a]

CopyInv ==
    call.routine \in Copies =>
        /\ r \in Cursors /\ r.pc \in {"strcpy", "ece391_strcpy", "strncpy", "pad", "done"}
        /\ mem \in [Addr -> Byte]
        /\ r.pc \in Copies =>
            /\ r.pc = call.routine /\ Unended(r.cx) /\ StringWritten(mem, r.cx)
            /\ r.pc = "strncpy" => r.cx <= call.n
        /\ r.pc = "pad" =>
            /\ call.routine = "strncpy" /\ r.cx <= call.n /\ StringWritten(mem, r.cx)
            /\ r.cx = call.n \/ Ended(r.cx)
        /\ r.pc = "done" =>
            IF call.routine = "strncpy" THEN StringWritten(mem, call.n)
            ELSE StringWritten(mem, Length(call.src) + 1)

\* A place of the source that a copying loop reads is in memory and still holds what
\* it held at the call; the place it writes is in memory.
LEMMA MayCopy ==
    ASSUME CallFixed, call.routine \in Copies, mem \in [Addr -> Byte], NEW k \in Nat,
           Unended(k), StringWritten(mem, k), call.routine = "strncpy" => k < call.n
    PROVE  /\ call.dest + k \in Addr /\ call.src + k \in Addr
           /\ mem[call.src + k] = entry[call.src + k] /\ entry[call.src + k] \in Byte
           /\ entry[call.src + k] = NUL => Length(call.src) = k
<1>1. call.dest \in Nat /\ call.src \in Nat /\ call.n \in Nat /\ SIZE \in Nat
      /\ call.dest \in Addr
  BY DEF CallFixed, Calls, Addr
<1>2. ASSUME Terminated(call.src)
      PROVE  /\ Length(call.src) \in Nat /\ k <= Length(call.src)
             /\ call.src + Length(call.src) \in Addr
  <2>1. PICK a \in call.src .. SIZE - 1 : entry[a] = NUL
    BY <1>2 DEF Terminated
  <2>. DEFINE length == Length(call.src)
  <2>2. length \in 0 .. SIZE - 1 /\ call.src + length \in call.src .. a
        /\ entry[call.src + length] = NUL
    BY <1>1, <2>1, LengthExists DEF Length
  <2>. HIDE DEF length
  <2>3. length \notin 0 .. k - 1
    BY <2>2 DEF Unended
  <2>4. length \in Nat /\ k <= length /\ call.src + length \in Addr
    BY <1>1, <2>1, <2>2, <2>3 DEF Addr
  <2>. QED  BY <2>4 DEF length
<1>3. PICK bound \in Nat :
          /\ k < bound /\ call.dest + bound <= SIZE
          /\ call.src + k < SIZE
          /\ Upwards(bound)
  <2>1. CASE call.routine \in {"strcpy", "ece391_strcpy"}
    <3>1. /\ Terminated(call.src)
          /\ Fits(call.dest, Length(call.src) + 1) /\ Upwards(Length(call.src) + 1)
      BY <2>1 DEF CallFixed, Legal
    <3>. DEFINE length == Length(call.src)
    <3>2. length \in Nat /\ k <= length /\ call.src + length \in Addr
          /\ Fits(call.dest, length + 1) /\ Upwards(length + 1)
      BY <1>2, <3>1
    <3>. HIDE DEF length
    <3>3. k < length + 1 /\ call.dest + (length + 1) <= SIZE /\ call.src + k < SIZE
          /\ length + 1 \in Nat
      BY <1>1, <3>2 DEF Fits, Addr
    <3>. QED  BY <3>2, <3>3
  <2>2. CASE call.routine = "strncpy"
    <3>1. /\ Terminated(call.src) \/ Fits(call.src, call.n + 1)
          /\ Fits(call.dest, call.n) /\ Upwards(call.n)
      BY <2>2 DEF CallFixed, Legal
    <3>2. k < call.n /\ call.dest + call.n <= SIZE
      BY <2>2, <3>1 DEF Fits
    <3>3. call.src + k < SIZE
      <4>1. CASE Terminated(call.src)
        <5>. DEFINE length == Length(call.src)
        <5>1. length \in Nat /\ k <= length /\ call.src + length \in Addr
          BY <1>2, <4>1
        <5>. HIDE DEF length
        <5>. QED  BY <1>1, <5>1 DEF Addr
      <4>2. CASE Fits(call.src, call.n + 1)
        BY <1>1, <3>2, <4>2 DEF Fits
      <4>. QED  BY <3>1, <4>1, <4>2
    <3>. QED  BY <1>1, <3>1, <3>2, <3>3
  <2>. QED  BY <2>1, <2>2 DEF Copies
<1>4. call.dest + k \in Addr /\ call.src + k \in Addr
  BY <1>1, <1>3 DEF Addr
<1>5. call.src + k - call.dest \notin 0 .. k - 1
  BY <1>1, <1>3 DEF Upwards
<1>6. mem[call.src + k] = entry[call.src + k]
  <2>. DEFINE b == call.src + k
  <2>1. b \in Addr  BY <1>4
  <2>3. b - call.dest \notin 0 .. k - 1  BY <1>1, <1>5
  <2>. HIDE DEF b
  <2>2. mem[b] = entry[b]  BY <2>1, <2>3 DEF StringWritten
  <2>. QED  BY <2>2 DEF b
<1>7. entry[call.src + k] \in Byte
  BY <1>4 DEF CallFixed
<1>8. ASSUME entry[call.src + k] = NUL  PROVE Length(call.src) = k
  BY <1>1, <1>4, <1>8, LengthIs DEF Length, Unended
<1>. QED  BY <1>4, <1>6, <1>7, <1>8

\* Writing the next place.
LEMMA PlaceWritten ==
    ASSUME CallFixed, mem \in [Addr -> Byte], NEW k \in Nat, StringWritten(mem, k),
           call.dest \in Nat, NEW byte \in Byte, byte = Place(k),
           Store(call.dest + k, byte)
    PROVE  mem' \in [Addr -> Byte] /\ StringWritten(mem', k + 1)
<1>1. mem' \in [Addr -> Byte]
  BY DEF Store
<1>2. ASSUME NEW a \in Addr
      PROVE  mem'[a] = IF a - call.dest \in 0 .. (k + 1) - 1 THEN Place(a - call.dest)
                       ELSE entry[a]
  <2>1. a \in Int  BY DEF Addr
  <2>2. CASE a = call.dest + k
    <3>1. a - call.dest = k /\ k \in 0 .. (k + 1) - 1  BY <2>2
    <3>2. mem'[a] = byte  BY <2>2 DEF Store
    <3>. QED  BY <3>1, <3>2
  <2>3. CASE a # call.dest + k
    <3>1. a - call.dest \in 0 .. (k + 1) - 1 <=> a - call.dest \in 0 .. k - 1
      BY <2>1, <2>3
    <3>2. mem'[a] = mem[a]  BY <2>3 DEF Store
    <3>3. mem[a] = IF a - call.dest \in 0 .. k - 1 THEN Place(a - call.dest) ELSE entry[a]
      BY DEF StringWritten
    <3>. QED  BY <3>1, <3>2, <3>3
  <2>. QED  BY <2>2, <2>3
<1>. QED  BY <1>1, <1>2 DEF StringWritten

LEMMA PlaceOf ==
    ASSUME NEW k \in Nat, Unended(k)
    PROVE  /\ Place(k) = entry[call.src + k]
           /\ Ended(k) <=> entry[call.src + k] = NUL
           /\ entry[call.src + k] # NUL => Unended(k + 1)
<1>1. \A i \in 0 .. k : i \in 0 .. k - 1 \/ i = k
  OBVIOUS
<1>2. Ended(k) <=> entry[call.src + k] = NUL
  BY <1>1 DEF Ended, Unended
<1>3. (k + 1) - 1 = k
  OBVIOUS
<1>. QED  BY <1>1, <1>2, <1>3 DEF Place, Unended

LEMMA CopyInit == LibraryInit => CopyInv
<1>. SUFFICES ASSUME LibraryInit, call.routine \in Copies
              PROVE  CopyInv
  BY DEF CopyInv
<1>1. CallFixed /\ mem = entry /\ r = Enter /\ mem \in [Addr -> Byte]
  BY CallInit DEF LibraryInit
<1>2. call.dest \in Nat /\ call.src \in Nat /\ call.n \in Nat
  BY <1>1 DEF CallFixed, Calls, Addr
<1>3. r = Record(call.routine, call.dest, call.src, 0, 0, 1, 0)
  BY <1>1 DEF Enter, Locals, Record, Copies
<1>4. r \in Cursors
  <2>1. call.routine \in CursorPcs /\ call.dest \in Int /\ call.src \in Int
    BY <1>2 DEF Copies, CursorPcs
  <2>. QED  BY ONLY <1>3, <2>1, InCursorPcs, CursorType
<1>5. r.pc = call.routine /\ r.cx = 0
  BY <1>3 DEF Record
<1>6. Unended(0) /\ StringWritten(mem, 0)
  BY <1>1 DEF Unended, StringWritten
<1>. QED
  BY <1>1, <1>2, <1>4, <1>5, <1>6 DEF CopyInv, Copies

LEMMA CopyStep ==
    CallFixed /\ CopyInv /\ [LibraryNext]_libraryVars => CopyInv'
<1>. SUFFICES ASSUME CallFixed, CopyInv, [LibraryNext]_libraryVars, call.routine \in Copies
              PROVE  CopyInv'
  BY CallStep DEF CopyInv
<1>1. call' = call /\ entry' = entry
  BY CallStep
<1>2. call.dest \in Nat /\ call.src \in Nat /\ call.n \in Nat
  BY DEF CallFixed, Calls, Addr
<1>3. /\ r \in Cursors /\ r.pc \in {"strcpy", "ece391_strcpy", "strncpy", "pad", "done"}
      /\ mem \in [Addr -> Byte]
  BY DEF CopyInv
<1>4. /\ r.di \in Int /\ r.si \in Int /\ r.cx \in Nat /\ r.dx \in Nat
      /\ r.step \in {1, -1} /\ r.result \in Int
      /\ r = Record(r.pc, r.di, r.si, r.cx, r.dx, r.step, r.result)
  BY <1>3, CursorOf
\* The three ways for a step to go on.
<1>5. ASSUME Returns(0), mem' \in [Addr -> Byte],
             IF call.routine = "strncpy" THEN StringWritten(mem', call.n)
             ELSE StringWritten(mem', Length(call.src) + 1)
      PROVE  CopyInv'
  <2>1. r' = Record("done", r.di, r.si, r.cx, r.dx, r.step, 0)
    BY <1>4, <1>5 DEF Returns, Record
  <2>2. r' \in Cursors
    BY <1>4, <2>1, InCursorPcs, CursorType
  <2>3. r'.pc = "done"
    BY <2>1 DEF Record
  <2>4. (IF call.routine = "strncpy" THEN StringWritten(mem, call.n)
         ELSE StringWritten(mem, Length(call.src) + 1))'
    BY <1>1, <1>5 DEF StringWritten, Place, Ended, Length
  <2>. QED
    BY <1>5, <2>2, <2>3, <2>4 DEF CopyInv, Copies
<1>6. ASSUME r.pc \in Copies, r' = [r EXCEPT !.cx = r.cx + 1], mem' \in [Addr -> Byte],
             StringWritten(mem', r.cx + 1), Unended(r.cx + 1), r.pc = call.routine,
             r.pc = "strncpy" => r.cx < call.n
      PROVE  CopyInv'
  <2>1. r' = Record(r.pc, r.di, r.si, r.cx + 1, r.dx, r.step, r.result)
    BY <1>4, <1>6 DEF Record
  <2>2. r' \in Cursors
    <3>1. r.pc \in CursorPcs /\ r.cx + 1 \in Nat
      BY <1>3, <1>4, CursorOf
    <3>. QED  BY <1>4, <2>1, <3>1, CursorType
  <2>3. r'.pc = r.pc /\ r'.cx = r.cx + 1
    BY <2>1 DEF Record
  <2>4. StringWritten(mem, r.cx)'
    BY <1>1, <1>6, <2>3 DEF StringWritten, Place, Ended
  <2>5. Unended(r.cx)'
    BY <1>1, <1>6, <2>3 DEF Unended
  <2>6. r'.pc = "strncpy" => r'.cx <= call.n
    BY <1>2, <1>4, <1>6, <2>3
  <2>. QED
    BY <1>1, <1>6, <2>2, <2>3, <2>4, <2>5, <2>6 DEF CopyInv, Copies
<1>7. ASSUME NEW cx \in Nat, r' = [r EXCEPT !.pc = "pad", !.cx = cx], mem' \in [Addr -> Byte],
             StringWritten(mem', cx), cx <= call.n, call.routine = "strncpy",
             cx = call.n \/ Ended(cx)
      PROVE  CopyInv'
  <2>1. r' = Record("pad", r.di, r.si, cx, r.dx, r.step, r.result)
    BY <1>4, <1>7 DEF Record
  <2>2. r' \in Cursors
    BY <1>4, <2>1, InCursorPcs, CursorType
  <2>3. r'.pc = "pad" /\ r'.cx = cx
    BY <2>1 DEF Record
  <2>4. StringWritten(mem, r.cx)'
    BY <1>1, <1>7, <2>3 DEF StringWritten, Place, Ended
  <2>5. r'.cx = call'.n \/ Ended(r.cx)'
    BY <1>1, <1>7, <2>3 DEF Ended
  <2>. QED
    BY <1>1, <1>7, <2>2, <2>3, <2>4, <2>5 DEF CopyInv, Copies
\* Copying the next byte.
<1>8. ASSUME r.pc \in Copies, r.pc = "strncpy" => r.cx < call.n,
             Store(call.dest + r.cx, mem[call.src + r.cx])
      PROVE  /\ mem' \in [Addr -> Byte] /\ StringWritten(mem', r.cx + 1)
             /\ mem[call.src + r.cx] # NUL => Unended(r.cx + 1)
             /\ mem[call.src + r.cx] = NUL => Length(call.src) = r.cx
             /\ mem'[call.dest + r.cx] = mem[call.src + r.cx]
  <2>. DEFINE k == r.cx
  <2>1. /\ k \in Nat /\ Unended(k) /\ StringWritten(mem, k)
        /\ call.routine = "strncpy" => k < call.n
    BY <1>4, <1>8 DEF CopyInv
  <2>2. Store(call.dest + k, mem[call.src + k])
    BY <1>8
  <2>. HIDE DEF k
  <2>3. /\ call.dest + k \in Addr /\ call.src + k \in Addr
        /\ mem[call.src + k] = entry[call.src + k] /\ entry[call.src + k] \in Byte
        /\ entry[call.src + k] = NUL => Length(call.src) = k
    BY <1>3, <2>1, MayCopy
  <2>4. /\ Place(k) = entry[call.src + k]
        /\ entry[call.src + k] # NUL => Unended(k + 1)
    BY <2>1, PlaceOf
  <2>5. mem' \in [Addr -> Byte] /\ StringWritten(mem', k + 1)
    BY <1>2, <1>3, <2>1, <2>2, <2>3, <2>4, PlaceWritten
  <2>6. mem'[call.dest + k] = mem[call.src + k]
    BY <1>3, <2>2, <2>3 DEF Store
  <2>. QED  BY <2>3, <2>4, <2>5, <2>6 DEF k
<1>9. CASE Strcpy
  <2>1. r.pc = "strcpy" /\ r.pc = call.routine /\ r.pc \in Copies
    BY <1>9 DEF Strcpy, At, CopyInv, Copies
  <2>2. Store(call.dest + r.cx, mem[call.src + r.cx])
    BY <1>9 DEF Strcpy
  <2>3. CASE mem[call.src + r.cx] = NUL
    <3>1. Returns(0)  BY <1>9, <2>3 DEF Strcpy
    <3>. QED  BY <1>5, <1>8, <2>1, <2>2, <2>3, <3>1
  <2>4. CASE mem[call.src + r.cx] # NUL
    <3>1. r' = [r EXCEPT !.cx = r.cx + 1]  BY <1>9, <2>4 DEF Strcpy
    <3>. QED  BY <1>6, <1>8, <2>1, <2>2, <2>4, <3>1
  <2>. QED  BY <2>3, <2>4
<1>10. CASE ece391_strcpy
  <2>1. r.pc = "ece391_strcpy" /\ r.pc = call.routine /\ r.pc \in Copies
    BY <1>10 DEF ece391_strcpy, At, CopyInv, Copies
  <2>2. Store(call.dest + r.cx, mem[call.src + r.cx])
    BY <1>10 DEF ece391_strcpy
  <2>3. mem'[call.dest + r.cx] = mem[call.src + r.cx]
    BY <1>8, <2>1, <2>2
  <2>4. CASE mem[call.src + r.cx] = NUL
    <3>1. Returns(0)  BY <1>10, <2>3, <2>4 DEF ece391_strcpy
    <3>. QED  BY <1>5, <1>8, <2>1, <2>2, <2>4, <3>1
  <2>5. CASE mem[call.src + r.cx] # NUL
    <3>1. r' = [r EXCEPT !.cx = r.cx + 1]  BY <1>10, <2>3, <2>5 DEF ece391_strcpy
    <3>. QED  BY <1>6, <1>8, <2>1, <2>2, <2>5, <3>1
  <2>. QED  BY <2>4, <2>5
<1>11. CASE Strncpy
  <2>1. r.pc = "strncpy" /\ r.pc = call.routine /\ r.pc \in Copies /\ r.cx <= call.n
        /\ Unended(r.cx) /\ StringWritten(mem, r.cx)
    BY <1>11 DEF Strncpy, At, CopyInv, Copies
  <2>2. CASE r.cx < call.n /\ mem[call.src + r.cx] # NUL
    <3>1. /\ Store(call.dest + r.cx, mem[call.src + r.cx])
          /\ r' = [r EXCEPT !.cx = r.cx + 1]
      BY <1>11, <2>2 DEF Strncpy
    <3>. QED  BY <1>6, <1>8, <2>1, <2>2, <3>1
  <2>3. CASE ~(r.cx < call.n /\ mem[call.src + r.cx] # NUL)
    <3>1. Goto("pad") /\ mem' = mem
      BY <1>11, <2>3 DEF Strncpy
    <3>2. r' = [r EXCEPT !.pc = "pad", !.cx = r.cx]
      BY <1>4, <3>1 DEF Goto, Record
    <3>3. r.cx = call.n \/ Ended(r.cx)
      <4>. SUFFICES ASSUME r.cx < call.n  PROVE Ended(r.cx)
        BY <1>2, <1>4, <2>1
      <4>1. mem[call.src + r.cx] = NUL
        BY <2>3
      <4>. DEFINE k == r.cx
      <4>2. k \in Nat /\ Unended(k) /\ StringWritten(mem, k) /\ k < call.n
        BY <1>4, <2>1
      <4>. HIDE DEF k
      <4>3. mem[call.src + k] = entry[call.src + k]
        BY <1>3, <4>2, MayCopy
      <4>4. Ended(k) <=> entry[call.src + k] = NUL
        BY <4>2, PlaceOf
      <4>. QED  BY <4>1, <4>3, <4>4 DEF k
    <3>. QED  BY <1>3, <1>4, <1>7, <2>1, <3>1, <3>2, <3>3
  <2>. QED  BY <2>2, <2>3
<1>12. CASE Pad
  <2>1. /\ r.pc = "pad" /\ call.routine = "strncpy" /\ r.cx <= call.n
        /\ StringWritten(mem, r.cx) /\ (r.cx = call.n \/ Ended(r.cx))
    BY <1>12 DEF Pad, At, CopyInv, Copies
  <2>2. CASE ~Padded
    <3>1. Store(call.dest + r.cx, NUL) /\ r' = [r EXCEPT !.cx = r.cx + 1]
      BY <1>12, <2>2 DEF Pad
    <3>2. r.cx < call.n /\ Ended(r.cx) /\ r.cx + 1 <= call.n /\ r.cx + 1 \in Nat
      BY <1>2, <1>4, <2>1, <2>2 DEF Padded
    <3>3. NUL \in Byte /\ NUL = Place(r.cx)
      BY <3>2 DEF Place, NUL, Byte
    <3>4. mem' \in [Addr -> Byte] /\ StringWritten(mem', r.cx + 1)
      BY <1>2, <1>3, <1>4, <2>1, <3>1, <3>3, PlaceWritten
    <3>5. Ended(r.cx + 1)
      <4>1. PICK j \in 0 .. r.cx : entry[call.src + j] = NUL
        BY <3>2 DEF Ended
      <4>2. j \in 0 .. r.cx + 1
        BY <1>4
      <4>. QED  BY <4>1, <4>2 DEF Ended
    <3>6. r' = [r EXCEPT !.pc = "pad", !.cx = r.cx + 1]
      BY <1>4, <2>1, <3>1 DEF Record
    <3>. QED  BY <1>7, <2>1, <3>2, <3>4, <3>5, <3>6
  <2>3. CASE Padded
    <3>1. Returns(0) /\ mem' = mem
      BY <1>12, <2>3 DEF Pad
    <3>2. r.cx = call.n
      BY <1>2, <1>4, <2>1, <2>3 DEF Padded
    <3>. QED  BY <1>3, <1>5, <2>1, <3>1, <3>2
  <2>. QED  BY <2>2, <2>3
<1>13. CASE UNCHANGED libraryVars
  <2>1. r' = r /\ mem' = mem
    BY <1>13 DEF libraryVars
  <2>. QED
    BY <1>1, <2>1 DEF CopyInv, Unended, StringWritten, Place, Ended, Length
<1>. QED
  BY <1>3, <1>9, <1>10, <1>11, <1>12, <1>13
  DEF LibraryNext, Top, Words, Bottom, Move, Strncmp, ZeroLength, Compare, Zero, Digits,
      Strlen, Swap, At

\* The kernel's and the programs' strcpy copy a string up to its NUL and strncpy
\* copies at most n bytes and fills with NULs, for all strings, lengths and overlaps
\* that callers may pass; no byte behind the copy is touched.
THEOREM CopiesStayRight == LibrarySpec => []CopiesRight
<1>1. LibraryInit => CallFixed /\ CopyInv
  BY CallInit, CopyInit
<1>2. CallFixed /\ CopyInv /\ [LibraryNext]_libraryVars => CallFixed' /\ CopyInv'
  BY CallStep, CopyStep
<1>3. CallFixed /\ CopyInv => CopiesRight
  <2>. SUFFICES ASSUME CallFixed, CopyInv, r.pc = "done", call.routine \in Copies
                PROVE  CopiesRight
    BY DEF CopiesRight, Done, At, Copies
  <2>1. call.dest \in Nat /\ call.src \in Nat /\ call.n \in Nat /\ SIZE \in Nat
        /\ mem \in [Addr -> Byte]
    BY DEF CallFixed, Calls, Addr, CopyInv
  <2>2. CASE call.routine = "strncpy"
    <3>1. StringWritten(mem, call.n)
      BY <2>2 DEF CopyInv
    <3>. QED
      BY <2>2, <3>1 DEF CopiesRight, Done, StringWritten, Place, Ended
  <2>3. CASE call.routine \in {"strcpy", "ece391_strcpy"}
    <3>. DEFINE length == Length(call.src)
    <3>1. StringWritten(mem, length + 1)
      BY <2>3 DEF CopyInv
    <3>2. PICK a \in call.src .. SIZE - 1 : entry[a] = NUL
      BY <2>3 DEF CallFixed, Legal, Terminated
    <3>3. length \in Nat /\ \A i \in 0 .. length - 1 : entry[call.src + i] # NUL
          /\ entry[call.src + length] = NUL
      BY <2>1, <3>2, LengthExists DEF Length
    <3>. HIDE DEF length
    <3>4. ASSUME NEW i \in 0 .. (length + 1) - 1
          PROVE  Place(i) = entry[call.src + i]
      <4>1. Unended(i)
        BY <3>3 DEF Unended
      <4>2. i \in Nat
        BY <3>3
      <4>. QED  BY <4>1, <4>2, PlaceOf
    <3>5. \A b \in Addr : mem[b] = IF b - call.dest \in 0 .. (length + 1) - 1
                                   THEN entry[call.src + (b - call.dest)] ELSE entry[b]
      BY <3>1, <3>4 DEF StringWritten
    <3>6. mem = Copied(length + 1)
      BY <2>1, <3>5 DEF Copied
    <3>. QED
      BY <2>3, <3>6 DEF CopiesRight, Done, length
  <2>. QED  BY <2>2, <2>3 DEF Copies
<1>. QED
  BY <1>1, <1>2, <1>3, PTL DEF LibrarySpec

-----------------------------------------------------------------------------
(***************************************************************************)
(* itoa and strrev.  The loop that takes digits keeps what is left of the  *)
(* number; strrev then turns the string round that it finds, and after i   *)
(* swaps the first i and the last i places have changed with each other.   *)
(***************************************************************************)
RadixFixed == call.routine = "itoa" => call.c \in Radixes

LEMMA RadixInit == LibraryInit => RadixFixed
<1>. SUFFICES ASSUME LibraryInit, call.routine = "itoa"  PROVE call.c \in Radixes
  BY DEF RadixFixed
<1>1. PICK routine \in Routines, dest \in Addr :
          \E src \in Sources(routine), n \in Numbers(routine), c \in Parameters(routine) :
              call = [routine |-> routine, dest |-> dest, src |-> src, n |-> n, c |-> c]
  BY DEF LibraryInit
<1>2. PICK src \in Sources(routine), n \in Numbers(routine), c \in Parameters(routine) :
          call = [routine |-> routine, dest |-> dest, src |-> src, n |-> n, c |-> c]
  BY <1>1
<1>3. routine = "itoa" /\ call.c = c
  BY <1>2
<1>. QED  BY <1>3 DEF Parameters

LEMMA RadixStep == RadixFixed /\ CallFixed /\ [LibraryNext]_libraryVars => RadixFixed'
BY CallStep DEF RadixFixed

\* What is left of the number after i digits.
Remains(i) == Rest(call.n, call.c)[i]

\* The string that strrev is given: what was at dest at the call, or the digits.
GivenText(m, k) ==
    /\ m \in [Addr -> Byte] /\ k \in Nat /\ call.dest + k \in Addr
    /\ m[call.dest + k] = NUL /\ \A i \in 0 .. k - 1 : m[call.dest + i] # NUL
    /\ call.routine = "strrev" => m = entry
    /\ call.routine = "itoa" =>
        /\ k > 0 /\ Remains(k) = 0 /\ Remains(k - 1) # 0
        /\ \A i \in 0 .. k - 1 : m[call.dest + i] = Digit(Remains(i) % call.c)

\* The first i places of a text of k have changed with the last i.
Turned(m, text, k, i) ==
    \A a \in Addr :
        m[a] = IF a - call.dest \in (0 .. i - 1) \cup (k - i .. k - 1)
               THEN text[call.dest + (k - 1 - (a - call.dest))] ELSE text[a]

Reversed(m, text, k) ==
    \A a \in Addr :
        m[a] = IF a - call.dest \in 0 .. k - 1
               THEN text[call.dest + (k - 1 - (a - call.dest))] ELSE text[a]

ConversionInv ==
    call.routine \in Conversions =>
        /\ r \in Cursors /\ r.pc \in {"zero", "digits", "strlen", "swap", "done"}
        /\ mem \in [Addr -> Byte]
        /\ r.pc = "zero" => call.routine = "itoa" /\ call.n = 0
        /\ r.pc = "digits" =>
            /\ call.routine = "itoa" /\ call.n # 0
            /\ \E k \in Nat :
                /\ r.di = call.dest + k /\ k <= SIZE - call.dest - 1
                /\ r.cx = Remains(k)
                /\ k > 0 => Remains(k - 1) # 0
                /\ \A i \in 0 .. k - 1 : mem[call.dest + i] = Digit(Remains(i) % call.c)
        /\ r.pc = "strlen" => \E k \in Nat : GivenText(mem, k) /\ r.cx <= k
        /\ r.pc = "swap" =>
            \E k \in Nat, text \in [Addr -> Byte], i \in Nat :
                /\ GivenText(text, k) /\ Turned(mem, text, k, i) /\ 2 * i <= k
                /\ r.di = i /\ r.si = k - 1 - i
        /\ r.pc = "done" =>
            \/ /\ call.routine = "itoa" /\ call.n = 0
               /\ mem[call.dest] = Digit(0) /\ mem[call.dest + 1] = NUL
               /\ call.dest + 1 \in Addr
            \/ /\ call.routine = "itoa" => call.n # 0
               /\ \E k \in Nat, text \in [Addr -> Byte] : GivenText(text, k) /\ Reversed(mem, text, k)

LEMMA ConversionLegal ==
    ASSUME CallFixed, RadixFixed, call.routine \in Conversions
    PROVE  /\ call.dest \in Nat /\ call.src \in Nat /\ call.n \in Nat
           /\ call.dest \in Addr /\ SIZE \in Nat
           /\ call.routine = "strrev" => Terminated(call.dest)
           /\ call.routine = "itoa" =>
                /\ call.c \in Nat \ {0} /\ call.c <= MaxByte /\ call.c > 1
                /\ call.dest + 1 \in Addr
                /\ Remains(SIZE - call.dest - 1) = 0 /\ Remains(0) = call.n
                /\ \A i \in Nat : Remains(i) \in Nat /\ Remains(i + 1) = Remains(i) \div call.c
<1>1. /\ call.dest \in Nat /\ call.src \in Nat /\ call.n \in Nat /\ call.dest \in Addr
      /\ SIZE \in Nat
  BY DEF CallFixed, Calls, Addr
<1>2. CASE call.routine = "strrev"
  BY <1>1, <1>2 DEF CallFixed, Legal
<1>3. CASE call.routine = "itoa"
  <2>1. Fits(call.dest, 2) /\ Remains(SIZE - call.dest - 1) = 0
    BY <1>3 DEF CallFixed, Legal, Remains
  <2>2. call.c \in Radixes
    BY <1>3 DEF RadixFixed
  <2>3. call.c \in Nat \ {0} /\ call.c <= MaxByte /\ call.c > 1
    BY <2>2 DEF Radixes
  <2>4. call.dest + 1 \in Addr
    BY <1>1, <2>1 DEF Fits, Addr
  <2>5. Remains(0) = call.n
        /\ \A i \in Nat : Remains(i) \in Nat /\ Remains(i + 1) = Remains(i) \div call.c
    <3>. DEFINE n == call.n
                c == call.c
    <3>1. n \in Nat /\ c \in Nat \ {0}
      BY <1>1, <2>3
    <3>. HIDE DEF n, c
    <3>2. /\ Rest(n, c) \in [Nat -> Nat] /\ Rest(n, c)[0] = n
          /\ \A i \in Nat : Rest(n, c)[i + 1] = Rest(n, c)[i] \div c
      BY <3>1, RestOf
    <3>3. \A i \in Nat : Rest(n, c)[i] \in Nat
      BY <3>2
    <3>. QED  BY <3>2, <3>3 DEF Remains, n, c
  <2>. QED  BY <1>1, <1>3, <2>1, <2>3, <2>4, <2>5
<1>. QED  BY <1>2, <1>3 DEF Conversions

LEMMA DigitIsByte ==
    ASSUME NEW c \in Nat \ {0}, c <= MaxByte, NEW x \in Nat
    PROVE  Digit(x % c) \in Byte /\ Digit(x % c) # NUL
<1>1. x % c \in 0 .. c - 1
  OBVIOUS
<1>. QED  BY <1>1 DEF Digit, Byte, NUL

LEMMA ConversionInit == LibraryInit => ConversionInv
<1>. SUFFICES ASSUME LibraryInit, call.routine \in Conversions
              PROVE  ConversionInv
  BY DEF ConversionInv
<1>1. /\ CallFixed /\ RadixFixed /\ mem = entry /\ r = Enter /\ mem \in [Addr -> Byte]
  BY CallInit, RadixInit DEF LibraryInit
<1>2. call.dest \in Nat /\ call.src \in Nat /\ call.n \in Nat /\ SIZE \in Nat
      /\ call.dest \in Int /\ call.src \in Int
  BY <1>1, ConversionLegal
<1>3. CASE call.routine = "strrev"
  <2>1. r = Record("strlen", call.dest, call.src, 0, 0, 1, 0)
    BY <1>1, <1>3 DEF Enter, Locals, Record, Copies
  <2>2. r \in Cursors
    BY ONLY <1>2, <2>1, InCursorPcs, CursorType
  <2>3. r.pc = "strlen" /\ r.cx = 0
    BY <2>1 DEF Record
  <2>4. Terminated(call.dest)
    BY <1>1, <1>3, ConversionLegal
  <2>5. PICK a \in call.dest .. SIZE - 1 : entry[a] = NUL
    BY <2>4 DEF Terminated
  <2>. DEFINE k == LengthIn(entry, call.dest)
  <2>6. k \in 0 .. SIZE - 1 /\ call.dest + k \in call.dest .. a /\ entry[call.dest + k] = NUL
        /\ \A i \in 0 .. k - 1 : entry[call.dest + i] # NUL
    BY <1>2, <2>5, LengthExists
  <2>. HIDE DEF k
  <2>7. k \in Nat /\ call.dest + k \in Addr
    BY <1>2, <2>5, <2>6 DEF Addr
  <2>8. GivenText(mem, k) /\ r.cx <= k
    BY <1>1, <1>3, <2>3, <2>6, <2>7 DEF GivenText
  <2>. QED
    BY <1>1, <2>2, <2>3, <2>7, <2>8 DEF ConversionInv
<1>4. CASE call.routine = "itoa" /\ call.n = 0
  <2>1. r = Record("zero", call.dest, call.src, call.n, 0, 1, 0)
    BY <1>1, <1>4 DEF Enter, Locals, Record, Copies
  <2>2. r \in Cursors
    BY ONLY <1>2, <2>1, InCursorPcs, CursorType
  <2>3. r.pc = "zero"
    BY <2>1 DEF Record
  <2>. QED
    BY <1>1, <1>4, <2>2, <2>3 DEF ConversionInv
<1>5. CASE call.routine = "itoa" /\ call.n # 0
  <2>1. r = Record("digits", call.dest, call.src, call.n, 0, 1, 0)
    BY <1>1, <1>5 DEF Enter, Locals, Record, Copies
  <2>2. r \in Cursors
    BY ONLY <1>2, <2>1, InCursorPcs, CursorType
  <2>3. r.pc = "digits" /\ r.di = call.dest + 0 /\ r.cx = call.n
    BY <1>2, <2>1 DEF Record
  <2>4. Remains(0) = call.n /\ call.dest + 1 \in Addr
    BY <1>1, <1>5, ConversionLegal
  <2>5. 0 <= SIZE - call.dest - 1
    BY <1>2, <2>4 DEF Addr
  <2>. QED
    BY <1>1, <1>5, <2>2, <2>3, <2>4, <2>5 DEF ConversionInv
<1>. QED  BY <1>3, <1>4, <1>5 DEF Conversions

\* A swap turns the next places round, and when the places meet all are turned.
LEMMA SwapTurns ==
    ASSUME mem \in [Addr -> Byte], NEW text \in [Addr -> Byte], NEW k \in Nat, NEW i \in Nat,
           call.dest \in Nat, call.dest + k \in Addr, Turned(mem, text, k, i),
           i < k - 1 - i,
           mem' = [mem EXCEPT ![call.dest + i] = mem[call.dest + (k - 1 - i)],
                              ![call.dest + (k - 1 - i)] = mem[call.dest + i]]
    PROVE  mem' \in [Addr -> Byte] /\ Turned(mem', text, k, i + 1)
<1>. DEFINE low == call.dest + i
            high == call.dest + (k - 1 - i)
            InTurned(x, n) == x \in (0 .. n - 1) \cup (k - n .. k - 1)
<1>1. low \in Addr /\ high \in Addr /\ low # high /\ SIZE \in Nat
  BY DEF Addr
<1>2. /\ low - call.dest = i /\ high - call.dest = k - 1 - i
      /\ ~InTurned(i, i) /\ ~InTurned(k - 1 - i, i)
  OBVIOUS
<1>3. mem[low] = text[low] /\ mem[high] = text[high]
  <2>1. ASSUME NEW a \in Addr, ~InTurned(a - call.dest, i)  PROVE mem[a] = text[a]
    BY <2>1 DEF Turned
  <2>. HIDE DEF low, high, InTurned
  <2>. QED  BY <1>1, <1>2, <2>1
<1>4. mem' = [mem EXCEPT ![low] = mem[high], ![high] = mem[low]]
  OBVIOUS
<1>5. mem' \in [Addr -> Byte]
  <2>. HIDE DEF low, high
  <2>. QED  BY <1>1, <1>4
<1>6. ASSUME NEW a \in Addr
      PROVE  mem'[a] = IF InTurned(a - call.dest, i + 1)
                       THEN text[call.dest + (k - 1 - (a - call.dest))] ELSE text[a]
  <2>1. a \in Int
    BY DEF Addr
  <2>2. CASE a = low
    <3>1. mem'[a] = text[high]
      <4>. HIDE DEF low, high
      <4>. QED  BY <1>1, <1>3, <1>4, <2>2
    <3>2. a - call.dest = i /\ InTurned(i, i + 1)
      BY <1>2, <2>2
    <3>. QED  BY <3>1, <3>2
  <2>3. CASE a = high
    <3>1. mem'[a] = text[low]
      <4>. HIDE DEF low, high
      <4>. QED  BY <1>1, <1>3, <1>4, <2>3
    <3>2. a - call.dest = k - 1 - i /\ InTurned(k - 1 - i, i + 1)
      BY <1>2, <2>3
    <3>3. call.dest + (k - 1 - (k - 1 - i)) = low
      OBVIOUS
    <3>. QED  BY <3>1, <3>2, <3>3
  <2>4. CASE a # low /\ a # high
    <3>1. mem'[a] = mem[a]
      <4>. HIDE DEF low, high
      <4>. QED  BY <1>1, <1>4, <2>4
    <3>2. InTurned(a - call.dest, i + 1) <=> InTurned(a - call.dest, i)
      BY <2>1, <2>4
    <3>3. mem[a] = IF InTurned(a - call.dest, i)
                   THEN text[call.dest + (k - 1 - (a - call.dest))] ELSE text[a]
      BY DEF Turned
    <3>. HIDE DEF InTurned
    <3>. QED  BY <3>1, <3>2, <3>3
  <2>. QED  BY <2>2, <2>3, <2>4
<1>. QED  BY <1>5, <1>6 DEF Turned

LEMMA TurnedIsReversed ==
    ASSUME mem \in [Addr -> Byte], NEW text \in [Addr -> Byte], NEW k \in Nat, NEW i \in Nat,
           call.dest \in Nat, Turned(mem, text, k, i), 2 * i <= k, ~(i < k - 1 - i)
    PROVE  Reversed(mem, text, k)
<1>. SUFFICES ASSUME NEW a \in Addr
              PROVE  mem[a] = IF a - call.dest \in 0 .. k - 1
                              THEN text[call.dest + (k - 1 - (a - call.dest))] ELSE text[a]
  BY DEF Reversed
<1>1. a \in Int
  BY DEF Addr
<1>2. mem[a] = IF a - call.dest \in (0 .. i - 1) \cup (k - i .. k - 1)
               THEN text[call.dest + (k - 1 - (a - call.dest))] ELSE text[a]
  BY DEF Turned
<1>3. CASE a - call.dest \in (0 .. i - 1) \cup (k - i .. k - 1)
  <2>1. a - call.dest \in 0 .. k - 1
    BY <1>1, <1>3
  <2>. QED  BY <1>2, <1>3, <2>1
<1>4. CASE a - call.dest \notin (0 .. i - 1) \cup (k - i .. k - 1)
  <2>1. CASE a - call.dest \in 0 .. k - 1
    <3>1. call.dest + (k - 1 - (a - call.dest)) = a
      BY <1>1, <1>4, <2>1
    <3>. QED  BY <1>2, <1>4, <2>1, <3>1
  <2>. QED  BY <1>2, <1>4, <2>1
<1>. QED  BY <1>3, <1>4

LEMMA ConversionStep ==
    CallFixed /\ RadixFixed /\ ConversionInv /\ [LibraryNext]_libraryVars => ConversionInv'
<1>. SUFFICES ASSUME CallFixed, RadixFixed, ConversionInv, [LibraryNext]_libraryVars,
                     call.routine \in Conversions
              PROVE  ConversionInv'
  BY CallStep DEF ConversionInv
<1>1. call' = call /\ entry' = entry
  BY CallStep
<1>2. call.dest \in Nat /\ call.src \in Nat /\ call.n \in Nat /\ SIZE \in Nat
      /\ call.dest \in Addr
  BY ConversionLegal
<1>3. /\ r \in Cursors /\ r.pc \in {"zero", "digits", "strlen", "swap", "done"}
      /\ mem \in [Addr -> Byte]
  BY DEF ConversionInv
<1>4. /\ r.di \in Int /\ r.si \in Int /\ r.cx \in Nat /\ r.dx \in Nat
      /\ r.step \in {1, -1} /\ r.result \in Int
      /\ r = Record(r.pc, r.di, r.si, r.cx, r.dx, r.step, r.result)
  BY <1>3, CursorOf
<1>5. \A m, k : GivenText(m, k) <=> GivenText(m, k)'
  BY <1>1 DEF GivenText, Remains
<1>6. ASSUME Returns(0), mem' \in [Addr -> Byte],
             \/ /\ call.routine = "itoa" /\ call.n = 0
                /\ mem'[call.dest] = Digit(0) /\ mem'[call.dest + 1] = NUL
                /\ call.dest + 1 \in Addr
             \/ /\ call.routine = "itoa" => call.n # 0
                /\ \E k \in Nat, text \in [Addr -> Byte] :
                        GivenText(text, k) /\ Reversed(mem', text, k)
      PROVE  ConversionInv'
  <2>1. r' = Record("done", r.di, r.si, r.cx, r.dx, r.step, 0)
    BY <1>4, <1>6 DEF Returns, Record
  <2>2. r' \in Cursors
    BY <1>4, <2>1, InCursorPcs, CursorType
  <2>3. r'.pc = "done"
    BY <2>1 DEF Record
  <2>4. CASE /\ call.routine = "itoa" /\ call.n = 0
             /\ mem'[call.dest] = Digit(0) /\ mem'[call.dest + 1] = NUL
             /\ call.dest + 1 \in Addr
    BY <1>1, <1>6, <2>2, <2>3, <2>4 DEF ConversionInv
  <2>5. CASE /\ call.routine = "itoa" => call.n # 0
             /\ \E k \in Nat, text \in [Addr -> Byte] :
                    GivenText(text, k) /\ Reversed(mem', text, k)
    <3>1. PICK k \in Nat, text \in [Addr -> Byte] : GivenText(text, k) /\ Reversed(mem', text, k)
      BY <2>5
    <3>2. (GivenText(text, k) /\ Reversed(mem, text, k))'
      BY <1>1, <3>1 DEF GivenText, Remains, Reversed
    <3>. QED
      BY <1>1, <1>6, <2>2, <2>3, <2>5, <3>2 DEF ConversionInv
  <2>. QED  BY <1>6, <2>4, <2>5
<1>7. CASE Zero
  <2>1. r.pc = "zero" /\ call.routine = "itoa" /\ call.n = 0
    BY <1>7 DEF Zero, At, ConversionInv
  <2>2. mem' = [mem EXCEPT ![call.dest] = Digit(0), ![call.dest + 1] = NUL] /\ Returns(0)
    BY <1>7 DEF Zero
  <2>3. call.dest + 1 \in Addr /\ MaxByte \in Nat /\ MaxByte >= 2
    BY <2>1, ConversionLegal
  <2>4. Digit(0) \in Byte /\ NUL \in Byte /\ call.dest # call.dest + 1
    BY <1>2, <2>3 DEF Digit, Byte, NUL
  <2>5. /\ mem' \in [Addr -> Byte]
        /\ mem'[call.dest] = Digit(0) /\ mem'[call.dest + 1] = NUL
    BY <1>2, <1>3, <2>2, <2>3, <2>4
  <2>. QED  BY <1>6, <2>1, <2>2, <2>3, <2>5
<1>8. CASE Digits
  <2>1. r.pc = "digits" /\ call.routine = "itoa" /\ call.n # 0
    BY <1>8 DEF Digits, At, ConversionInv
  <2>2. PICK k \in Nat :
            /\ r.di = call.dest + k /\ k <= SIZE - call.dest - 1
            /\ r.cx = Remains(k) /\ (k > 0 => Remains(k - 1) # 0)
            /\ \A i \in 0 .. k - 1 : mem[call.dest + i] = Digit(Remains(i) % call.c)
    BY <2>1 DEF ConversionInv
  <2>3. /\ call.c \in Nat \ {0} /\ call.c <= MaxByte
        /\ Remains(SIZE - call.dest - 1) = 0 /\ Remains(0) = call.n
        /\ \A i \in Nat : Remains(i) \in Nat /\ Remains(i + 1) = Remains(i) \div call.c
    BY <2>1, ConversionLegal
  <2>4. call.dest + k \in Addr
    BY <1>2, <2>2 DEF Addr
  <2>5. \A i \in 0 .. k - 1 : call.dest + i \in Addr /\ call.dest + i # call.dest + k
    BY <1>2, <2>2 DEF Addr
  <2>6. CASE r.cx > 0
    <3>. DEFINE byte == Digit(r.cx % call.c)
    <3>1. Store(call.dest + k, byte)
          /\ r' = [r EXCEPT !.di = r.di + 1, !.cx = r.cx \div call.c]
      BY <1>8, <2>2, <2>6 DEF Digits
    <3>2. byte \in Byte
      BY <1>4, <2>3, DigitIsByte
    <3>3. byte = Digit(Remains(k) % call.c)
      BY <2>2
    <3>. HIDE DEF byte
    <3>4. mem' \in [Addr -> Byte] /\ mem'[call.dest + k] = byte
          /\ \A i \in 0 .. k - 1 : mem'[call.dest + i] = mem[call.dest + i]
      BY <1>3, <2>4, <2>5, <3>1, <3>2 DEF Store
    <3>5. r.cx \div call.c = Remains(k + 1) /\ Remains(k + 1) \in Nat
      BY <2>2, <2>3
    <3>6. r' = Record("digits", r.di + 1, r.si, Remains(k + 1), r.dx, r.step, r.result)
      BY <1>4, <2>1, <3>1, <3>5 DEF Record
    <3>7. r' \in Cursors
      <4>1. r.di + 1 \in Int
        BY <1>4
      <4>. QED  BY <1>4, <3>5, <3>6, <4>1, InCursorPcs, CursorType
    <3>8. r'.pc = "digits" /\ r'.di = r.di + 1 /\ r'.cx = Remains(k + 1)
      BY <3>6 DEF Record
    <3>9. k + 1 <= SIZE - call.dest - 1
      <4>1. k # SIZE - call.dest - 1
        BY <2>2, <2>3, <2>6
      <4>. QED  BY <1>2, <2>2, <4>1
    <3>10. r'.di = call.dest + (k + 1) /\ (k + 1) - 1 = k /\ Remains(k) # 0 /\ k + 1 \in Nat
      BY <1>2, <2>2, <2>6, <3>8
    <3>11. ASSUME NEW i \in 0 .. (k + 1) - 1
           PROVE  mem'[call.dest + i] = Digit(Remains(i) % call.c)
      <4>1. CASE i = k  BY <3>3, <3>4, <4>1
      <4>2. CASE i # k
        <5>1. i \in 0 .. k - 1  BY <4>2
        <5>. QED  BY <2>2, <3>4, <5>1
      <4>. QED  BY <4>1, <4>2
    <3>12. /\ r'.cx = Remains(k + 1)' /\ (k + 1 > 0 => Remains((k + 1) - 1)' # 0)
           /\ \A i \in 0 .. (k + 1) - 1 : mem'[call'.dest + i] = Digit(Remains(i)' % call'.c)
      BY <1>1, <3>8, <3>10, <3>11 DEF Remains
    <3>. QED
      BY <1>1, <2>1, <3>4, <3>7, <3>8, <3>9, <3>10, <3>12 DEF ConversionInv
  <2>7. CASE ~(r.cx > 0)
    <3>1. Store(call.dest + k, NUL) /\ r' = [r EXCEPT !.pc = "strlen", !.cx = 0]
      BY <1>8, <2>2, <2>7 DEF Digits
    <3>2. NUL \in Byte
      BY DEF NUL, Byte
    <3>3. mem' \in [Addr -> Byte] /\ mem'[call.dest + k] = NUL
          /\ \A i \in 0 .. k - 1 : mem'[call.dest + i] = mem[call.dest + i]
      BY <1>3, <2>4, <2>5, <3>1, <3>2 DEF Store
    <3>4. r' = Record("strlen", r.di, r.si, 0, r.dx, r.step, r.result)
      BY <1>4, <2>1, <3>1 DEF Record
    <3>5. r' \in Cursors
      BY <1>4, <3>4, InCursorPcs, CursorType
    <3>6. r'.pc = "strlen" /\ r'.cx = 0
      BY <3>4 DEF Record
    <3>7. Remains(k) = 0
      BY <1>4, <2>2, <2>7
    <3>8. k > 0
      BY <2>1, <2>2, <2>3, <3>7
    <3>9. \A i \in 0 .. k - 1 : mem'[call.dest + i] = Digit(Remains(i) % call.c)
                                /\ mem'[call.dest + i] # NUL
      <4>. TAKE i \in 0 .. k - 1
      <4>1. Remains(i) \in Nat
        BY <2>3
      <4>. QED  BY <2>2, <2>3, <3>3, <4>1, DigitIsByte
    <3>10. GivenText(mem', k)
      BY <2>1, <2>2, <2>4, <3>3, <3>7, <3>8, <3>9 DEF GivenText
    <3>11. GivenText(mem, k)' /\ r'.cx <= k
      BY <1>1, <3>6, <3>10 DEF GivenText, Remains
    <3>. QED
      BY <1>1, <3>3, <3>5, <3>6, <3>11 DEF ConversionInv
  <2>. QED  BY <2>6, <2>7
<1>9. CASE Strlen
  <2>1. r.pc = "strlen" /\ mem' = mem
    BY <1>9 DEF Strlen, At
  <2>2. PICK k \in Nat : GivenText(mem, k) /\ r.cx <= k
    BY <2>1 DEF ConversionInv
  <2>3. CASE mem[call.dest + r.cx] # NUL
    <3>1. r' = [r EXCEPT !.cx = r.cx + 1]
      BY <1>9, <2>3 DEF Strlen
    <3>2. r' = Record("strlen", r.di, r.si, r.cx + 1, r.dx, r.step, r.result)
      BY <1>4, <2>1, <3>1 DEF Record
    <3>3. r' \in Cursors
      <4>1. r.cx + 1 \in Nat
        BY <1>4
      <4>. QED  BY <1>4, <3>2, <4>1, InCursorPcs, CursorType
    <3>4. r'.pc = "strlen" /\ r'.cx = r.cx + 1
      BY <3>2 DEF Record
    <3>5. r.cx # k
      BY <2>2, <2>3 DEF GivenText
    <3>6. r'.cx <= k
      BY <1>4, <2>2, <3>4, <3>5
    <3>7. GivenText(mem, k)'
      BY <1>1, <2>1, <2>2 DEF GivenText, Remains
    <3>. QED
      BY <1>1, <1>3, <2>1, <3>3, <3>4, <3>6, <3>7 DEF ConversionInv
  <2>4. CASE mem[call.dest + r.cx] = NUL
    <3>1. r' = [r EXCEPT !.pc = "swap", !.di = 0, !.si = r.cx - 1]
      BY <1>9, <2>4 DEF Strlen, LastIndex
    <3>2. r' = Record("swap", 0, r.cx - 1, r.cx, r.dx, r.step, r.result)
      BY <1>4, <2>1, <3>1 DEF Record
    <3>3. r.cx - 1 \in Int
      BY <1>4
    <3>4. r' \in Cursors
      BY <1>4, <3>2, <3>3, InCursorPcs, CursorType
    <3>5. r.cx = k
      <4>1. ASSUME r.cx < k  PROVE r.cx \in 0 .. k - 1
        BY <1>4, <4>1
      <4>2. ~(r.cx < k)
        BY <2>2, <2>4, <4>1 DEF GivenText
      <4>. QED  BY <1>4, <2>2, <4>2
    <3>6. r'.pc = "swap" /\ r'.di = 0 /\ r'.si = k - 1 - 0
      BY <3>2, <3>5 DEF Record
    <3>7. GivenText(mem, k)'
      BY <1>1, <2>1, <2>2 DEF GivenText, Remains
    <3>8. Turned(mem, mem, k, 0)'
      <4>1. \A x : x \notin (0 .. 0 - 1) \cup (k - 0 .. k - 1)
        OBVIOUS
      <4>. QED  BY <4>1 DEF Turned
    <3>9. 2 * 0 <= k /\ 0 \in Nat
      OBVIOUS
    <3>10. \E j \in Nat, text \in [Addr -> Byte], i \in Nat :
                /\ GivenText(text, j)' /\ Turned(mem, text, j, i)' /\ 2 * i <= j
                /\ r'.di = i /\ r'.si = j - 1 - i
      BY <1>3, <2>1, <3>6, <3>7, <3>8, <3>9
    <3>. QED
      BY <1>1, <1>3, <2>1, <3>4, <3>6, <3>10 DEF ConversionInv
  <2>. QED  BY <2>3, <2>4
<1>10. CASE Swap
  <2>1. r.pc = "swap"
    BY <1>10 DEF Swap, At
  <2>2. PICK k \in Nat, text \in [Addr -> Byte], i \in Nat :
            /\ GivenText(text, k) /\ Turned(mem, text, k, i) /\ 2 * i <= k
            /\ r.di = i /\ r.si = k - 1 - i
    BY <2>1 DEF ConversionInv
  <2>3. call.dest + k \in Addr
    BY <2>2 DEF GivenText
  <2>4. CASE r.di < r.si
    <3>1. /\ mem' = [mem EXCEPT ![call.dest + i] = mem[call.dest + (k - 1 - i)],
                                ![call.dest + (k - 1 - i)] = mem[call.dest + i]]
          /\ r' = [r EXCEPT !.di = r.di + 1, !.si = r.si - 1]
      BY <1>10, <2>2, <2>4 DEF Swap
    <3>2. i < k - 1 - i
      BY <2>2, <2>4
    <3>3. mem' \in [Addr -> Byte] /\ Turned(mem', text, k, i + 1)
      BY <1>2, <1>3, <2>2, <2>3, <3>1, <3>2, SwapTurns
    <3>4. r' = Record("swap", r.di + 1, r.si - 1, r.cx, r.dx, r.step, r.result)
      BY <1>4, <2>1, <3>1 DEF Record
    <3>5. r.di + 1 \in Int /\ r.si - 1 \in Int
      BY <1>4
    <3>6. r' \in Cursors
      BY <1>4, <3>4, <3>5, InCursorPcs, CursorType
    <3>7. r'.pc = "swap" /\ r'.di = i + 1 /\ r'.si = k - 1 - (i + 1)
      <4>1. r'.pc = "swap" /\ r'.di = r.di + 1 /\ r'.si = r.si - 1
        BY <3>4 DEF Record
      <4>. QED  BY <2>2, <4>1
    <3>8. 2 * (i + 1) <= k /\ i + 1 \in Nat
      BY <3>2
    <3>9. GivenText(text, k)' /\ Turned(mem, text, k, i + 1)'
      BY <1>1, <2>2, <3>3 DEF GivenText, Remains, Turned
    <3>10. \E j \in Nat, t \in [Addr -> Byte], n \in Nat :
                /\ GivenText(t, j)' /\ Turned(mem, t, j, n)' /\ 2 * n <= j
                /\ r'.di = n /\ r'.si = j - 1 - n
      BY <3>7, <3>8, <3>9
    <3>. QED
      BY <1>1, <3>3, <3>6, <3>7, <3>10 DEF ConversionInv
  <2>5. CASE ~(r.di < r.si)
    <3>1. Returns(0) /\ mem' = mem
      BY <1>10, <2>5 DEF Swap
    <3>2. Reversed(mem, text, k)
      BY <1>2, <1>3, <2>2, <2>5, TurnedIsReversed
    <3>3. call.routine = "itoa" => call.n # 0
      <4>. SUFFICES ASSUME call.routine = "itoa", call.n = 0  PROVE FALSE
        OBVIOUS
      <4>1. /\ call.c \in Nat \ {0} /\ Remains(0) = 0
            /\ \A j \in Nat : Remains(j) \in Nat /\ Remains(j + 1) = Remains(j) \div call.c
        BY ConversionLegal
      <4>2. k > 0 /\ Remains(k - 1) # 0
        BY <2>2 DEF GivenText
      <4>. DEFINE Zeros == {j \in Nat : Remains(j) = 0}
      <4>3. 0 \in Zeros
        BY <4>1
      <4>4. ASSUME NEW j \in Nat, j \in Zeros  PROVE j + 1 \in Zeros
        <5>1. 0 \div call.c = 0  BY <4>1
        <5>. QED  BY <4>1, <4>4, <5>1
      <4>5. \A j \in Nat : j \in Zeros
        <5>. HIDE DEF Zeros
        <5>. QED  BY <4>3, <4>4, Induct
      <4>. QED  BY <4>2, <4>5
    <3>. QED  BY <1>3, <1>6, <2>2, <3>1, <3>2, <3>3
  <2>. QED  BY <2>4, <2>5
<1>11. CASE UNCHANGED libraryVars
  <2>1. r' = r /\ mem' = mem
    BY <1>11 DEF libraryVars
  <2>. QED
    BY <1>1, <2>1 DEF ConversionInv, GivenText, Turned, Reversed, Remains
<1>. QED
  BY <1>3, <1>7, <1>8, <1>9, <1>10, <1>11
  DEF LibraryNext, Top, Words, Bottom, Move, Strcpy, ece391_strcpy, Strncpy, Pad, Strncmp,
      ZeroLength, Compare, At

\* The digits of a number, the highest first, stand for the number: what they have
\* added up to after i of them is what is left of the number after the other k - i.
DigitsOf(s, k, c, left) ==
    /\ s \in Nat /\ k \in Nat /\ c \in Nat \ {0}
    /\ left \in [Nat -> Nat] /\ left[k] = 0
    /\ \A i \in Nat : left[i + 1] = left[i] \div c
    /\ LengthIn(mem, s) = k
    /\ \A i \in 0 .. k - 1 : mem[s + i] = Digit(left[k - 1 - i] % c)

LEMMA DigitsAddUp ==
    ASSUME NEW s, NEW k, NEW c, NEW left, DigitsOf(s, k, c, left)
    PROVE  NumberOf(s, c) = left[0]
<1>0. /\ s \in Nat /\ k \in Nat /\ c \in Nat \ {0}
      /\ left \in [Nat -> Nat] /\ left[k] = 0
      /\ \A i \in Nat : left[i + 1] = left[i] \div c
      /\ LengthIn(mem, s) = k
      /\ \A i \in 0 .. k - 1 : mem[s + i] = Digit(left[k - 1 - i] % c)
  BY DEF DigitsOf
<1>. USE <1>0
<1>. DEFINE Adds(f) == f = [i \in 0 .. k |->
                               IF i = 0 THEN 0 ELSE c * f[i - 1] + (mem[s + i - 1] - Digit(0))]
            total == [i \in 0 .. k |-> left[k - i]]
            value == CHOOSE f : Adds(f)
<1>1. ASSUME NEW i \in 1 .. k
      PROVE  left[k - i] = c * left[k - (i - 1)] + (mem[s + i - 1] - Digit(0))
  <2>. DEFINE n == left[k - i]
  <2>1. k - i \in Nat /\ (k - i) + 1 = k - (i - 1) /\ n \in Nat
    OBVIOUS
  <2>2. left[k - (i - 1)] = n \div c
    BY <2>1
  <2>3. mem[s + (i - 1)] = Digit(left[k - 1 - (i - 1)] % c)
    <3>1. i - 1 \in 0 .. k - 1
      OBVIOUS
    <3>. QED  BY <3>1
  <2>4. s + (i - 1) = s + i - 1 /\ k - 1 - (i - 1) = k - i
    OBVIOUS
  <2>. HIDE DEF n
  <2>5. n % c \in Nat /\ c * (n \div c) + (n % c) = n
    BY <2>1, DivMod
  <2>6. mem[s + i - 1] - Digit(0) = n % c
    BY <2>3, <2>4, <2>5 DEF Digit, n
  <2>7. c * left[k - (i - 1)] + (mem[s + i - 1] - Digit(0)) = n
    BY <2>2, <2>5, <2>6
  <2>. QED  BY <2>7 DEF n
<1>2. Adds(total)
  <2>1. ASSUME NEW i \in 0 .. k
        PROVE  left[k - i] = IF i = 0 THEN 0
                             ELSE c * left[k - (i - 1)] + (mem[s + i - 1] - Digit(0))
    <3>1. CASE i = 0  BY <3>1
    <3>2. CASE i # 0
      <4>1. i \in 1 .. k  BY <3>2
      <4>. QED  BY <1>1, <3>2, <4>1
    <3>. QED  BY <3>1, <3>2
  <2>2. \A i \in 0 .. k : total[i] = IF i = 0 THEN 0
                                      ELSE c * total[i - 1] + (mem[s + i - 1] - Digit(0))
    <3>. TAKE i \in 0 .. k
    <3>1. total[i] = left[k - i]
      OBVIOUS
    <3>2. CASE i = 0
      <4>1. left[k - i] = 0
        BY <2>1, <3>2
      <4>. QED  BY <3>1, <3>2, <4>1
    <3>3. CASE i # 0
      <4>1. i - 1 \in 0 .. k
        BY <3>3
      <4>2. total[i - 1] = left[k - (i - 1)]
        BY <4>1
      <4>3. left[k - i] = c * left[k - (i - 1)] + (mem[s + i - 1] - Digit(0))
        BY ONLY <2>1, <3>3
      <4>. HIDE DEF total
      <4>. QED  BY ONLY <3>1, <3>3, <4>2, <4>3
    <3>. QED  BY <3>2, <3>3
  <2>3. total = [i \in 0 .. k |-> total[i]]
    OBVIOUS
  <2>. HIDE DEF total
  <2>4. [i \in 0 .. k |-> total[i]] =
            [i \in 0 .. k |->
                IF i = 0 THEN 0 ELSE c * total[i - 1] + (mem[s + i - 1] - Digit(0))]
    BY ONLY <2>2
  <2>. QED  BY ONLY <2>3, <2>4
<1>3. Adds(value)
  <2>. HIDE DEF Adds, total
  <2>. QED  BY <1>2
<1>4. NumberOf(s, c) = value[k]
  BY DEF NumberOf
<1>. HIDE DEF value
<1>5. \A i \in Nat : i \in {j \in Nat : j <= k => value[j] = left[k - j]}
  <2>1. value[0] = 0 /\ left[k - 0] = 0
    BY <1>3
  <2>2. ASSUME NEW i \in Nat, i + 1 <= k, value[i] = left[k - i]
        PROVE  value[i + 1] = left[k - (i + 1)]
    <3>1. i + 1 \in 1 .. k /\ i + 1 \in 0 .. k /\ i + 1 # 0 /\ (i + 1) - 1 = i
      BY <2>2
    <3>2. value[i + 1] = c * value[(i + 1) - 1] + (mem[s + (i + 1) - 1] - Digit(0))
      BY <1>3, <3>1
    <3>3. left[k - (i + 1)] = c * left[k - ((i + 1) - 1)] + (mem[s + (i + 1) - 1] - Digit(0))
      BY <1>1, <3>1
    <3>. QED  BY <2>2, <3>1, <3>2, <3>3
  <2>. DEFINE T == {j \in Nat : j <= k => value[j] = left[k - j]}
  <2>3. 0 \in T
    BY <2>1
  <2>4. ASSUME NEW i \in Nat, i \in T  PROVE i + 1 \in T
    BY <2>2, <2>4
  <2>5. \A i \in Nat : i \in T
    <3>. HIDE DEF T
    <3>. QED  BY <2>3, <2>4, Induct
  <2>. QED  BY <2>5
<1>6. value[k] = left[k - k]
  BY <1>5
<1>. QED  BY <1>4, <1>6

LEMMA NumberConverted ==
    ASSUME CallFixed, RadixFixed, call.routine = "itoa", call.n # 0,
           NEW k \in Nat, NEW text \in [Addr -> Byte], GivenText(text, k), Reversed(mem, text, k)
    PROVE  NumberOf(call.dest, call.c) = call.n /\ mem[call.dest] # Digit(0)
<1>1. /\ call.dest \in Nat /\ call.dest \in Addr /\ SIZE \in Nat
      /\ call.c \in Nat \ {0} /\ Remains(0) = call.n /\ call.n \in Nat
      /\ \A i \in Nat : Remains(i) \in Nat /\ Remains(i + 1) = Remains(i) \div call.c
  BY ConversionLegal DEF Conversions
<1>2. /\ call.dest + k \in Addr /\ text[call.dest + k] = NUL
      /\ \A i \in 0 .. k - 1 : text[call.dest + i] # NUL
      /\ k > 0 /\ Remains(k) = 0 /\ Remains(k - 1) # 0
      /\ \A i \in 0 .. k - 1 : text[call.dest + i] = Digit(Remains(i) % call.c)
  BY DEF GivenText
<1>3. ASSUME NEW i \in 0 .. k - 1
      PROVE  /\ mem[call.dest + i] = text[call.dest + (k - 1 - i)]
             /\ k - 1 - i \in 0 .. k - 1
  <2>. DEFINE a == call.dest + i
  <2>5. call.dest \in Nat /\ SIZE \in Nat /\ call.dest + k \in Addr
    BY <1>1, <1>2
  <2>1. call.dest + k < SIZE
    BY <2>5 DEF Addr
  <2>3. a \in 0 .. SIZE - 1 /\ a - call.dest = i
    BY <1>1, <2>1
  <2>. HIDE DEF a
  <2>2. mem[a] = text[call.dest + (k - 1 - i)]
    BY <2>3 DEF Reversed, Addr
  <2>4. k - 1 - i \in 0 .. k - 1
    OBVIOUS
  <2>. QED  BY <2>2, <2>4 DEF a
<1>4. mem[call.dest + k] = NUL
  <2>. DEFINE a == call.dest + k
  <2>1. a \in Addr /\ a - call.dest \notin 0 .. k - 1
    BY <1>1, <1>2
  <2>2. text[a] = NUL
    BY <1>2
  <2>. HIDE DEF a
  <2>3. mem[a] = NUL
    BY <2>1, <2>2 DEF Reversed
  <2>. QED  BY <2>3 DEF a
<1>5. LengthIn(mem, call.dest) = k
  <2>1. \A i \in 0 .. k - 1 : mem[call.dest + i] # NUL
    BY <1>2, <1>3
  <2>. DEFINE s == call.dest
              n == k
  <2>2. /\ s \in Nat /\ n \in Nat /\ s + n \in Addr /\ mem[s + n] = NUL
        /\ \A i \in 0 .. n - 1 : mem[s + i] # NUL
    BY <1>1, <1>2, <1>4, <2>1
  <2>. HIDE DEF s, n
  <2>3. LengthIn(mem, s) = n
    BY <2>2, LengthIs
  <2>. QED  BY <2>3 DEF s, n
<1>. DEFINE left == [i \in Nat |-> Remains(i)]
<1>6. /\ left \in [Nat -> Nat] /\ left[k] = 0 /\ left[0] = call.n
      /\ \A i \in Nat : left[i + 1] = left[i] \div call.c
  BY <1>1, <1>2
<1>7. \A i \in 0 .. k - 1 : mem[call.dest + i] = Digit(left[k - 1 - i] % call.c)
  <2>. TAKE i \in 0 .. k - 1
  <2>1. k - 1 - i \in Nat
    OBVIOUS
  <2>2. mem[call.dest + i] = Digit(Remains(k - 1 - i) % call.c)
    BY <1>2, <1>3
  <2>. QED  BY <2>1, <2>2
<1>8. NumberOf(call.dest, call.c) = call.n
  <2>. DEFINE c == call.c
              s == call.dest
              n == k
  <2>. HIDE DEF left
  <2>1. DigitsOf(s, n, c, left)
    BY <1>1, <1>5, <1>6, <1>7 DEF DigitsOf
  <2>. HIDE DEF c, s, n
  <2>2. NumberOf(s, c) = left[0]
    BY <2>1, DigitsAddUp
  <2>. QED  BY <1>6, <2>2 DEF s, c
<1>9. mem[call.dest] # Digit(0)
  <2>. DEFINE n == Remains(k - 1)
              c == call.c
  <2>1. k - 1 \in Nat /\ (k - 1) + 1 = k /\ 0 \in 0 .. k - 1 /\ call.dest + 0 = call.dest
    BY <1>1, <1>2
  <2>2. n \in Nat /\ n # 0 /\ n \div c = 0 /\ c \in Nat \ {0}
    BY <1>1, <1>2, <2>1
  <2>3. mem[call.dest] = Digit(n % c)
    <3>1. mem[call.dest + 0] = text[call.dest + (k - 1 - 0)] /\ k - 1 - 0 = k - 1
          /\ k - 1 - 0 \in 0 .. k - 1
      BY <1>3, <2>1
    <3>. QED  BY <1>2, <2>1, <3>1
  <2>. HIDE DEF n, c
  <2>4. c * (n \div c) + (n % c) = n /\ n % c \in Nat
    BY <2>2, DivMod
  <2>5. n % c = n
    BY <2>2, <2>4
  <2>. QED  BY <2>2, <2>3, <2>5 DEF Digit
<1>. QED  BY <1>8, <1>9

\* itoa writes the digits of every number that fits its buffer, in every radix, the
\* highest first and none too many, and strrev reverses every string.
THEOREM ConversionsStayRight == LibrarySpec => []ConversionsRight
<1>1. LibraryInit => CallFixed /\ RadixFixed /\ ConversionInv
  BY CallInit, RadixInit, ConversionInit
<1>2. CallFixed /\ RadixFixed /\ ConversionInv /\ [LibraryNext]_libraryVars
      => CallFixed' /\ RadixFixed' /\ ConversionInv'
  BY CallStep, RadixStep, ConversionStep
<1>3. CallFixed /\ RadixFixed /\ ConversionInv => ConversionsRight
  <2>. SUFFICES ASSUME CallFixed, RadixFixed, ConversionInv, r.pc = "done",
                       call.routine \in Conversions
                PROVE  ConversionsRight
    BY DEF ConversionsRight, Done, At, Conversions
  <2>1. call.dest \in Nat /\ call.dest \in Addr /\ SIZE \in Nat
    BY ConversionLegal
  <2>2. CASE /\ call.routine = "itoa" /\ call.n = 0
             /\ mem[call.dest] = Digit(0) /\ mem[call.dest + 1] = NUL
             /\ call.dest + 1 \in Addr
    <3>1. call.c \in Nat \ {0}
      BY <2>2, ConversionLegal
    <3>2. \A i \in 0 .. 1 - 1 : i = 0 /\ call.dest + i = call.dest
      BY <2>1
    <3>3. mem[call.dest] # NUL
      BY <2>2 DEF Digit, NUL
    <3>4. LengthIn(mem, call.dest) = 1
      BY <2>1, <2>2, <3>2, <3>3, LengthIs
    <3>. DEFINE left == [i \in Nat |-> 0]
                c == call.c
                s == call.dest
                n == 1
    <3>5. left \in [Nat -> Nat] /\ left[0] = 0 /\ left[1] = 0
      OBVIOUS
    <3>6. \A i \in Nat : left[i + 1] = left[i] \div c
      <4>1. 0 \div c = 0
        BY <3>1
      <4>. QED  BY <4>1
    <3>7. \A i \in 0 .. 1 - 1 : mem[s + i] = Digit(left[1 - 1 - i] % c)
      <4>1. 0 % c = 0
        BY <3>1
      <4>. QED  BY <2>2, <3>2, <4>1
    <3>8. NumberOf(s, c) = left[0]
      <4>. HIDE DEF left
      <4>1. DigitsOf(s, n, c, left)
        BY <2>1, <3>1, <3>4, <3>5, <3>6, <3>7 DEF DigitsOf
      <4>. HIDE DEF c, s, n
      <4>. QED  BY <4>1, DigitsAddUp
    <3>9. NumberOf(call.dest, call.c) = call.n
      BY <2>2, <3>5, <3>8
    <3>. QED
      BY <2>2, <3>9 DEF ConversionsRight, Done
  <2>3. CASE /\ call.routine = "itoa" => call.n # 0
             /\ \E k \in Nat, text \in [Addr -> Byte] : GivenText(text, k) /\ Reversed(mem, text, k)
    <3>1. PICK k \in Nat, text \in [Addr -> Byte] : GivenText(text, k) /\ Reversed(mem, text, k)
      BY <2>3
    <3>2. CASE call.routine = "itoa"
      <4>1. NumberOf(call.dest, call.c) = call.n /\ mem[call.dest] # Digit(0)
        BY <2>3, <3>1, <3>2, NumberConverted
      <4>. QED
        BY <3>2, <4>1 DEF ConversionsRight, Done
    <3>3. CASE call.routine = "strrev"
      <4>1. text = entry /\ call.dest + k \in Addr /\ entry[call.dest + k] = NUL
            /\ \A i \in 0 .. k - 1 : entry[call.dest + i] # NUL
        BY <3>1, <3>3 DEF GivenText
      <4>2. Length(call.dest) = k
        BY <2>1, <4>1, LengthIs DEF Length
      <4>3. ASSUME NEW a \in Addr
            PROVE  mem[a] = IF a - call.dest \in 0 .. k - 1
                            THEN entry[call.dest + k - 1 - (a - call.dest)] ELSE entry[a]
        <5>1. call.dest + (k - 1 - (a - call.dest)) = call.dest + k - 1 - (a - call.dest)
          BY <2>1 DEF Addr
        <5>2. mem[a] = IF a - call.dest \in 0 .. k - 1
                       THEN entry[call.dest + (k - 1 - (a - call.dest))] ELSE entry[a]
          BY <3>1, <4>1 DEF Reversed
        <5>. QED  BY <5>1, <5>2
      <4>. QED
        BY <3>3, <4>2, <4>3 DEF ConversionsRight, Done
    <3>. QED  BY <3>2, <3>3 DEF Conversions
  <2>. QED  BY <2>2, <2>3 DEF ConversionInv
<1>. QED
  BY <1>1, <1>2, <1>3, PTL DEF LibrarySpec

-----------------------------------------------------------------------------
\* Whatever routine runs, what it keeps in registers and what it stores has its type:
\* no store leaves anything but a byte in memory.
THEOREM LibraryTypeCorrect == LibrarySpec => []LibraryTypeOK
<1>1. LibraryInit => /\ CallFixed /\ RadixFixed
                     /\ BlockInv /\ CompareInv /\ CopyInv /\ ConversionInv
  BY CallInit, RadixInit, BlockInit, CompareInit, CopyInit, ConversionInit
<1>2. /\ CallFixed /\ RadixFixed
      /\ BlockInv /\ CompareInv /\ CopyInv /\ ConversionInv
      /\ [LibraryNext]_libraryVars
      => (/\ CallFixed /\ RadixFixed
          /\ BlockInv /\ CompareInv /\ CopyInv /\ ConversionInv)'
  BY CallStep, RadixStep, BlockStep, CompareStep, CopyStep, ConversionStep
<1>3. CallFixed /\ BlockInv /\ CompareInv /\ CopyInv /\ ConversionInv => LibraryTypeOK
  <2>. SUFFICES ASSUME CallFixed, BlockInv, CompareInv, CopyInv, ConversionInv
                PROVE  LibraryTypeOK
    OBVIOUS
  <2>1. call \in Calls /\ entry \in [Addr -> Byte]
    BY DEF CallFixed
  <2>2. call.routine \in Routines
    BY <2>1 DEF Calls
  <2>3. CASE call.routine \in Blocks
    <3>1. r \in Registers /\ mem \in [Addr -> Byte]
      BY <2>3 DEF BlockInv
    <3>. QED  BY <2>1, <3>1, RecordOf DEF LibraryTypeOK
  <2>4. CASE call.routine \in Compares
    <3>1. r \in Counters /\ mem \in [Addr -> Byte]
      BY <2>1, <2>4 DEF CompareInv
    <3>. QED  BY <2>1, <3>1, CounterOf DEF LibraryTypeOK
  <2>5. CASE call.routine \in Copies
    <3>1. r \in Cursors /\ mem \in [Addr -> Byte]
      BY <2>5 DEF CopyInv
    <3>. QED  BY <2>1, <3>1, CursorOf DEF LibraryTypeOK
  <2>6. CASE call.routine \in Conversions
    <3>1. r \in Cursors /\ mem \in [Addr -> Byte]
      BY <2>6 DEF ConversionInv
    <3>. QED  BY <2>1, <3>1, CursorOf DEF LibraryTypeOK
  <2>. QED  BY <2>2, <2>3, <2>4, <2>5, <2>6 DEF Routines
<1>. QED
  BY <1>1, <1>2, <1>3, PTL DEF LibrarySpec

-----------------------------------------------------------------------------
(***************************************************************************)
(* Every call comes nearer to its return.  The counters of a loop do so by *)
(* themselves; a loop that looks for a NUL does because the invariants     *)
(* above let it read the next byte in memory only.                         *)
(***************************************************************************)
CallInv ==
    CallFixed /\ RadixFixed /\ BlockInv /\ CompareInv /\ CopyInv /\ ConversionInv

AnyRegisters ==
    [pc : Pcs \cup CursorPcs, di : Int, si : Int, cx : Int, dx : Nat, step : {1, -1},
     result : Int]

LEMMA RegistersOf ==
    ASSUME CallInv
    PROVE  /\ r \in AnyRegisters
           /\ call.dest \in Nat /\ call.src \in Nat /\ call.n \in Nat /\ SIZE \in Nat
           /\ r.pc \in {"top", "words", "bottom", "move"} => call.routine \in Blocks
           /\ r.pc \in {"strncmp", "zero length", "compare"} => call.routine \in Compares
           /\ r.pc \in {"strcpy", "ece391_strcpy", "strncpy", "pad"} => call.routine \in Copies
           /\ r.pc \in {"zero", "digits", "strlen", "swap"} => call.routine \in Conversions
<1>1. call \in Calls /\ call.routine \in Routines
  BY DEF CallInv, CallFixed, Calls
<1>2. call.dest \in Nat /\ call.src \in Nat /\ call.n \in Nat /\ SIZE \in Nat
  BY <1>1 DEF Calls, Addr
<1>3. CASE call.routine \in Blocks
  <2>1. r \in Registers /\ r.pc \in {"top", "words", "bottom", "move", "done"}
    BY <1>3 DEF CallInv, BlockInv
  <2>2. r \in AnyRegisters
    BY <2>1 DEF Registers, AnyRegisters
  <2>. QED  BY <1>2, <1>3, <2>1, <2>2
<1>4. CASE call.routine \in Compares
  <2>1. r \in Counters /\ r.pc \in {"strncmp", "zero length", "compare", "done"}
    BY <1>4 DEF CallInv, CompareInv
  <2>2. r \in AnyRegisters
    BY <2>1 DEF Counters, AnyRegisters
  <2>. QED  BY <1>2, <1>4, <2>1, <2>2
<1>5. CASE call.routine \in Copies
  <2>1. r \in Cursors /\ r.pc \in {"strcpy", "ece391_strcpy", "strncpy", "pad", "done"}
    BY <1>5 DEF CallInv, CopyInv
  <2>2. r \in AnyRegisters
    BY <2>1 DEF Cursors, AnyRegisters
  <2>. QED  BY <1>2, <1>5, <2>1, <2>2
<1>6. CASE call.routine \in Conversions
  <2>1. r \in Cursors /\ r.pc \in {"zero", "digits", "strlen", "swap", "done"}
    BY <1>6 DEF CallInv, ConversionInv
  <2>2. r \in AnyRegisters
    BY <2>1 DEF Cursors, AnyRegisters
  <2>. QED  BY <1>2, <1>6, <2>1, <2>2
<1>. QED  BY <1>1, <1>3, <1>4, <1>5, <1>6 DEF Routines

\* The byte that the comparison has come to is in memory.
LEMMA ComparesInMemory ==
    ASSUME CallFixed, CompareInv, call.routine \in Compares, r.pc = "compare"
    PROVE  call.dest + r.dx \in Addr
<1>1. /\ Same(r.dx) /\ r.dx \in Nat
      /\ call.routine = "ece391_strncmp" => r.cx \in 1 .. call.n /\ r.cx + r.dx = call.n
      /\ call.routine # "ece391_strncmp" => call.routine = "ece391_strcmp"
  BY DEF CompareInv, Counters
<1>2. call.dest \in Nat /\ call.n \in Nat /\ SIZE \in Nat
  BY CompareLegal
<1>3. r.dx < Bound
  <2>1. CASE call.routine = "ece391_strncmp"
    BY <1>1, <1>2, <2>1 DEF Bound
  <2>2. CASE call.routine = "ece391_strcmp"
    <3>1. Terminated(call.dest)
      BY <2>2, CompareLegal
    <3>2. PICK a \in call.dest .. SIZE - 1 : entry[a] = NUL
      BY <3>1 DEF Terminated
    <3>3. a - call.dest \in Nat /\ call.dest + (a - call.dest) = a
      BY <1>2, <3>2
    <3>4. a - call.dest \notin 0 .. r.dx - 1
      BY <1>1, <3>2, <3>3 DEF Same
    <3>. QED  BY <1>1, <1>2, <2>2, <3>2, <3>3, <3>4 DEF Bound
  <2>. QED  BY <1>1, <2>1, <2>2
<1>. QED  BY <1>1, <1>3, MayRead

\* Division by a radix makes a number smaller.
LEMMA QuotientIsLess ==
    ASSUME NEW x \in Nat, NEW c \in Nat, x > 0, c > 1
    PROVE  x \div c \in Nat /\ x \div c < x
OBVIOUS

\* A routine that returns has no loop left.
LEMMA ReturnIsNearer ==
    ASSUME r \in AnyRegisters, r.pc # "done", NEW result, Returns(result)
    PROVE  CallNearer
<1>1. r'.pc = "done"
  BY DEF Returns, AnyRegisters
<1>2. Loops' = 0
  BY <1>1 DEF Loops, At
<1>3. Loops \in {1, 2, 3}
  BY DEF Loops, At
<1>. QED  BY <1>2, <1>3 DEF CallNearer

\* The loops of memset, memcpy and memmove.
LEMMA BlockIsNearer ==
    ASSUME CallInv, Top \/ Words \/ Bottom \/ Move
    PROVE  CallNearer
<1>1. r \in AnyRegisters
  BY RegistersOf
<1>2. r.pc \in {"top", "words", "bottom", "move"}
  BY DEF Top, Words, Bottom, Move, At
<1>3. r.cx \in Nat /\ r.dx \in Nat
  <2>1. call.routine \in Blocks
    BY <1>2, RegistersOf
  <2>2. r \in Registers
    BY <2>1 DEF CallInv, BlockInv
  <2>. QED  BY <2>2 DEF Registers
<1>4. ASSUME r.pc \in {"top", "words", "move"}, r'.pc = r.pc, r'.cx = r.cx - 1, r.cx > 0
      PROVE  CallNearer
  <2>1. Loops' = Loops
    BY <1>4 DEF Loops, At
  <2>2. Turns = r.cx /\ Turns' = r.cx - 1
    BY <1>4 DEF Turns, At
  <2>. QED  BY <1>3, <1>4, <2>1, <2>2 DEF CallNearer
<1>5. CASE Top
  <2>1. r.pc = "top"
    BY <1>5 DEF Top, At
  <2>2. CASE r.cx = 0
    <3>1. Returns(0)
      BY <1>5, <2>2 DEF Top
    <3>. QED  BY <1>1, <2>1, <3>1, ReturnIsNearer
  <2>3. CASE r.cx > 0 /\ r' = [r EXCEPT !.di = @ + 1, !.si = @ + 1, !.cx = @ - 1]
    <3>1. r'.pc = r.pc /\ r'.cx = r.cx - 1
      BY <1>1, <2>3 DEF AnyRegisters
    <3>. QED  BY <1>4, <2>1, <2>3, <3>1
  <2>4. CASE r' = [r EXCEPT !.pc = "words", !.cx = @ \div WORD, !.dx = r.cx % WORD]
    <3>1. r'.pc = "words"
      BY <1>1, <2>4 DEF AnyRegisters
    <3>2. Loops = 3 /\ Loops' = 2
      BY <2>1, <3>1 DEF Loops, At
    <3>. QED  BY <3>2 DEF CallNearer
  <2>. QED  BY <1>5, <2>2, <2>3, <2>4 DEF Top
<1>6. CASE Words
  <2>1. r.pc = "words"
    BY <1>6 DEF Words, At
  <2>2. CASE Goto("bottom")
    <3>1. r'.pc = "bottom"
      BY <1>1, <2>2 DEF Goto, AnyRegisters
    <3>2. Loops = 2 /\ Loops' = 1
      BY <2>1, <3>1 DEF Loops, At
    <3>. QED  BY <3>2 DEF CallNearer
  <2>3. CASE r.cx > 0 /\ r' = [r EXCEPT !.di = @ + WORD, !.si = @ + WORD, !.cx = @ - 1]
    <3>1. r'.pc = r.pc /\ r'.cx = r.cx - 1
      BY <1>1, <2>3 DEF AnyRegisters
    <3>. QED  BY <1>4, <2>1, <2>3, <3>1
  <2>. QED  BY <1>6, <2>2, <2>3 DEF Words
<1>7. CASE Bottom
  <2>1. r.pc = "bottom"
    BY <1>7 DEF Bottom, At
  <2>2. CASE r.dx = 0
    <3>1. Returns(0)
      BY <1>7, <2>2 DEF Bottom
    <3>. QED  BY <1>1, <2>1, <3>1, ReturnIsNearer
  <2>3. CASE r.dx > 0 /\ r' = [r EXCEPT !.di = @ + 1, !.si = @ + 1, !.dx = @ - 1]
    <3>1. r'.pc = "bottom" /\ r'.dx = r.dx - 1
      BY <1>1, <2>1, <2>3 DEF AnyRegisters
    <3>2. Loops' = Loops
      BY <2>1, <3>1 DEF Loops, At
    <3>3. Turns = r.dx /\ Turns' = r.dx - 1
      BY <2>1, <3>1 DEF Turns, At
    <3>. QED  BY <1>3, <2>3, <3>2, <3>3 DEF CallNearer
  <2>. QED  BY <1>7, <2>2, <2>3 DEF Bottom
<1>8. CASE Move
  <2>1. r.pc = "move"
    BY <1>8 DEF Move, At
  <2>2. CASE r.cx = 0
    <3>1. Returns(0)
      BY <1>8, <2>2 DEF Move
    <3>. QED  BY <1>1, <2>1, <3>1, ReturnIsNearer
  <2>3. CASE r.cx > 0 /\ r' = [r EXCEPT !.di = @ + r.step, !.si = @ + r.step, !.cx = @ - 1]
    <3>1. r'.pc = r.pc /\ r'.cx = r.cx - 1
      BY <1>1, <2>3 DEF AnyRegisters
    <3>. QED  BY <1>4, <2>1, <2>3, <3>1
  <2>. QED  BY <1>8, <2>2, <2>3 DEF Move
<1>. QED  BY <1>5, <1>6, <1>7, <1>8

\* The loops of the string copies.
LEMMA CopyIsNearer ==
    ASSUME CallInv, call' = call, Strcpy \/ ece391_strcpy \/ Strncpy \/ Pad
    PROVE  CallNearer
<1>1. r \in AnyRegisters /\ call.dest \in Nat /\ call.src \in Nat /\ call.n \in Nat
      /\ SIZE \in Nat
  BY RegistersOf
<1>2. r.pc \in {"strcpy", "ece391_strcpy", "strncpy", "pad"}
  BY DEF Strcpy, ece391_strcpy, Strncpy, Pad, At
<1>3. call.routine \in Copies
  BY <1>2, RegistersOf
<1>4. r.cx \in Nat
  <2>1. r \in Cursors
    BY <1>3 DEF CallInv, CopyInv
  <2>. QED  BY <2>1 DEF Cursors
<1>5. CASE Strcpy \/ ece391_strcpy
  <2>1. r.pc \in {"strcpy", "ece391_strcpy"}
    BY <1>5 DEF Strcpy, ece391_strcpy, At
  <2>2. call.src + r.cx \in Addr
    <3>1. /\ r.pc = call.routine /\ Unended(r.cx) /\ StringWritten(mem, r.cx)
          /\ mem \in [Addr -> Byte] /\ CallFixed
      BY <1>3, <2>1 DEF CallInv, CopyInv, Copies
    <3>. QED  BY <1>3, <1>4, <2>1, <3>1, MayCopy
  <2>3. CASE Returns(0)
    BY <1>1, <1>2, <2>3, ReturnIsNearer
  <2>4. CASE r' = [r EXCEPT !.cx = @ + 1]
    <3>1. r'.pc = r.pc /\ r'.cx = r.cx + 1
      BY <1>1, <2>4 DEF AnyRegisters
    <3>2. Loops' = Loops
      BY <3>1 DEF Loops, At
    <3>3. Turns = SIZE - call.src - r.cx /\ Turns' = SIZE - call.src - (r.cx + 1)
      BY <2>1, <3>1 DEF Turns, At
    <3>. QED  BY <1>1, <1>4, <2>2, <3>2, <3>3 DEF CallNearer, Addr
  <2>. QED  BY <1>5, <2>3, <2>4 DEF Strcpy, ece391_strcpy
<1>6. ASSUME r.pc \in {"strncpy", "pad"}, r' = [r EXCEPT !.cx = @ + 1], r.cx < call.n
      PROVE  CallNearer
  <2>1. r'.pc = r.pc /\ r'.cx = r.cx + 1
    BY <1>1, <1>6 DEF AnyRegisters
  <2>2. Loops' = Loops
    BY <2>1 DEF Loops, At
  <2>3. Turns = call.n - r.cx /\ Turns' = call.n - (r.cx + 1)
    BY <1>6, <2>1 DEF Turns, At
  <2>. QED  BY <1>1, <1>4, <1>6, <2>2, <2>3 DEF CallNearer
<1>7. CASE Strncpy
  <2>1. r.pc = "strncpy"
    BY <1>7 DEF Strncpy, At
  <2>2. CASE Goto("pad")
    <3>1. r'.pc = "pad"
      BY <1>1, <2>2 DEF Goto, AnyRegisters
    <3>2. Loops = 2 /\ Loops' = 1
      BY <2>1, <3>1 DEF Loops, At
    <3>. QED  BY <3>2 DEF CallNearer
  <2>3. CASE r.cx < call.n /\ r' = [r EXCEPT !.cx = @ + 1]
    BY <1>6, <2>1, <2>3
  <2>. QED  BY <1>7, <2>2, <2>3 DEF Strncpy
<1>8. CASE Pad
  <2>1. r.pc = "pad"
    BY <1>8 DEF Pad, At
  <2>2. CASE Padded
    <3>1. Returns(0)
      BY <1>8, <2>2 DEF Pad
    <3>. QED  BY <1>1, <2>1, <3>1, ReturnIsNearer
  <2>3. CASE ~Padded
    <3>1. r' = [r EXCEPT !.cx = @ + 1]
      BY <1>8, <2>3 DEF Pad
    <3>2. r.cx < call.n
      BY <1>1, <1>4, <2>3 DEF Padded
    <3>. QED  BY <1>6, <2>1, <3>1, <3>2
  <2>. QED  BY <2>2, <2>3
<1>. QED  BY <1>5, <1>7, <1>8

\* The loops of the comparisons.
LEMMA CompareIsNearer ==
    ASSUME CallInv, call' = call, Strncmp \/ ZeroLength \/ Compare
    PROVE  CallNearer
<1>1. r \in AnyRegisters /\ call.dest \in Nat /\ call.src \in Nat /\ call.n \in Nat
      /\ SIZE \in Nat
  BY RegistersOf
<1>2. r.pc \in {"strncmp", "zero length", "compare"}
  BY DEF Strncmp, ZeroLength, Compare, At
<1>3. call.routine \in Compares /\ r.cx \in Int /\ r.dx \in Nat
  BY <1>1, <1>2, RegistersOf DEF AnyRegisters
<1>4. ASSUME NEW result, Returns(result)  PROVE CallNearer
  BY <1>1, <1>2, <1>4, ReturnIsNearer
<1>5. CASE Strncmp
  <2>1. r.pc = "strncmp"
    BY <1>5 DEF Strncmp, At
  <2>2. r.cx \in 0 .. call.n
    BY <1>3, <2>1 DEF CallInv, CompareInv
  <2>3. CASE r.cx < call.n /\ r' = [r EXCEPT !.cx = @ + 1]
    <3>1. r'.pc = r.pc /\ r'.cx = r.cx + 1
      BY <1>1, <2>3 DEF AnyRegisters
    <3>2. Loops' = Loops
      BY <3>1 DEF Loops, At
    <3>3. Turns = call.n - r.cx /\ Turns' = call.n - (r.cx + 1)
      BY <2>1, <3>1 DEF Turns, At
    <3>. QED  BY <1>1, <2>2, <2>3, <3>2, <3>3 DEF CallNearer
  <2>4. CASE r.cx >= call.n
    <3>1. Returns(0)
      BY <1>1, <1>3, <1>5, <2>4 DEF Strncmp
    <3>. QED  BY <1>4, <3>1
  <2>5. CASE r.cx < call.n /\ (Differ(r.cx) \/ mem[call.dest + r.cx] = NUL)
    <3>1. Returns(Difference(r.cx))
      BY <1>1, <1>3, <1>5, <2>5 DEF Strncmp
    <3>. QED  BY <1>4, <3>1
  <2>6. CASE r.cx < call.n /\ ~(Differ(r.cx) \/ mem[call.dest + r.cx] = NUL)
    <3>1. r' = [r EXCEPT !.cx = @ + 1]
      BY <1>1, <1>3, <1>5, <2>6 DEF Strncmp
    <3>. QED  BY <2>3, <2>6, <3>1
  <2>. QED  BY <1>1, <1>3, <2>4, <2>5, <2>6
<1>6. CASE ZeroLength
  <2>1. r.pc = "zero length"
    BY <1>6 DEF ZeroLength, At
  <2>2. CASE Goto("compare")
    <3>1. r'.pc = "compare"
      BY <1>1, <2>2 DEF Goto, AnyRegisters
    <3>2. Loops = 2 /\ Loops' = 1
      BY <2>1, <3>1 DEF Loops, At
    <3>. QED  BY <3>2 DEF CallNearer
  <2>. QED  BY <1>4, <1>6, <2>2 DEF ZeroLength
<1>7. CASE Compare
  <2>1. r.pc = "compare"
    BY <1>7 DEF Compare, At
  <2>2. call.dest + r.dx \in Addr
    BY <1>3, <2>1, ComparesInMemory DEF CallInv
  <2>3. CASE Differ(r.dx)
    <3>1. Returns(Difference(r.dx))
      BY <1>7, <2>3 DEF Compare
    <3>. QED  BY <1>4, <3>1
  <2>4. CASE ~Differ(r.dx) /\ (mem[call.dest + r.dx] = NUL \/ LastByte)
    <3>1. Returns(0)
      BY <1>7, <2>4 DEF Compare
    <3>. QED  BY <1>4, <3>1
  <2>5. CASE ~Differ(r.dx) /\ ~(mem[call.dest + r.dx] = NUL \/ LastByte)
    <3>1. r' = [r EXCEPT !.dx = @ + 1, !.cx = @ - 1]
      BY <1>7, <2>5 DEF Compare
    <3>2. r'.pc = r.pc /\ r'.dx = r.dx + 1
      BY <1>1, <3>1 DEF AnyRegisters
    <3>3. Loops' = Loops
      BY <3>2 DEF Loops, At
    <3>4. Turns = SIZE - call.dest - r.dx /\ Turns' = SIZE - call.dest - (r.dx + 1)
      BY <2>1, <3>2 DEF Turns, At
    <3>. QED  BY <1>1, <1>3, <2>2, <3>3, <3>4 DEF CallNearer, Addr
  <2>. QED  BY <2>3, <2>4, <2>5
<1>. QED  BY <1>5, <1>6, <1>7

\* The loops of itoa and strrev: a digit taken leaves a smaller number.
LEMMA ConversionIsNearer ==
    ASSUME CallInv, call' = call, Zero \/ Digits \/ Strlen \/ Swap
    PROVE  CallNearer
<1>1. r \in AnyRegisters /\ call.dest \in Nat /\ call.src \in Nat /\ call.n \in Nat
      /\ SIZE \in Nat
  BY RegistersOf
<1>2. r.pc \in {"zero", "digits", "strlen", "swap"}
  BY DEF Zero, Digits, Strlen, Swap, At
<1>3. call.routine \in Conversions
  BY <1>2, RegistersOf
<1>4. r.cx \in Nat /\ r.di \in Int /\ r.si \in Int
  <2>1. r \in Cursors
    BY <1>3 DEF CallInv, ConversionInv
  <2>. QED  BY <2>1 DEF Cursors
<1>5. CASE Zero
  BY <1>1, <1>2, <1>5, ReturnIsNearer DEF Zero
<1>6. CASE Digits
  <2>1. r.pc = "digits"
    BY <1>6 DEF Digits, At
  <2>2. CASE r.cx > 0
    <3>1. r' = [r EXCEPT !.di = @ + 1, !.cx = @ \div call.c]
      BY <1>6, <2>2 DEF Digits
    <3>2. r'.pc = r.pc /\ r'.cx = r.cx \div call.c
      BY <1>1, <3>1 DEF AnyRegisters
    <3>3. Loops' = Loops
      BY <3>2 DEF Loops, At
    <3>4. Turns = r.cx /\ Turns' = r.cx \div call.c
      BY <2>1, <3>2 DEF Turns, At
    <3>5. call.c \in Nat /\ call.c > 1
      <4>1. call.routine = "itoa"
        BY <1>3, <2>1 DEF CallInv, ConversionInv
      <4>2. call.c \in Nat \ {0} /\ call.c > 1
        BY <1>3, <4>1, ConversionLegal DEF CallInv
      <4>. QED  BY <4>2
    <3>6. r.cx \div call.c \in Nat /\ r.cx \div call.c < r.cx
      BY <1>4, <2>2, <3>5, QuotientIsLess
    <3>. QED  BY <3>3, <3>4, <3>6 DEF CallNearer
  <2>3. CASE ~(r.cx > 0)
    <3>1. r' = [r EXCEPT !.pc = "strlen", !.cx = 0]
      BY <1>6, <2>3 DEF Digits
    <3>2. r'.pc = "strlen"
      BY <1>1, <3>1 DEF AnyRegisters
    <3>3. Loops = 3 /\ Loops' = 2
      BY <2>1, <3>2 DEF Loops, At
    <3>. QED  BY <3>3 DEF CallNearer
  <2>. QED  BY <2>2, <2>3
<1>7. CASE Strlen
  <2>1. r.pc = "strlen"
    BY <1>7 DEF Strlen, At
  <2>2. PICK k \in Nat : GivenText(mem, k) /\ r.cx <= k
    BY <1>3, <2>1 DEF CallInv, ConversionInv
  <2>3. call.dest + k \in Addr /\ mem[call.dest + k] = NUL
    BY <2>2 DEF GivenText
  <2>4. CASE mem[call.dest + r.cx] # NUL
    <3>1. r' = [r EXCEPT !.cx = @ + 1]
      BY <1>7, <2>4 DEF Strlen
    <3>2. r'.pc = r.pc /\ r'.cx = r.cx + 1
      BY <1>1, <3>1 DEF AnyRegisters
    <3>3. Loops' = Loops
      BY <3>2 DEF Loops, At
    <3>4. Turns = SIZE - call.dest - r.cx /\ Turns' = SIZE - call.dest - (r.cx + 1)
      BY <2>1, <3>2 DEF Turns, At
    <3>5. r.cx # k
      BY <2>3, <2>4
    <3>. QED  BY <1>1, <1>4, <2>2, <2>3, <3>3, <3>4, <3>5 DEF CallNearer, Addr
  <2>5. CASE mem[call.dest + r.cx] = NUL
    <3>1. r' = [r EXCEPT !.pc = "swap", !.di = 0, !.si = LastIndex(r.cx)]
      BY <1>7, <2>5 DEF Strlen
    <3>2. r'.pc = "swap"
      BY <1>1, <3>1 DEF AnyRegisters
    <3>3. Loops = 2 /\ Loops' = 1
      BY <2>1, <3>2 DEF Loops, At
    <3>. QED  BY <3>3 DEF CallNearer
  <2>. QED  BY <2>4, <2>5
<1>8. CASE Swap
  <2>1. r.pc = "swap"
    BY <1>8 DEF Swap, At
  <2>2. CASE r.di < r.si
    <3>1. r' = [r EXCEPT !.di = @ + 1, !.si = @ - 1]
      BY <1>8, <2>2 DEF Swap
    <3>2. r'.pc = r.pc /\ r'.di = r.di + 1 /\ r'.si = r.si - 1
      BY <1>1, <3>1 DEF AnyRegisters
    <3>3. Loops' = Loops
      BY <3>2 DEF Loops, At
    <3>4. Turns = r.si - r.di + 1 /\ Turns' = (r.si - 1) - (r.di + 1) + 1
      BY <2>1, <3>2 DEF Turns, At
    <3>. QED  BY <1>4, <2>2, <3>3, <3>4 DEF CallNearer
  <2>3. CASE ~(r.di < r.si)
    <3>1. Returns(0)
      BY <1>8, <2>3 DEF Swap
    <3>. QED  BY <1>1, <2>1, <3>1, ReturnIsNearer
  <2>. QED  BY <2>2, <2>3
<1>. QED  BY <1>5, <1>6, <1>7, <1>8

LEMMA CallInvStays == LibrarySpec => []CallInv
<1>1. LibraryInit => CallInv
  BY CallInit, RadixInit, BlockInit, CompareInit, CopyInit, ConversionInit DEF CallInv
<1>2. CallInv /\ [LibraryNext]_libraryVars => CallInv'
  BY CallStep, RadixStep, BlockStep, CompareStep, CopyStep, ConversionStep DEF CallInv
<1>. QED  BY <1>1, <1>2, PTL DEF LibrarySpec

\* Every iteration of every routine brings it nearer to its return, whatever the sizes
\* and the arguments: no legal call runs in a circle or beyond the end of memory.
THEOREM CallAlwaysGetsOn == LibrarySpec => CallGetsOn
<1>1. CallInv /\ [LibraryNext]_libraryVars => [CallNearer]_libraryVars
  <2>. SUFFICES ASSUME CallInv, LibraryNext  PROVE CallNearer
    OBVIOUS
  <2>1. call' = call
    BY CallStep DEF CallInv
  <2>. QED
    BY <2>1, BlockIsNearer, CopyIsNearer, CompareIsNearer, ConversionIsNearer DEF LibraryNext
<1>. QED
  BY <1>1, CallInvStays, PTL DEF LibrarySpec, CallGetsOn
=============================================================================
