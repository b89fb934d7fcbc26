------------------------------- MODULE Files -------------------------------
(***************************************************************************)
(* File descriptors and the file system: sys_open, sys_close, sys_read, the *)
(* functions they reach through the fop tables of files and directories,   *)
(* read_data, and what sys_execute and sys_halt do with descriptors and    *)
(* files.                                                                  *)
(*                                                                         *)
(* One terminal: its shell executes programs and waits for them; programs  *)
(* do not execute others.  Nothing else runs meanwhile, and no interrupt   *)
(* handler touches this state.  read_data is one step per block.           *)
(*                                                                         *)
(* Descriptors 0 and 1 are the terminal's and never change: sys_close      *)
(* refuses them.  sys_write on a file or a directory only returns -1.  What *)
(* the RTC's functions do with the device is not part of this state.       *)
(***************************************************************************)
EXTENDS Integers, Sequences

CONSTANTS
    PCB_SIZE,
    MAX_FD_AMNT,
    FILENAME_LEN,
    BlockSize,      \* COMMON_SIZE*4
    MAX_LOAD,       \* the 4096*1024 bytes sys_execute loads at most
    direntries,     \* boot_block_main.direntries: filename, filetype, inode_num
    inodes,         \* length and data_block_num of each inode
    ElfBlocks,      \* data blocks that begin with ELFMAGIC
    Names,          \* names given to sys_open and sys_execute
    Counts,         \* values of nbytes
    Nothing         \* no name

Device == 0
DirFile == 1
RegularFile == 2

dir_count == Len(direntries)
Entries == 1 .. dir_count
Pids == 0 .. PCB_SIZE - 1
Fds == 2 .. MAX_FD_AMNT - 1
Shell == 0

\* An inode lists the blocks that its length needs.  dir_open refuses a name that
\* does not begin with a dot; no directory has one.
ASSUME FilesAssumption ==
    /\ PCB_SIZE \in Nat /\ 1 < PCB_SIZE
    /\ MAX_FD_AMNT \in Nat /\ FILENAME_LEN \in Nat
    /\ BlockSize \in Nat \ {0}
    /\ MAX_LOAD \in Nat
    /\ Counts \subseteq Int
    /\ direntries \in Seq([filename : Seq(STRING), filetype : {Device, DirFile, RegularFile},
                           inode_num : DOMAIN inodes])
    /\ \A i \in DOMAIN inodes :
          /\ inodes[i].length \in 0 .. MAX_LOAD
          /\ inodes[i].data_block_num \in Seq(Nat)
          /\ inodes[i].length <= BlockSize * Len(inodes[i].data_block_num)
    /\ \A n \in Names : n \in Seq(STRING)
    /\ \A e \in 1 .. Len(direntries) :
          direntries[e].filetype = DirFile => Head(direntries[e].filename) = "."

VARIABLES
    in_use,         \* all_pcbs[].in_use
    fdt,            \* all_pcbs[].fdt: exists, the directory entry, file_bytes_read
    pid_counter,
    curr_dir,       \* the position of every open directory
    data,           \* the locals of read_data and of its caller
    answer,         \* history: the last call, its name or count, and its result
    listing         \* history: who reads the directory undisturbed, and what it read

vars == <<in_use, fdt, pid_counter, curr_dir, data, answer, listing>>

\* file_bytes_read is a uint32_t.  Backwards from 0 it wraps to 2^32 - 1; this
\* one value stands for all those behind every file.  Bound: a program that
\* goes on reading -1 bytes does not come back from there.
Wrapped == -1

Inode(e) == inodes[direntries[e].inode_num]
FileType(e) == direntries[e].filetype

\* What a closed descriptor still says of its file is never read: sys_open
\* overwrites it.  Its position is kept.
ClosedFd == [exists |-> FALSE, entry |-> 0, file_bytes_read |-> 0]
NotReading == [active |-> FALSE, name |-> Nothing, fd |-> 0, entry |-> 0, nbytes |-> 0,
               offset |-> 0, length_read |-> 0, loop |-> 0, full |-> FALSE, buf |-> <<>>]
Loader == -1    \* in place of a descriptor: sys_execute reads the program

NoAnswer == [call |-> "other", name |-> Nothing, asked |-> 0, ret |-> 0, bytes |-> <<>>]
Failed(call, n) == [NoAnswer EXCEPT !.call = call, !.name = n, !.ret = -1]
NoListing == [by |-> <<>>, names |-> <<>>]

Init ==
    /\ in_use = [p \in Pids |-> p = Shell]
    /\ fdt = [p \in Pids |-> [d \in Fds |-> ClosedFd]]
    /\ pid_counter = Shell
    /\ curr_dir = 0
    /\ data = NotReading
    /\ answer = NoAnswer
    /\ listing = NoListing

Running == fdt[pid_counter]
IsOpen(d) == Running[d].exists
Idle == ~data.active /\ answer = NoAnswer    \* the running program is in user mode

Reply(a) == answer' = a
KeepListing == UNCHANGED <<curr_dir, listing>>

(***************************************************************************)
(* Names.  read_dentry_by_name compares with strncmp, which stops after    *)
(* FILENAME_LEN characters.                                                *)
(***************************************************************************)
Truncated(n) == SubSeq(n, 1, IF Len(n) < FILENAME_LEN THEN Len(n) ELSE FILENAME_LEN)
Matches(n, e) == Truncated(direntries[e].filename) = Truncated(n)
Found == [n \in Names |-> {e \in Entries : Matches(n, e)}]
Lowest(S) == {e \in S : \A f \in S : e <= f}
Lookup(n) == Lowest(Found[n])    \* the first entry that matches, if there is one

(***************************************************************************)
(* sys_open and dir_open, which rewinds the one directory position.        *)
(***************************************************************************)
\* Mutant: the loop over the table goes one too far.
FreeFdsAndNext == {d \in Fds : ~IsOpen(d)} \cup {MAX_FD_AMNT}

FreeFds == {d \in Fds : ~IsOpen(d)}

\* file_bytes_read is left as the last close left it.
Opened(fd, e) == [fd EXCEPT !.exists = TRUE, !.entry = e]

\* Mutant: dir_open rewinds only when it reads the boot block.
RewoundByFirstOpen(e, d) ==
    IF FileType(e) = DirFile
    THEN UNCHANGED curr_dir /\ listing' = [by |-> <<pid_counter, d>>, names |-> <<>>]
    ELSE KeepListing

RewoundBy(e, d) ==
    IF FileType(e) = DirFile
    THEN curr_dir' = 0 /\ listing' = [by |-> <<pid_counter, d>>, names |-> <<>>]
    ELSE KeepListing

Open(n) ==
    /\ Idle
    /\ \E d \in Lowest(FreeFds), e \in Lookup(n) :
          /\ fdt' = [fdt EXCEPT ![pid_counter][d] = Opened(@, e)]
          /\ RewoundBy(e, d)
          /\ Reply([NoAnswer EXCEPT !.call = "open", !.name = n, !.ret = d])
    /\ UNCHANGED <<in_use, pid_counter, data>>

OpenRefused(n) ==
    /\ Idle /\ (Found[n] = {} \/ FreeFds = {})
    /\ Reply(Failed("open", n))
    /\ KeepListing
    /\ UNCHANGED <<in_use, fdt, pid_counter, data>>

(***************************************************************************)
(* sys_close.  file_close_helper forgets the position of a file, dir_close *)
(* rewinds the directory for everyone.                                     *)
(***************************************************************************)
\* Mutant: file_close does not forget the position.
ClosedWithPosition(fd) == [ClosedFd EXCEPT !.file_bytes_read = fd.file_bytes_read]

Closed(fd) ==
    IF fd.exists /\ FileType(fd.entry) = RegularFile
    THEN ClosedFd
    ELSE [ClosedFd EXCEPT !.file_bytes_read = fd.file_bytes_read]

IsDir(d) == IsOpen(d) /\ FileType(Running[d].entry) = DirFile

RewoundFor(S) ==
    IF \E d \in S : IsDir(d)
    THEN curr_dir' = 0 /\ listing' = NoListing
    ELSE KeepListing

Close(d) ==
    /\ Idle /\ IsOpen(d)
    /\ fdt' = [fdt EXCEPT ![pid_counter][d] = Closed(@)]
    /\ RewoundFor({d})
    /\ Reply(NoAnswer)
    /\ UNCHANGED <<in_use, pid_counter, data>>

(***************************************************************************)
(* sys_read of a directory: dir_read yields the next name, at the end 0.   *)
(***************************************************************************)
ReadDirEntry(d) ==
    /\ Idle /\ IsDir(d) /\ curr_dir < dir_count
    /\ curr_dir' = curr_dir + 1
    /\ listing' = IF listing.by = <<pid_counter, d>>
                  THEN [listing EXCEPT
                          !.names = Append(@, direntries[curr_dir + 1].filename)]
                  ELSE NoListing
    /\ Reply(NoAnswer)
    /\ UNCHANGED <<in_use, fdt, pid_counter, data>>

ReadDirEnd(d) ==
    /\ Idle /\ IsDir(d) /\ curr_dir >= dir_count
    /\ curr_dir' = 0
    /\ listing' = IF listing.by = <<pid_counter, d>>
                  THEN [listing EXCEPT !.names = <<>>]
                  ELSE NoListing
    /\ Reply(NoAnswer)
    /\ UNCHANGED <<in_use, fdt, pid_counter, data>>

(***************************************************************************)
(* read_data: the loop over blocks, for sys_read and for exec_file_load.   *)
(***************************************************************************)
\* Mutant: without the plus one for the remaining bytes.
MaxBlockRoundedDown(e) == Inode(e).length \div BlockSize

MaxBlock(e) == Inode(e).length \div BlockSize + 1

MinBlock(e, offset) ==
    IF offset = Wrapped THEN MaxBlock(e) ELSE offset \div BlockSize

ReadData(n, e, fd, offset, nbytes) ==
    data' = [NotReading EXCEPT !.active = TRUE, !.name = n, !.fd = fd, !.entry = e, !.nbytes = nbytes,
                               !.offset = offset, !.loop = MinBlock(e, offset)]

\* Mutant: the length of the file is forgotten.
InWholeBlock(r) == BlockSize * (r.loop + 1) - r.offset

\* How many bytes this turn of the loop copies: to the end of the block or of
\* the file, and no more than are still wanted.
InBlock(r) ==
    LET end == BlockSize * (r.loop + 1)
    IN  (IF Inode(r.entry).length > end THEN end ELSE Inode(r.entry).length) - r.offset

Copied(r) ==
    IF InBlock(r) > r.nbytes - r.length_read THEN r.nbytes - r.length_read ELSE InBlock(r)

\* Mutant: every block is read from its first byte on.
BytesFromBlockStart(r, n) ==
    [k \in 1 .. n |-> <<Inode(r.entry).data_block_num[r.loop + 1], k - 1>>]

\* A byte is where it lies on the disk: in which data block, at which place.
Bytes(r, n) ==
    [k \in 1 .. n |-> <<Inode(r.entry).data_block_num[r.loop + 1],
                        (r.offset % BlockSize) + k - 1>>]

Turn(r) ==
    LET i == Copied(r)
    IN  [r EXCEPT !.buf = @ \o Bytes(r, i), !.offset = @ + i, !.length_read = @ + i,
                  !.loop = @ + 1, !.full = r.length_read + i = r.nbytes]

More(r) == ~r.full /\ r.loop < MaxBlock(r.entry)

ReadBlock ==
    /\ data.active /\ More(data)
    /\ data' = Turn(data)
    /\ UNCHANGED <<in_use, fdt, pid_counter, curr_dir, answer, listing>>

(***************************************************************************)
(* sys_read of a file: file_read_helper adds what file_read returns to the *)
(* position, also the -1 of a refused count.                               *)
(***************************************************************************)
IsRegular(d) == IsOpen(d) /\ FileType(Running[d].entry) = RegularFile
AtEnd(d) == Running[d].file_bytes_read = Inode(Running[d].entry).length
Rewound(pos) == IF pos \in {0, Wrapped} THEN Wrapped ELSE pos - 1

ReadFile(d, n) ==
    /\ Idle /\ IsRegular(d) /\ n >= 0 /\ ~AtEnd(d)
    /\ ReadData(Nothing, Running[d].entry, d, Running[d].file_bytes_read, n)
    /\ UNCHANGED <<in_use, fdt, pid_counter, curr_dir, answer, listing>>

ReadFileEnd(d, n) ==
    /\ Idle /\ IsRegular(d) /\ n >= 0 /\ AtEnd(d)
    /\ Reply([NoAnswer EXCEPT !.call = "read", !.asked = n])
    /\ KeepListing
    /\ UNCHANGED <<in_use, fdt, pid_counter, data>>

ReadFileRefused(d, n) ==
    /\ Idle /\ IsRegular(d) /\ n < 0
    /\ fdt' = [fdt EXCEPT ![pid_counter][d].file_bytes_read = Rewound(@)]
    /\ Reply(Failed("read", Nothing))
    /\ KeepListing
    /\ UNCHANGED <<in_use, pid_counter, data>>

Advanced(pos, n) == IF pos = Wrapped THEN Wrapped ELSE pos + n

ReadReturn ==
    /\ data.active /\ ~More(data) /\ data.fd # Loader
    /\ fdt' = [fdt EXCEPT ![pid_counter][data.fd].file_bytes_read =
                              Advanced(@, data.length_read)]
    /\ Reply([call |-> "read", name |-> Nothing, asked |-> data.nbytes,
              ret |-> data.length_read, bytes |-> data.buf])
    /\ data' = NotReading
    /\ KeepListing
    /\ UNCHANGED <<in_use, pid_counter>>

(***************************************************************************)
(* sys_execute: a free PCB, init_pcb, lookup, exec_check, exec_file_load.  *)
(***************************************************************************)
init_pcb == [d \in Fds |-> ClosedFd]

FreePcbs == {p \in Pids : ~in_use[p]}
IsElf(e) == Inode(e).data_block_num # <<>> /\ Inode(e).data_block_num[1] \in ElfBlocks
Runnable(n) == Len(n) <= FILENAME_LEN /\ \E e \in Lookup(n) : IsElf(e)

NewTable(p) == fdt' = [fdt EXCEPT ![p] = init_pcb]

Execute(n) ==
    /\ Idle /\ pid_counter = Shell /\ Runnable(n)
    /\ \E p \in Lowest(FreePcbs) :
          in_use' = [in_use EXCEPT ![p] = TRUE] /\ pid_counter' = p /\ NewTable(p)
    /\ \E e \in Lookup(n) : ReadData(n, e, Loader, 0, MAX_LOAD)
    /\ KeepListing
    /\ UNCHANGED answer

ExecuteRefused(n) ==
    /\ Idle /\ pid_counter = Shell /\ ~Runnable(n)
    /\ \E p \in Lowest(FreePcbs) : NewTable(p)
    /\ Reply(Failed("execute", n))
    /\ KeepListing
    /\ UNCHANGED <<in_use, pid_counter, data>>

\* the iret into the program that has been loaded
EnterProgram ==
    /\ data.active /\ ~More(data) /\ data.fd = Loader
    /\ Reply([NoAnswer EXCEPT !.call = "execute", !.name = data.name, !.bytes = data.buf])
    /\ data' = NotReading
    /\ KeepListing
    /\ UNCHANGED <<in_use, fdt, pid_counter>>

(***************************************************************************)
(* sys_halt of a program: every descriptor is closed.                      *)
(***************************************************************************)
Halt ==
    /\ Idle /\ pid_counter # Shell
    /\ fdt' = [fdt EXCEPT ![pid_counter] = [d \in Fds |-> Closed(@[d])]]
    /\ RewoundFor(Fds)
    /\ in_use' = [in_use EXCEPT ![pid_counter] = FALSE]
    /\ pid_counter' = Shell
    /\ Reply(NoAnswer)
    /\ UNCHANGED data

\* The iret with which a call returns: its result is the program's.
ReturnToUser ==
    /\ answer # NoAnswer
    /\ Reply(NoAnswer)
    /\ KeepListing
    /\ UNCHANGED <<in_use, fdt, pid_counter, data>>

Next ==
    \/ \E n \in Names : Open(n) \/ OpenRefused(n) \/ Execute(n) \/ ExecuteRefused(n)
    \/ \E d \in Fds : Close(d) \/ ReadDirEntry(d) \/ ReadDirEnd(d)
    \/ \E d \in Fds, n \in Counts :
          ReadFile(d, n) \/ ReadFileEnd(d, n) \/ ReadFileRefused(d, n)
    \/ ReadBlock \/ ReadReturn \/ EnterProgram
    \/ Halt \/ ReturnToUser

Spec == Init /\ [][Next]_vars

(***************************************************************************)
(* Properties.                                                             *)
(***************************************************************************)
DiskBytes == Nat \X Nat
FdStates == [exists : BOOLEAN, entry : Entries \cup {0}, file_bytes_read : Int]

DataStates ==
    [active : BOOLEAN, name : Names \cup {Nothing}, fd : Fds \cup {0, Loader},
     entry : Entries \cup {0}, nbytes : Int, offset : Int, length_read : Nat,
     loop : Nat, full : BOOLEAN, buf : Seq(DiskBytes)]

TypeOK ==
    /\ in_use \in [Pids -> BOOLEAN]
    /\ fdt \in [Pids -> [Fds -> FdStates]]
    /\ pid_counter \in Pids
    /\ curr_dir \in 0 .. dir_count
    /\ data \in DataStates
    /\ listing \in [by : {<<>>} \cup (Pids \X Fds), names : Seq(Seq(STRING))]

DescriptorKept(fd) ==
    /\ fd.exists => fd.entry \in Entries
    /\ fd.file_bytes_read # 0 =>
          /\ fd.exists /\ FileType(fd.entry) = RegularFile
          /\ fd.file_bytes_read \in {Wrapped} \cup 1 .. Inode(fd.entry).length

\* sys_open does not reset file_bytes_read: whatever closes a descriptor must
\* leave it 0, only a file may have moved it, and never past its end; and a
\* process that has ended must have closed all of its descriptors.
DescriptorsKept ==
    \A p \in Pids, d \in Fds :
        (fdt[p][d].exists => in_use[p]) /\ DescriptorKept(fdt[p][d])

\* Where the read in progress began.
First == IF data.fd = Loader THEN 0 ELSE Running[data.fd].file_bytes_read

\* Where byte x of a file lies.
ByteAt(e, x) == <<Inode(e).data_block_num[x \div BlockSize + 1], x % BlockSize>>

\* The loop of read_data copies the bytes of the file that follow the position,
\* in order, and ends only when it has copied as many as were asked for or has
\* come to the end of the file; behind every file it copies nothing.
ReadsInOrder ==
    data.active =>
        IF First = Wrapped THEN data.length_read = 0 /\ data.buf = <<>>
        ELSE /\ data.buf = [k \in 1 .. data.length_read |->
                                ByteAt(data.entry, First + k - 1)]
             /\ First + data.length_read <= Inode(data.entry).length
             /\ ~More(data) => \/ data.length_read = data.nbytes
                               \/ First + data.length_read = Inode(data.entry).length

\* The one curr_dir of the kernel: a program that opens the directory and reads
\* it while nobody else opens, reads or closes a directory gets every name,
\* once, in order, before dir_read returns 0.
ListingComplete ==
    listing.by # <<>> =>
        listing.names = [k \in 1 .. curr_dir |-> direntries[k].filename]
=============================================================================
