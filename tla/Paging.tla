-------------------------------- MODULE Paging --------------------------------
(***************************************************************************)
(* The page directory and the two page tables: how paging_init fills them, *)
(* how update_user_addr points the program page at the memory of another   *)
(* process while the TLB may hold any entry that it has seen.              *)
(*                                                                         *)
(* Addresses are numbers of 4 KB frames, and an entry is its set of flags  *)
(* and the frame it points to.                                             *)
(***************************************************************************)
EXTENDS Integers, FiniteSets

CONSTANT PCB_SIZE          \* processes are 0 .. PCB_SIZE - 1

ASSUME PagingAssumption == PCB_SIZE \in Nat

KERNELPG == 1024           \* 0x400000
USERPG == 2048             \* 0x800000
VIDMEM == 184              \* 0xB8000
TERM(n) == VIDMEM + 1 + n
Terminals == 0 .. 2
VideoPages == {VIDMEM} \cup {TERM(n) : n \in Terminals}
Pids == 0 .. PCB_SIZE - 1

\* The entries that are told apart from the rest of the 1024 of each table.
Directory == 0 .. 34
Table == 183 .. 189

Entries == [flags : SUBSET {"P", "RW", "US", "PCD", "PS", "G"}, base : Nat]
None == [flags |-> {}, base |-> 0]

VARIABLES
    page_directory, page_table1, page_table2,
    tlb,             \* the entry of the program page that the CPU holds, or None
    running,         \* whose memory the program page is to be
    step             \* where the kernel is

pagingVars == <<page_directory, page_table1, page_table2, tlb, running, step>>

PagingInit ==
    /\ page_directory = [i \in Directory |-> None]
    /\ page_table1 = [i \in Table |-> None]
    /\ page_table2 = [i \in Table |-> None]
    /\ tlb = None
    /\ running = 0
    /\ step = "paging_init"

-----------------------------------------------------------------------------
Entry(flags, base) == [flags |-> flags, base |-> base]
Blank == Entry({"RW"}, 0)

\* Both tables map the four video pages to themselves.
VideoTable(user) ==
    [i \in Table |-> IF i \in VideoPages
                     THEN Entry({"P", "RW"} \cup user, i) ELSE Blank]

\* The first two entries are the kernel's, 32 and 33 the program's; the frames of
\* the tables themselves are not modelled.
paging_init ==
    /\ step = "paging_init"
    /\ page_directory' = [i \in Directory |->
            CASE i = 0 -> Entry({"P", "RW"}, 0)
              [] i = 1 -> Entry({"P", "RW", "PCD", "PS", "G"}, KERNELPG)
              [] i = 32 -> Entry({"P", "RW", "US", "PCD", "PS"}, USERPG)
              [] i = 33 -> Entry({"P", "RW", "US"}, 0)
              [] OTHER -> Blank]
    /\ page_table1' = VideoTable({})
    /\ page_table2' = VideoTable({"US"})
    /\ step' = "idle"
    /\ UNCHANGED <<tlb, running>>

\* sys_execute, or sys_halt for the parent
Call ==
    /\ step = "idle"
    /\ \E pid \in Pids : running' = pid
    /\ step' = "and"
    /\ UNCHANGED <<page_directory, page_table1, page_table2, tlb>>

\* page_directory[32] &= 0xFFFFF: of the frame the lowest eight bits stay.
Kept == [page_directory[32] EXCEPT !.base = @ % 256]

ClearBase ==
    /\ step = "and"
    /\ page_directory' = [page_directory EXCEPT ![32] = Kept]
    /\ step' = "or"
    /\ UNCHANGED <<page_table1, page_table2, tlb, running>>

FrameOf(pid) == USERPG + KERNELPG * pid

\* |= of a frame of the 4 MB page: the bits of the entry under it are zero.
SetBase ==
    /\ step = "or"
    /\ page_directory' = [page_directory EXCEPT ![32].base = @ + FrameOf(running)]
    /\ step' = "flush"
    /\ UNCHANGED <<page_table1, page_table2, tlb, running>>

\* Mutant of Flushed: the directory is not loaded again.
FlushedNot == tlb

Flushed == None

flush_tlb ==
    /\ step = "flush"
    /\ tlb' = Flushed
    /\ step' = "idle"
    /\ UNCHANGED <<page_directory, page_table1, page_table2, running>>

\* The CPU walks the directory when the page is touched, by the program or by the
\* kernel for it, and may do so on its own at any time.
Walk ==
    /\ step # "paging_init"
    /\ tlb = None
    /\ tlb' = page_directory[32]
    /\ UNCHANGED <<page_directory, page_table1, page_table2, running, step>>

PagingNext ==
    \/ paging_init
    \/ Call
    \/ ClearBase
    \/ SetBase
    \/ flush_tlb
    \/ Walk

PagingSpec == PagingInit /\ [][PagingNext]_pagingVars

-----------------------------------------------------------------------------
(***************************************************************************)
(* Properties                                                              *)
(***************************************************************************)
Accessible(entry) == {"P", "US"} \subseteq entry.flags

\* The frames of a 4 MB page.
Frames(base) == base .. base + KERNELPG - 1

\* The entry of the directory that the CPU uses.
Seen(i) == IF i = 32 /\ tlb # None THEN tlb ELSE page_directory[i]

LargePages == {i \in Directory : Accessible(Seen(i)) /\ "PS" \in Seen(i).flags}
InLargePages == UNION {Frames(Seen(i).base) : i \in LargePages}

Through(i, table) ==
    IF Accessible(Seen(i))
    THEN {table[j].base : j \in {k \in Table : Accessible(table[k])}} ELSE {}

\* What a program reaches: large pages through the directory, the rest through the
\* table whose entry in the directory is open too.
Reach == InLargePages \cup Through(0, page_table1) \cup Through(33, page_table2)

\* Whenever a program runs, with whatever the TLB has seen before, it reaches its
\* own 4 MB and the video pages, nothing else, and no frame of another process.
OwnMemoryOnly ==
    step = "idle" =>
        /\ Reach = Frames(FrameOf(running)) \cup VideoPages
        /\ \A other \in Pids \ {running} : Reach \cap Frames(FrameOf(other)) = {}
=============================================================================
