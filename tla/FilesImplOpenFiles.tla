------------------------- MODULE FilesImplOpenFiles -------------------------
(***************************************************************************)
(* Files implements OpenFiles, and the file system that TLC checks it on:  *)
(* files that end inside a block, at the end of a block, and nowhere near  *)
(* each other on the disk.                                                 *)
(***************************************************************************)
EXTENDS Files

NameOf(e) == direntries[e].filename
Regular == {e \in Entries : FileType(e) = RegularFile}
EntryNamed(n) == CHOOSE e \in Entries : NameOf(e) = n

\* The bytes of a file, read off the disk one by one.
Content(e) == [k \in 1 .. Inode(e).length |-> ByteAt(e, k - 1)]

FileNames == {NameOf(e) : e \in Entries}
FileContents == [n \in {NameOf(e) : e \in Regular} |-> Content(EntryNamed(n))]
ProgramNames == {NameOf(e) : e \in {f \in Entries : IsElf(f)}}

Position(fd) ==
    IF FileType(fd.entry) # RegularFile THEN 0
    ELSE IF fd.file_bytes_read = Wrapped THEN Inode(fd.entry).length
    ELSE fd.file_bytes_read

OpenFdsOf(p) == {d \in Fds : fdt[p][d].exists}

OpenIn(p) ==
    [d \in OpenFdsOf(p) |->
        [name |-> NameOf(fdt[p][d].entry), pos |-> Position(fdt[p][d])]]

\* The caller runs until its program has been loaded.
Executing == IF data.active /\ data.fd = Loader THEN Shell ELSE pid_counter

Promise == INSTANCE OpenFiles
    WITH Processes <- Pids, Root <- Shell, Descriptors <- Fds,
         Directory <- FileNames, Contents <- FileContents, Programs <- ProgramNames,
         running <- Executing, open <- [p \in Pids |-> OpenIn(p)]

\* Descriptor tables, positions, the loop over blocks and the loader add up to
\* files that are read from the beginning, in order, to the end, by each process
\* through descriptors of its own.
ImplementsOpenFiles == Promise!OpenSpec

\* Letters stand for 16 characters each: FILENAME_LEN is 2.
Dot == <<".">>
Text == <<"a", "b">>
Program == <<"p">>
Absent == <<"a">>

Disk ==
    << [filename |-> Dot, filetype |-> DirFile, inode_num |-> 0],
       [filename |-> Text, filetype |-> RegularFile, inode_num |-> 2],
       [filename |-> Program, filetype |-> RegularFile, inode_num |-> 1] >>

DiskInodes ==
    [i \in 0 .. 2 |->
        CASE i = 0 -> [length |-> 0, data_block_num |-> <<>>]
          [] i = 1 -> [length |-> 3, data_block_num |-> <<3, 1>>]
          [] i = 2 -> [length |-> 2, data_block_num |-> <<0>>]]

ShortNames == {Dot, Text, Program, Absent}
ReadCounts == {-1, 0, 1, 2}
=============================================================================
