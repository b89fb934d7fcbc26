---------------------------- MODULE FilesProofs ----------------------------
(***************************************************************************)
(* Proofs about Files, for every file system, block size, number of        *)
(* processes and of descriptors; at the end, that Files implements         *)
(* OpenFiles.                                                              *)
(***************************************************************************)
EXTENDS FilesImplOpenFiles, TLAPS

(***************************************************************************)
(* The inductive invariant.  Turning is the loop invariant of read_data:   *)
(* where the offset is when the turn for a block begins.                   *)
(***************************************************************************)
RunningInUse == in_use[Shell] /\ in_use[pid_counter]

Turning ==
    data.active =>
        /\ data.entry \in Entries /\ data.nbytes \in Nat /\ data.fd # 0
        /\ data.fd # Loader => /\ Running[data.fd].exists
                               /\ Running[data.fd].entry = data.entry
                               /\ FileType(data.entry) = RegularFile
        /\ data.length_read <= data.nbytes
        /\ data.full => data.length_read = data.nbytes
        /\ First = Wrapped => data.loop >= MaxBlock(data.entry)
        /\ First # Wrapped =>
              /\ data.offset = First + data.length_read
              /\ data.offset <= BlockSize * (data.loop + 1)
              /\ \/ data.full
                 \/ data.offset = Inode(data.entry).length
                 \/ BlockSize * data.loop <= data.offset

IInv == /\ TypeOK /\ RunningInUse /\ DescriptorsKept
        /\ ListingComplete /\ ReadsInOrder /\ Turning

(***************************************************************************)
(* Blocks.                                                                 *)
(***************************************************************************)

\* The block and the place that read_data computes from an offset.
LEMMA DivMod ==
    ASSUME NEW x \in Nat, NEW B \in Nat \ {0}
    PROVE  /\ x \div B \in Nat /\ x % B \in 0 .. B - 1
           /\ x = B * (x \div B) + (x % B)
           /\ B * (x \div B) <= x /\ x < B * ((x \div B) + 1)
  OBVIOUS

\* All bytes between the bounds of a block have that block's number.
LEMMA InsideBlock ==
    ASSUME NEW x \in Nat, NEW B \in Nat \ {0}, NEW l \in Nat,
           B * l <= x, x < B * (l + 1)
    PROVE  x \div B = l /\ x % B = x - B * l
  <1>1. x = B * (x \div B) + (x % B) /\ x \div B \in Nat /\ x % B \in 0 .. B - 1
    BY DivMod
  <1>2. B * (x \div B) < B * (l + 1) /\ B * l < B * ((x \div B) + 1)
    BY <1>1
  <1>3. x \div B < l + 1 /\ l < (x \div B) + 1
    BY <1>1, <1>2
  <1> QED
    BY <1>1, <1>3

LEMMA LessThanProduct ==
    ASSUME NEW B \in Nat \ {0}, NEW l \in Nat, NEW n \in Nat, B * l < B * n
    PROVE  l < n
  OBVIOUS

LEMMA ElementOf ==
    ASSUME NEW S, NEW s \in Seq(S), NEW i \in 1 .. Len(s)
    PROVE  s[i] \in S
  OBVIOUS

\* What the directory and the inodes of the boot image are like.
LEMMA DiskFacts ==
    ASSUME NEW e \in Entries
    PROVE  /\ direntries[e].filename \in Seq(STRING)
           /\ Inode(e).length \in Nat /\ Inode(e).length <= MAX_LOAD
           /\ Inode(e).data_block_num \in Seq(Nat)
           /\ Inode(e).length <= BlockSize * Len(Inode(e).data_block_num)
  <1>1. direntries[e] \in [filename : Seq(STRING),
                           filetype : {Device, DirFile, RegularFile},
                           inode_num : DOMAIN inodes]
    <2> DEFINE Dentries == [filename : Seq(STRING),
                            filetype : {Device, DirFile, RegularFile},
                            inode_num : DOMAIN inodes]
    <2>1. direntries \in Seq(Dentries)
      BY FilesAssumption
    <2> HIDE DEF Dentries
    <2>2. direntries[e] \in Dentries
      BY <2>1, ElementOf DEF Entries, dir_count
    <2> QED
      BY <2>2 DEF Dentries
  <1> QED
    BY <1>1, FilesAssumption DEF Inode

LEMMA MaxBlockBound ==
    ASSUME NEW e \in Entries
    PROVE  /\ MaxBlock(e) \in Nat
           /\ Inode(e).length < BlockSize * MaxBlock(e)
  <1>1. Inode(e).length \in Nat /\ BlockSize \in Nat \ {0}
    BY DiskFacts, FilesAssumption
  <1>2. /\ Inode(e).length \div BlockSize \in Nat
        /\ Inode(e).length < BlockSize * ((Inode(e).length \div BlockSize) + 1)
    BY <1>1, DivMod
  <1> QED
    BY <1>2 DEF MaxBlock

(***************************************************************************)
(* One turn of the loop.                                                   *)
(***************************************************************************)
LEMMA TurnCopies ==
    ASSUME NEW r \in DataStates, r.entry \in Entries, r.nbytes \in Nat,
           r.length_read <= r.nbytes, r.offset \in 0 .. Inode(r.entry).length,
           r.offset <= BlockSize * (r.loop + 1),
           r.offset = Inode(r.entry).length \/ BlockSize * r.loop <= r.offset
    PROVE  /\ Copied(r) \in 0 .. (r.nbytes - r.length_read)
           /\ r.offset + Copied(r) <= Inode(r.entry).length
           /\ r.offset + Copied(r) <= BlockSize * (r.loop + 1)
           /\ \/ Copied(r) = r.nbytes - r.length_read
              \/ r.offset + Copied(r) = Inode(r.entry).length
              \/ r.offset + Copied(r) = BlockSize * (r.loop + 1)
           /\ Bytes(r, Copied(r)) =
                 [k \in 1 .. Copied(r) |-> ByteAt(r.entry, r.offset + k - 1)]
           /\ Bytes(r, Copied(r)) \in Seq(DiskBytes)
  <1> DEFINE len == Inode(r.entry).length
             end == BlockSize * (r.loop + 1)
  <1>1. /\ len \in Nat /\ end \in Nat /\ BlockSize \in Nat \ {0}
        /\ r.loop \in Nat /\ r.length_read \in Nat /\ r.offset \in Nat
    BY DiskFacts, FilesAssumption DEF DataStates
  <1>2. /\ InBlock(r) \in Nat
        /\ r.offset + InBlock(r) <= len /\ r.offset + InBlock(r) <= end
        /\ r.offset + InBlock(r) = len \/ r.offset + InBlock(r) = end
    <2> HIDE DEF len, end
    <2>1. InBlock(r) = (IF len > end THEN end ELSE len) - r.offset
      BY DEF InBlock, len, end
    <2>2. r.offset <= len /\ r.offset <= end
      BY DEF len, end
    <2> QED
      BY <1>1, <2>1, <2>2
  <1>3. /\ Copied(r) \in 0 .. (r.nbytes - r.length_read)
        /\ Copied(r) <= InBlock(r)
        /\ Copied(r) = r.nbytes - r.length_read \/ Copied(r) = InBlock(r)
    BY <1>1, <1>2 DEF Copied
  <1>4. ASSUME NEW k \in 1 .. Copied(r)
        PROVE  /\ <<Inode(r.entry).data_block_num[r.loop + 1],
                    (r.offset % BlockSize) + k - 1>> = ByteAt(r.entry, r.offset + k - 1)
               /\ ByteAt(r.entry, r.offset + k - 1) \in DiskBytes
    <2> DEFINE x == r.offset + k - 1
    <2>1. x \in Nat /\ r.offset < len /\ x < len /\ x < end
      BY <1>1, <1>2, <1>3
    <2>2. BlockSize * r.loop <= r.offset
      BY <1>1, <2>1
    <2>3. r.offset < end
      BY <1>1, <2>1
    <2>4. r.offset % BlockSize = r.offset - BlockSize * r.loop
      BY <1>1, <2>2, <2>3, InsideBlock
    <2>5. BlockSize * r.loop <= x
      BY <1>1, <2>2
    <2>6. x \div BlockSize = r.loop /\ x % BlockSize = x - BlockSize * r.loop
      <3> HIDE DEF x
      <3> QED
        BY <1>1, <2>1, <2>5, InsideBlock
    <2>7. BlockSize * r.loop < BlockSize * Len(Inode(r.entry).data_block_num)
      <3>1. /\ len <= BlockSize * Len(Inode(r.entry).data_block_num)
            /\ Len(Inode(r.entry).data_block_num) \in Nat
        BY DiskFacts
      <3>2. /\ BlockSize * r.loop \in Nat
            /\ BlockSize * Len(Inode(r.entry).data_block_num) \in Nat
        BY <1>1, <3>1
      <3> HIDE DEF x, len
      <3>3. BlockSize * r.loop <= x /\ x < len /\ x \in Nat /\ len \in Nat
        BY <1>1, <2>1, <2>5
      <3> QED
        BY <3>1, <3>2, <3>3
    <2>8. r.loop < Len(Inode(r.entry).data_block_num)
      BY <1>1, <2>7, DiskFacts, LessThanProduct
    <2>9. Inode(r.entry).data_block_num[r.loop + 1] \in Nat
      <3>1. /\ Inode(r.entry).data_block_num \in Seq(Nat)
            /\ r.loop + 1 \in 1 .. Len(Inode(r.entry).data_block_num)
        <4>1. Inode(r.entry).data_block_num \in Seq(Nat)
          BY DiskFacts
        <4>2. Len(Inode(r.entry).data_block_num) \in Nat
          BY <4>1
        <4>3. r.loop + 1 \in 1 .. Len(Inode(r.entry).data_block_num)
          BY <1>1, <2>8, <4>2
        <4> QED
          BY <4>1, <4>3
      <3> QED
        BY <3>1, ElementOf
    <2> QED
      <3>1. (r.offset % BlockSize) + k - 1 = x % BlockSize /\ x % BlockSize \in Nat
        BY <1>1, <2>1, <2>2, <2>4, <2>5, <2>6
      <3>2. ByteAt(r.entry, x) = <<Inode(r.entry).data_block_num[r.loop + 1], x % BlockSize>>
        BY <2>6 DEF ByteAt
      <3> QED
        BY <2>9, <3>1, <3>2 DEF DiskBytes
  <1>5. Bytes(r, Copied(r)) = [k \in 1 .. Copied(r) |-> ByteAt(r.entry, r.offset + k - 1)]
    BY <1>4 DEF Bytes
  <1>6. [k \in 1 .. Copied(r) |-> ByteAt(r.entry, r.offset + k - 1)] \in Seq(DiskBytes)
    BY <1>3, <1>4
  <1>7. /\ r.offset + Copied(r) <= len /\ r.offset + Copied(r) <= end
        /\ \/ Copied(r) = r.nbytes - r.length_read
           \/ r.offset + Copied(r) = len
           \/ r.offset + Copied(r) = end
    <2> HIDE DEF len, end
    <2>1. Copied(r) \in Nat
      BY <1>1, <1>3
    <2> QED
      BY <1>1, <1>2, <1>3, <2>1
  <1>8. Bytes(r, Copied(r)) \in Seq(DiskBytes)
    BY <1>5, <1>6
  <1> QED
    BY <1>3, <1>5, <1>7, <1>8, Zenon

\* What a turn does to the numbers of the loop invariant.
LEMMA TurnNumbers ==
    ASSUME NEW B \in Nat \ {0}, NEW l \in Nat, NEW first \in Nat, NEW read \in Nat,
           NEW asked \in Nat, read <= asked, NEW offset, offset = first + read,
           NEW i \in 0 .. (asked - read), NEW len,
           offset + i <= B * (l + 1),
           i = asked - read \/ offset + i = len \/ offset + i = B * (l + 1)
    PROVE  /\ offset + i \in Nat /\ read + i \in Nat
           /\ read + i <= asked /\ i \in Nat
           /\ offset + i = first + (read + i)
           /\ offset + i <= B * (l + 2)
           /\ read + i = asked \/ offset + i = len \/ B * (l + 1) <= offset + i
  <1>1. B * (l + 1) \in Nat /\ B * (l + 2) = B * (l + 1) + B
    OBVIOUS
  <1> QED
    BY <1>1

(***************************************************************************)
(* The initial states.                                                     *)
(***************************************************************************)
LEMMA Initially == Init => IInv
  <1> SUFFICES ASSUME Init PROVE IInv
    OBVIOUS
  <1> USE DEF Init
  <1>1. Shell \in Pids
    BY FilesAssumption DEF Pids, Shell
  <1>2. ~data.active
    BY DEF NotReading
  <1>3. dir_count \in Nat
    BY FilesAssumption DEF dir_count
  <1>4. TypeOK
    <2>1. data \in DataStates
      BY DEF NotReading, DataStates
    <2>2. ClosedFd \in FdStates
      BY DEF ClosedFd, FdStates
    <2>3. listing \in [by : {<<>>} \cup (Pids \X Fds), names : Seq(Seq(STRING))]
      BY DEF NoListing
    <2> QED
      BY <1>1, <1>3, <2>1, <2>2, <2>3 DEF TypeOK
  <1>5. RunningInUse
    BY <1>1 DEF RunningInUse
  <1>6. DescriptorsKept
    BY DEF DescriptorsKept, DescriptorKept, ClosedFd
  <1>7. ListingComplete
    BY DEF ListingComplete, NoListing
  <1>8. ReadsInOrder /\ Turning
    BY <1>2 DEF ReadsInOrder, Turning
  <1> QED
    BY <1>4, <1>5, <1>6, <1>7, <1>8 DEF IInv

(***************************************************************************)
(* Steps in which read_data is not at work: the reader's part is trivial.  *)
(***************************************************************************)
LEMMA NoReadAfterwards ==
    ASSUME ~data'.active
    PROVE  ReadsInOrder' /\ Turning'
  BY DEF ReadsInOrder, Turning

\* What dir_open and dir_close leave of the directory position.
LEMMA DirectoryRewound ==
    ASSUME IInv, curr_dir' = 0,
           \/ listing' = NoListing
           \/ \E p \in Pids, d \in Fds : listing' = [by |-> <<p, d>>, names |-> <<>>]
    PROVE  /\ ListingComplete' /\ curr_dir' \in 0 .. dir_count
           /\ listing' \in [by : {<<>>} \cup (Pids \X Fds), names : Seq(Seq(STRING))]
  <1>1. dir_count \in Nat
    BY FilesAssumption DEF dir_count
  <1>2. listing'.names = <<>>
    BY DEF NoListing
  <1>3. ListingComplete'
    BY <1>2 DEF ListingComplete
  <1>4. /\ NoListing.by = <<>> /\ NoListing.names = <<>>
        /\ NoListing = [by |-> <<>>, names |-> <<>>]
    BY DEF NoListing
  <1>5. <<>> \in Seq(Seq(STRING))
    OBVIOUS
  <1>6. listing' \in [by : {<<>>} \cup (Pids \X Fds), names : Seq(Seq(STRING))]
    <2>1. CASE listing' = NoListing
      BY <1>4, <1>5, <2>1
    <2>2. ASSUME NEW p \in Pids, NEW d \in Fds,
                 listing' = [by |-> <<p, d>>, names |-> <<>>]
          PROVE  listing' \in [by : {<<>>} \cup (Pids \X Fds), names : Seq(Seq(STRING))]
      BY <1>5, <2>2
    <2> QED
      BY <2>1, <2>2
  <1> QED
    BY <1>1, <1>3, <1>6

LEMMA DirectoryKept ==
    ASSUME IInv, KeepListing
    PROVE  /\ ListingComplete' /\ curr_dir' \in 0 .. dir_count
           /\ listing' \in [by : {<<>>} \cup (Pids \X Fds), names : Seq(Seq(STRING))]
  BY DEF IInv, TypeOK, ListingComplete, KeepListing

\* A call changes one descriptor of the process that calls.
LEMMA DescriptorChanged ==
    ASSUME IInv, NEW d \in Fds, NEW fd \in FdStates,
           fdt' = [fdt EXCEPT ![pid_counter][d] = fd],
           UNCHANGED <<in_use, pid_counter>>,
           DescriptorKept(fd)
    PROVE  fdt' \in [Pids -> [Fds -> FdStates]] /\ DescriptorsKept'
  <1> USE DEF IInv, TypeOK
  <1>1. fdt' \in [Pids -> [Fds -> FdStates]]
    OBVIOUS
  <1>2. ASSUME NEW p \in Pids, NEW c \in Fds
        PROVE  (fdt'[p][c].exists => in_use[p]) /\ DescriptorKept(fdt'[p][c])
    <2>1. CASE p = pid_counter /\ c = d
      <3>1. fdt'[p][c] = fd
        BY <2>1
      <3> QED
        BY <2>1, <3>1 DEF RunningInUse
    <2>2. CASE ~(p = pid_counter /\ c = d)
      <3>1. fdt'[p][c] = fdt[p][c]
        BY <2>2
      <3> QED
        BY <3>1 DEF DescriptorsKept
    <2> QED
      BY <2>1, <2>2
  <1>3. DescriptorsKept'
    BY <1>2 DEF DescriptorsKept, DescriptorKept, FileType, Inode
  <1> QED
    BY <1>1, <1>3

\* A call that answers and changes nothing else, or only the directory position.
LEMMA OnlyAnswered ==
    ASSUME IInv, UNCHANGED <<in_use, fdt, pid_counter, data>>, ~data.active,
           ListingComplete', curr_dir' \in 0 .. dir_count,
           listing' \in [by : {<<>>} \cup (Pids \X Fds), names : Seq(Seq(STRING))]
    PROVE  IInv'
  BY NoReadAfterwards
     DEF IInv, TypeOK, RunningInUse, DescriptorsKept

(***************************************************************************)
(* sys_open.                                                               *)
(***************************************************************************)
LEMMA OpenStep ==
    ASSUME IInv, NEW n \in Names, Open(n)
    PROVE  IInv'
  <1> USE DEF IInv, TypeOK
  <1>1. PICK d \in Lowest(FreeFds), e \in Lookup(n) :
            /\ fdt' = [fdt EXCEPT ![pid_counter][d] = Opened(@, e)]
            /\ RewoundBy(e, d)
    BY DEF Open
  <1>2. d \in Fds /\ ~fdt[pid_counter][d].exists /\ e \in Entries
    BY DEF Lowest, FreeFds, Lookup, Found, IsOpen, Running
  <1>3. UNCHANGED <<in_use, pid_counter, data>> /\ ~data.active
    BY DEF Open, Idle
  <1>4. Opened(fdt[pid_counter][d], e) \in FdStates
    <2>1. fdt[pid_counter][d] \in FdStates
      BY <1>2
    <2> QED
      BY <1>2, <2>1 DEF Opened, FdStates
  <1>5. DescriptorKept(Opened(fdt[pid_counter][d], e))
    <2>1. fdt[pid_counter][d] \in FdStates /\ fdt[pid_counter][d].file_bytes_read = 0
      BY <1>2 DEF DescriptorsKept, DescriptorKept
    <2>2. /\ Opened(fdt[pid_counter][d], e).entry = e
          /\ Opened(fdt[pid_counter][d], e).file_bytes_read = 0
      BY <2>1 DEF Opened, FdStates
    <2> QED
      BY <1>2, <2>2 DEF DescriptorKept
  <1>6. fdt' \in [Pids -> [Fds -> FdStates]] /\ DescriptorsKept'
    BY <1>1, <1>2, <1>3, <1>4, <1>5, DescriptorChanged
  <1>7. /\ ListingComplete' /\ curr_dir' \in 0 .. dir_count
        /\ listing' \in [by : {<<>>} \cup (Pids \X Fds), names : Seq(Seq(STRING))]
    <2>1. CASE FileType(e) = DirFile
      BY <1>1, <1>2, <2>1, DirectoryRewound DEF RewoundBy
    <2>2. CASE FileType(e) # DirFile
      BY <1>1, <2>2, DirectoryKept DEF RewoundBy
    <2> QED
      BY <2>1, <2>2
  <1>8. ReadsInOrder' /\ Turning'
    BY <1>3, NoReadAfterwards
  <1> QED
    BY <1>3, <1>6, <1>7, <1>8 DEF RunningInUse

LEMMA OpenRefusedStep ==
    ASSUME IInv, NEW n \in Names, OpenRefused(n)
    PROVE  IInv'
  BY OnlyAnswered, DirectoryKept DEF OpenRefused, Idle

(***************************************************************************)
(* sys_close and the directory.                                            *)
(***************************************************************************)
LEMMA ClosedDescriptor ==
    ASSUME IInv, NEW p \in Pids, NEW d \in Fds
    PROVE  LET fd == Closed(fdt[p][d])
           IN  fd \in FdStates /\ DescriptorKept(fd) /\ ~fd.exists
  <1>1. fdt[p][d] \in FdStates /\ DescriptorKept(fdt[p][d])
    BY DEF IInv, TypeOK, DescriptorsKept
  <1>2. ClosedFd \in FdStates /\ ~ClosedFd.exists /\ ClosedFd.file_bytes_read = 0
    BY DEF ClosedFd, FdStates
  <1>3. CASE fdt[p][d].exists /\ FileType(fdt[p][d].entry) = RegularFile
    BY <1>2, <1>3 DEF Closed, DescriptorKept
  <1>4. CASE ~(fdt[p][d].exists /\ FileType(fdt[p][d].entry) = RegularFile)
    <2>1. fdt[p][d].file_bytes_read = 0
      BY <1>1, <1>4 DEF DescriptorKept
    <2>2. Closed(fdt[p][d]) = ClosedFd
      BY <1>4, <2>1 DEF Closed, ClosedFd
    <2> QED
      BY <1>2, <2>2 DEF DescriptorKept
  <1> QED
    BY <1>3, <1>4

LEMMA RewoundOrKept ==
    ASSUME IInv, NEW S, RewoundFor(S)
    PROVE  /\ ListingComplete' /\ curr_dir' \in 0 .. dir_count
           /\ listing' \in [by : {<<>>} \cup (Pids \X Fds), names : Seq(Seq(STRING))]
  BY DirectoryRewound, DirectoryKept DEF RewoundFor

LEMMA CloseStep ==
    ASSUME IInv, NEW d \in Fds, Close(d)
    PROVE  IInv'
  <1> USE DEF IInv, TypeOK
  <1>1. /\ fdt' = [fdt EXCEPT ![pid_counter][d] = Closed(fdt[pid_counter][d])]
        /\ UNCHANGED <<in_use, pid_counter, data>> /\ ~data.active
    BY DEF Close, Idle
  <1>2. /\ Closed(fdt[pid_counter][d]) \in FdStates
        /\ DescriptorKept(Closed(fdt[pid_counter][d]))
    BY ClosedDescriptor
  <1>3. fdt' \in [Pids -> [Fds -> FdStates]] /\ DescriptorsKept'
    BY <1>1, <1>2, DescriptorChanged
  <1>4. /\ ListingComplete' /\ curr_dir' \in 0 .. dir_count
        /\ listing' \in [by : {<<>>} \cup (Pids \X Fds), names : Seq(Seq(STRING))]
    BY RewoundOrKept DEF Close
  <1>5. ReadsInOrder' /\ Turning'
    BY <1>1, NoReadAfterwards
  <1> QED
    BY <1>1, <1>3, <1>4, <1>5 DEF RunningInUse

\* One more name in front of the position, one more name that has been read.
LEMMA ReadDirEntryStep ==
    ASSUME IInv, NEW d \in Fds, ReadDirEntry(d)
    PROVE  IInv'
  <1> DEFINE name(k) == direntries[k].filename
  <1>1. /\ curr_dir \in Nat /\ dir_count \in Nat /\ curr_dir < dir_count
        /\ curr_dir' = curr_dir + 1
        /\ listing' = IF listing.by = <<pid_counter, d>>
                      THEN [listing EXCEPT !.names = Append(@, name(curr_dir + 1))]
                      ELSE NoListing
        /\ listing \in [by : {<<>>} \cup (Pids \X Fds), names : Seq(Seq(STRING))]
    BY FilesAssumption DEF ReadDirEntry, IInv, TypeOK, dir_count
  <1>2. curr_dir' \in 0 .. dir_count
    BY <1>1
  <1>3. name(curr_dir + 1) \in Seq(STRING)
    BY <1>1, DiskFacts DEF Entries
  <1>4. CASE listing.by = <<pid_counter, d>>
    <2>1. listing.names = [k \in 1 .. curr_dir |-> name(k)]
      BY <1>4 DEF IInv, ListingComplete
    <2>2. listing'.names = Append(listing.names, name(curr_dir + 1))
      BY <1>1, <1>4
    <2>3. listing' \in [by : {<<>>} \cup (Pids \X Fds), names : Seq(Seq(STRING))]
      <3>1. Append(listing.names, name(curr_dir + 1)) \in Seq(Seq(STRING))
        <4> DEFINE S == Seq(STRING)
        <4>1. listing.names \in Seq(S) /\ name(curr_dir + 1) \in S
          BY <1>1, <1>3
        <4> HIDE DEF S, name
        <4>2. Append(listing.names, name(curr_dir + 1)) \in Seq(S)
          BY <4>1
        <4> QED
          BY <4>2 DEF S
      <3>2. listing' = [listing EXCEPT !.names = Append(listing.names, name(curr_dir + 1))]
        BY <1>1, <1>4
      <3> HIDE DEF name
      <3> QED
        BY <1>1, <3>1, <3>2
    <2>4. listing'.names = [k \in 1 .. curr_dir + 1 |-> name(k)]
      <3> DEFINE f == [k \in Entries |-> name(k)]
      <3>1. Append([k \in 1 .. curr_dir |-> f[k]], f[curr_dir + 1])
                = [k \in 1 .. curr_dir + 1 |-> f[k]]
        <4> HIDE DEF f
        <4> QED
          BY <1>1
      <3>2. \A k \in 1 .. curr_dir + 1 : f[k] = name(k)
        BY <1>1 DEF Entries
      <3>3. /\ \A k \in 1 .. curr_dir : f[k] = name(k)
            /\ f[curr_dir + 1] = name(curr_dir + 1)
        <4> HIDE DEF f, name
        <4> QED
          BY <1>1, <3>2
      <3>4. [k \in 1 .. curr_dir |-> f[k]] = [k \in 1 .. curr_dir |-> name(k)]
        <4> HIDE DEF f, name
        <4> QED
          BY <3>3, Zenon
      <3>5. [k \in 1 .. curr_dir + 1 |-> f[k]] = [k \in 1 .. curr_dir + 1 |-> name(k)]
        <4> HIDE DEF f, name
        <4> QED
          BY <3>2, Zenon
      <3> HIDE DEF f, name
      <3> QED
        BY <2>1, <2>2, <3>1, <3>3, <3>4, <3>5
    <2>5. ListingComplete'
      BY <1>1, <2>4 DEF ListingComplete
    <2> QED
      BY <1>2, <2>3, <2>5, OnlyAnswered DEF ReadDirEntry, Idle
  <1>5. CASE listing.by # <<pid_counter, d>>
    <2>1. listing' = NoListing
      BY <1>1, <1>5
    <2>2. /\ ListingComplete'
          /\ listing' \in [by : {<<>>} \cup (Pids \X Fds), names : Seq(Seq(STRING))]
      BY <2>1 DEF ListingComplete, NoListing
    <2> QED
      BY <1>2, <2>2, OnlyAnswered DEF ReadDirEntry, Idle
  <1> QED
    BY <1>4, <1>5

LEMMA ReadDirEndStep ==
    ASSUME IInv, NEW d \in Fds, ReadDirEnd(d)
    PROVE  IInv'
  <1>1. /\ curr_dir' = 0 /\ dir_count \in Nat
        /\ listing' = IF listing.by = <<pid_counter, d>>
                      THEN [listing EXCEPT !.names = <<>>] ELSE NoListing
        /\ listing \in [by : {<<>>} \cup (Pids \X Fds), names : Seq(Seq(STRING))]
    BY FilesAssumption DEF ReadDirEnd, IInv, TypeOK, dir_count
  <1>2. /\ listing' \in [by : {<<>>} \cup (Pids \X Fds), names : Seq(Seq(STRING))]
        /\ listing'.names = <<>>
    <2>1. <<>> \in Seq(Seq(STRING))
      OBVIOUS
    <2>2. CASE listing.by = <<pid_counter, d>>
      <3>1. listing' = [listing EXCEPT !.names = <<>>]
        BY <1>1, <2>2
      <3> QED
        BY <1>1, <2>1, <3>1
    <2>3. CASE listing.by # <<pid_counter, d>>
      <3>1. listing' = [by |-> <<>>, names |-> <<>>]
        BY <1>1, <2>3 DEF NoListing
      <3> QED
        BY <2>1, <3>1
    <2> QED
      BY <2>2, <2>3
  <1>3. ListingComplete' /\ curr_dir' \in 0 .. dir_count
    BY <1>1, <1>2 DEF ListingComplete
  <1> QED
    BY <1>2, <1>3, OnlyAnswered DEF ReadDirEnd, Idle

(***************************************************************************)
(* read_data.                                                              *)
(***************************************************************************)

\* The state in which the loop begins.
LEMMA ReadBegins ==
    ASSUME NEW n \in Names \cup {Nothing}, NEW e \in Entries,
           NEW d \in Fds \cup {Loader}, NEW nbytes \in Nat,
           NEW offset \in {Wrapped} \cup 0 .. Inode(e).length,
           ReadData(n, e, d, offset, nbytes), First' = offset,
           d # Loader => /\ fdt'[pid_counter'][d].exists
                         /\ fdt'[pid_counter'][d].entry = e
                         /\ FileType(e) = RegularFile
    PROVE  data' \in DataStates /\ ReadsInOrder' /\ Turning'
  <1>1. /\ MaxBlock(e) \in Nat /\ Inode(e).length < BlockSize * MaxBlock(e)
        /\ Inode(e).length \in Nat /\ BlockSize \in Nat \ {0}
    BY MaxBlockBound, DiskFacts, FilesAssumption
  <1>2. d \in Int /\ d # 0
    BY FilesAssumption DEF Fds, Loader
  <1>3. /\ data'.active /\ data'.name = n /\ data'.fd = d /\ data'.entry = e
        /\ data'.nbytes = nbytes /\ data'.offset = offset /\ data'.length_read = 0
        /\ data'.loop = MinBlock(e, offset) /\ data'.full = FALSE /\ data'.buf = <<>>
    BY DEF ReadData, NotReading
  <1>4. /\ MinBlock(e, offset) \in Nat
        /\ offset = Wrapped => MinBlock(e, offset) = MaxBlock(e)
        /\ offset # Wrapped => /\ BlockSize * MinBlock(e, offset) <= offset
                               /\ offset <= BlockSize * (MinBlock(e, offset) + 1)
                               /\ MinBlock(e, offset) < MaxBlock(e)
    <2>1. CASE offset = Wrapped
      BY <1>1, <2>1 DEF MinBlock
    <2>2. CASE offset # Wrapped
      <3>1. offset \in Nat /\ offset <= Inode(e).length
        BY <1>1, <2>2
      <3>2. MinBlock(e, offset) = offset \div BlockSize
        BY <2>2 DEF MinBlock
      <3>3. /\ MinBlock(e, offset) \in Nat
            /\ BlockSize * MinBlock(e, offset) <= offset
            /\ offset < BlockSize * (MinBlock(e, offset) + 1)
        BY <1>1, <3>1, <3>2, DivMod
      <3>4. BlockSize * MinBlock(e, offset) < BlockSize * MaxBlock(e)
        BY <1>1, <3>1, <3>3
      <3> QED
        BY <1>1, <2>2, <3>1, <3>3, <3>4, LessThanProduct
    <2> QED
      BY <2>1, <2>2
  <1>5. data' \in DataStates
    <2>1. offset \in Int
      BY <1>1 DEF Wrapped
    <2>2. data' = [active |-> TRUE, name |-> n, fd |-> d, entry |-> e, nbytes |-> nbytes,
                   offset |-> offset, length_read |-> 0, loop |-> MinBlock(e, offset),
                   full |-> FALSE, buf |-> <<>>]
      BY DEF ReadData, NotReading
    <2>3. MinBlock(e, offset) \in Nat /\ <<>> \in Seq(DiskBytes)
      BY <1>4
    <2> QED
      BY <2>1, <2>2, <2>3 DEF DataStates
  <1>6. ReadsInOrder'
    <2>1. CASE offset = Wrapped
      BY <1>3, <2>1 DEF ReadsInOrder
    <2>2. CASE offset # Wrapped
      <3>1. offset \in Nat /\ offset <= Inode(e).length
        BY <1>1, <2>2
      <3>2. More(data')
        BY <1>3, <1>4, <2>2 DEF More
      <3>3. [k \in 1 .. data'.length_read |-> ByteAt(e, offset + k - 1)] = <<>>
        BY <1>3
      <3> QED
        BY <1>3, <2>2, <3>1, <3>2, <3>3
           DEF ReadsInOrder, More, ByteAt, Inode, MaxBlock
    <2> QED
      BY <2>1, <2>2
  <1>7. Turning'
    <2>1. /\ offset = Wrapped => data'.loop >= MaxBlock(e)
          /\ offset # Wrapped => /\ data'.offset = offset + data'.length_read
                                 /\ data'.offset <= BlockSize * (data'.loop + 1)
                                 /\ BlockSize * data'.loop <= data'.offset
      BY <1>1, <1>3, <1>4
    <2>2. d # Loader => /\ Running'[d].exists
                        /\ Running'[d].entry = e
                        /\ FileType(e) = RegularFile
      BY DEF Running
    <2> HIDE DEF Running
    <2> QED
      BY <1>2, <1>3, <2>1, <2>2 DEF Turning, Entries, dir_count
  <1> QED
    BY <1>5, <1>6, <1>7

\* What two turns copy is one sequence.
LEMMA Continued ==
    ASSUME NEW m \in Nat, NEW n \in Nat, NEW f
    PROVE  [k \in 1 .. m |-> f[k]] \o [k \in 1 .. n |-> f[m + k]]
               = [k \in 1 .. m + n |-> f[k]]
  OBVIOUS

LEMMA ReadBlockStep ==
    ASSUME IInv, ReadBlock
    PROVE  IInv'
  <1>1. /\ data.active /\ ~data.full /\ data.loop < MaxBlock(data.entry)
        /\ data' = Turn(data)
        /\ UNCHANGED <<in_use, fdt, pid_counter, curr_dir, listing>>
    BY DEF ReadBlock, More
  <1> DEFINE i == Copied(data)
             len == Inode(data.entry).length
  <1>2. /\ data \in DataStates /\ data.loop \in Nat /\ data.length_read \in Nat
        /\ data.buf \in Seq(DiskBytes)
        /\ data.entry \in Entries /\ data.nbytes \in Nat /\ data.fd # 0
        /\ data.length_read <= data.nbytes
    BY <1>1 DEF IInv, TypeOK, Turning, DataStates
  <1>3. /\ MaxBlock(data.entry) \in Nat /\ len < BlockSize * MaxBlock(data.entry)
        /\ len \in Nat /\ BlockSize \in Nat \ {0}
    BY <1>2, MaxBlockBound, DiskFacts, FilesAssumption
  <1>4. First # Wrapped
    BY <1>1, <1>2, <1>3 DEF IInv, Turning
  <1>5. First \in Nat
    <2>1. CASE data.fd = Loader
      BY <2>1 DEF First
    <2>2. CASE data.fd # Loader
      <3>1. data.fd \in Fds
        BY <1>2, <2>2 DEF DataStates
      <3>2. pid_counter \in Pids /\ DescriptorKept(fdt[pid_counter][data.fd])
        BY <3>1 DEF IInv, TypeOK, DescriptorsKept
      <3>3. fdt[pid_counter][data.fd].entry = data.entry
        BY <1>1, <2>2 DEF IInv, Turning, Running
      <3>4. First = fdt[pid_counter][data.fd].file_bytes_read
        BY <2>2 DEF First, Running
      <3> QED
        BY <1>3, <1>4, <3>2, <3>3, <3>4 DEF DescriptorKept
    <2> QED
      BY <2>1, <2>2
  <1>6. /\ data.offset = First + data.length_read
        /\ data.offset <= BlockSize * (data.loop + 1)
        /\ data.offset = len \/ BlockSize * data.loop <= data.offset
        /\ data.offset \in 0 .. len /\ data.offset \in Nat
        /\ data.buf = [k \in 1 .. data.length_read |-> ByteAt(data.entry, First + k - 1)]
    <2>1. /\ data.offset = First + data.length_read
          /\ data.offset <= BlockSize * (data.loop + 1)
          /\ data.offset = len \/ BlockSize * data.loop <= data.offset
      BY <1>1, <1>4 DEF IInv, Turning
    <2>2. /\ First + data.length_read <= len
          /\ data.buf = [k \in 1 .. data.length_read |-> ByteAt(data.entry, First + k - 1)]
      BY <1>1, <1>4 DEF IInv, ReadsInOrder
    <2> QED
      BY <1>2, <1>3, <1>5, <2>1, <2>2
  <1>7. /\ i \in 0 .. (data.nbytes - data.length_read)
        /\ data.offset + i <= len
        /\ data.offset + i <= BlockSize * (data.loop + 1)
        /\ \/ i = data.nbytes - data.length_read
           \/ data.offset + i = len
           \/ data.offset + i = BlockSize * (data.loop + 1)
        /\ Bytes(data, i) = [k \in 1 .. i |-> ByteAt(data.entry, data.offset + k - 1)]
        /\ Bytes(data, i) \in Seq(DiskBytes)
    BY <1>2, <1>6, TurnCopies
  <1>14. /\ data.offset + i \in Nat /\ data.length_read + i \in Nat
        /\ data.length_read + i <= data.nbytes /\ i \in Nat
        /\ data.offset + i = First + (data.length_read + i)
        /\ data.offset + i <= BlockSize * (data.loop + 2)
        /\ \/ data.length_read + i = data.nbytes
           \/ data.offset + i = len
           \/ BlockSize * (data.loop + 1) <= data.offset + i
    <2> HIDE DEF i, len
    <2>1. /\ BlockSize \in Nat \ {0} /\ data.loop \in Nat /\ First \in Nat
          /\ data.length_read \in Nat /\ data.nbytes \in Nat
          /\ data.length_read <= data.nbytes
      BY <1>2, <1>3, <1>5
    <2>2. data.offset = First + data.length_read
      BY <1>6
    <2>3. /\ i \in 0 .. (data.nbytes - data.length_read)
          /\ data.offset + i <= BlockSize * (data.loop + 1)
          /\ \/ i = data.nbytes - data.length_read
             \/ data.offset + i = len
             \/ data.offset + i = BlockSize * (data.loop + 1)
      BY <1>7
    <2> QED
      BY <2>1, <2>2, <2>3, TurnNumbers
  <1>8. /\ data'.active /\ data'.fd = data.fd /\ data'.entry = data.entry
        /\ data'.nbytes = data.nbytes /\ data'.offset = data.offset + i
        /\ data'.length_read = data.length_read + i /\ data'.loop = data.loop + 1
        /\ data'.full = (data.length_read + i = data.nbytes)
        /\ data'.buf = data.buf \o Bytes(data, i)
    <2> HIDE DEF i, len
    <2>1. data' = [data EXCEPT !.buf = data.buf \o Bytes(data, i),
                               !.offset = data.offset + i,
                               !.length_read = data.length_read + i,
                               !.loop = data.loop + 1,
                               !.full = (data.length_read + i = data.nbytes)]
      BY <1>1 DEF Turn, i
    <2> QED
      BY <1>1, <1>2, <2>1 DEF DataStates
  <1>9. First' = First
    BY <1>1, <1>8 DEF First, Running
  <1> HIDE DEF i, len
  <1>10. data' \in DataStates
    <2>1. data.buf \o Bytes(data, i) \in Seq(DiskBytes)
      BY <1>2, <1>7
    <2>2. data' = [data EXCEPT !.buf = data.buf \o Bytes(data, i),
                               !.offset = data.offset + i,
                               !.length_read = data.length_read + i,
                               !.loop = data.loop + 1,
                               !.full = (data.length_read + i = data.nbytes)]
      BY <1>1 DEF Turn, i
    <2>3. /\ data.offset + i \in Int /\ data.length_read + i \in Nat
          /\ data.loop + 1 \in Nat
      BY <1>2, <1>14
    <2> QED
      BY <1>2, <2>1, <2>2, <2>3 DEF DataStates
  <1>11. \/ data'.full
         \/ data'.offset = len
         \/ BlockSize * data'.loop <= data'.offset
    BY <1>8, <1>14
  <1>12. Turning'
    <2>1. /\ data'.length_read <= data'.nbytes
          /\ data'.full => data'.length_read = data'.nbytes
          /\ data'.offset = First + data'.length_read
          /\ data'.offset <= BlockSize * (data'.loop + 1)
      <3>1. data'.loop + 1 = data.loop + 2
        BY <1>2, <1>8
      <3> QED
        BY <1>8, <1>14, <3>1
    <2>2. data.fd # Loader => /\ Running'[data.fd].exists
                              /\ Running'[data.fd].entry = data.entry
                              /\ FileType(data.entry) = RegularFile
      BY <1>1 DEF IInv, Turning, Running
    <2> QED
      BY <1>2, <1>4, <1>8, <1>9, <1>11, <2>1, <2>2
         DEF Turning, Inode, FileType, Entries, dir_count, len
  <1>13. ReadsInOrder'
    <2>1. data'.buf = [k \in 1 .. data'.length_read |-> ByteAt(data.entry, First + k - 1)]
      <3> DEFINE f == [k \in Nat |-> ByteAt(data.entry, First + k - 1)]
      <3>1. data.buf = [k \in 1 .. data.length_read |-> f[k]]
        BY <1>2, <1>6
      <3>2. Bytes(data, i) = [k \in 1 .. i |-> f[data.length_read + k]]
        <4>1. \A k \in 1 .. i : /\ data.length_read + k \in Nat
                                /\ data.offset + k - 1 = First + (data.length_read + k) - 1
          <5>1. /\ data.offset = First + data.length_read
                /\ First \in Nat /\ data.length_read \in Nat /\ i \in Nat
            BY <1>2, <1>5, <1>6, <1>14
          <5> QED
            BY <5>1
        <4>2. Bytes(data, i) = [k \in 1 .. i |-> ByteAt(data.entry, data.offset + k - 1)]
          BY <1>7
        <4> QED
          BY <4>1, <4>2
      <3>3. [k \in 1 .. data.length_read + i |-> f[k]]
                = [k \in 1 .. data.length_read + i |-> ByteAt(data.entry, First + k - 1)]
        BY <1>2, <1>7
      <3> HIDE DEF f
      <3>4. data.buf \o Bytes(data, i) = [k \in 1 .. data.length_read + i |-> f[k]]
        <4>1. data.length_read \in Nat /\ i \in Nat
          BY <1>2, <1>14
        <4>2. [k \in 1 .. data.length_read |-> f[k]]
                  \o [k \in 1 .. i |-> f[data.length_read + k]]
              = [k \in 1 .. data.length_read + i |-> f[k]]
          <5>1. ASSUME NEW m \in Nat, NEW n \in Nat
                PROVE  [k \in 1 .. m |-> f[k]] \o [k \in 1 .. n |-> f[m + k]]
                           = [k \in 1 .. m + n |-> f[k]]
            BY Continued
          <5> HIDE DEF i
          <5> QED
            BY <4>1, <5>1
        <4> QED
          BY <3>1, <3>2, <4>2, Zenon
      <3> QED
        BY <1>8, <3>3, <3>4
    <2>2. First + data'.length_read <= len
      BY <1>2, <1>5, <1>6, <1>7, <1>8
    <2>3. ASSUME ~More(data')
          PROVE  data'.length_read = data'.nbytes \/ First + data'.length_read = len
      <3>1. CASE data'.full
        BY <1>8, <3>1
      <3>2. CASE data'.offset = len
        BY <1>2, <1>5, <1>6, <1>7, <1>8, <3>2
      <3>3. CASE ~data'.full /\ BlockSize * data'.loop <= data'.offset
        <4>1. data'.loop \in Nat /\ MaxBlock(data.entry) <= data'.loop
          BY <1>2, <1>3, <1>8, <2>3, <3>3 DEF More
        <4>2. BlockSize * data'.loop < BlockSize * MaxBlock(data.entry)
          BY <1>2, <1>3, <1>6, <1>7, <1>8, <3>3
        <4>3. data'.loop < MaxBlock(data.entry)
          BY <1>3, <4>1, <4>2, LessThanProduct
        <4> QED
          BY <1>3, <4>1, <4>3
      <3> QED
        BY <1>11, <3>1, <3>2, <3>3
    <2> QED
      BY <1>4, <1>8, <1>9, <2>1, <2>2, <2>3
         DEF ReadsInOrder, More, ByteAt, Inode, MaxBlock, len
  <1> QED
    BY <1>1, <1>10, <1>12, <1>13
       DEF IInv, TypeOK, RunningInUse, DescriptorsKept, DescriptorKept, ListingComplete

(***************************************************************************)
(* sys_read of a file.                                                     *)
(***************************************************************************)

\* Where an open file can be read.
LEMMA OpenFile ==
    ASSUME IInv, NEW d \in Fds, IsRegular(d)
    PROVE  /\ fdt[pid_counter][d] \in FdStates
           /\ fdt[pid_counter][d].exists
           /\ fdt[pid_counter][d].entry \in Entries
           /\ FileType(fdt[pid_counter][d].entry) = RegularFile
           /\ Inode(fdt[pid_counter][d].entry).length \in Nat
           /\ fdt[pid_counter][d].file_bytes_read
                 \in {Wrapped} \cup 0 .. Inode(fdt[pid_counter][d].entry).length
  <1>1. /\ fdt[pid_counter][d] \in FdStates /\ DescriptorKept(fdt[pid_counter][d])
        /\ fdt[pid_counter][d].exists
        /\ FileType(fdt[pid_counter][d].entry) = RegularFile
    BY DEF IInv, TypeOK, DescriptorsKept, IsRegular, IsOpen, Running
  <1>2. fdt[pid_counter][d].entry \in Entries
    BY <1>1 DEF DescriptorKept
  <1>3. Inode(fdt[pid_counter][d].entry).length \in Nat
    BY <1>2, DiskFacts
  <1> QED
    BY <1>1, <1>2, <1>3 DEF DescriptorKept

LEMMA ReadFileStep ==
    ASSUME IInv, NEW d \in Fds, NEW n \in Counts, ReadFile(d, n)
    PROVE  IInv'
  <1> DEFINE fd == fdt[pid_counter][d]
  <1>1. /\ ReadData(Nothing, fd.entry, d, fd.file_bytes_read, n) /\ IsRegular(d)
        /\ UNCHANGED <<in_use, fdt, pid_counter, curr_dir, listing>>
    BY DEF ReadFile, Running
  <1>2. n \in Nat
    BY FilesAssumption DEF ReadFile
  <1>3. /\ fd.exists /\ fd.entry \in Entries /\ FileType(fd.entry) = RegularFile
        /\ fd.file_bytes_read \in {Wrapped} \cup 0 .. Inode(fd.entry).length
    BY <1>1, OpenFile
  <1>4. data'.fd = d
    BY <1>1 DEF ReadData, NotReading
  <1>5. d # Loader
    BY FilesAssumption DEF Fds, Loader
  <1>6. First' = fd.file_bytes_read
    BY <1>1, <1>4, <1>5 DEF First, Running
  <1>7. fdt'[pid_counter'][d] = fd
    BY <1>1
  <1>8. data' \in DataStates /\ ReadsInOrder' /\ Turning'
    <2> HIDE DEF fd
    <2> QED
      BY <1>1, <1>2, <1>3, <1>6, <1>7, ReadBegins
  <1> QED
    BY <1>1, <1>8
       DEF IInv, TypeOK, RunningInUse, DescriptorsKept, DescriptorKept, ListingComplete

LEMMA ReadFileEndStep ==
    ASSUME IInv, NEW d \in Fds, NEW n \in Counts, ReadFileEnd(d, n)
    PROVE  IInv'
  BY OnlyAnswered, DirectoryKept DEF ReadFileEnd, Idle

\* The read of a negative count moves the position, but not out of the file.
LEMMA ReadFileRefusedStep ==
    ASSUME IInv, NEW d \in Fds, NEW n \in Counts, ReadFileRefused(d, n)
    PROVE  IInv'
  <1> DEFINE fd == fdt[pid_counter][d]
             moved == [fd EXCEPT !.file_bytes_read = Rewound(fd.file_bytes_read)]
  <1>1. /\ fdt' = [fdt EXCEPT ![pid_counter][d] = moved]
        /\ IsRegular(d) /\ KeepListing
        /\ UNCHANGED <<in_use, pid_counter, data>> /\ ~data.active
    BY DEF ReadFileRefused, Idle
  <1>2. /\ fd \in FdStates /\ fd.exists /\ fd.entry \in Entries
        /\ FileType(fd.entry) = RegularFile /\ Inode(fd.entry).length \in Nat
        /\ fd.file_bytes_read \in {Wrapped} \cup 0 .. Inode(fd.entry).length
    BY <1>1, OpenFile
  <1>3. Rewound(fd.file_bytes_read) \in {Wrapped} \cup 0 .. Inode(fd.entry).length
    BY <1>2 DEF Rewound, Wrapped
  <1>4. /\ moved \in FdStates /\ moved.exists /\ moved.entry = fd.entry
        /\ moved.file_bytes_read = Rewound(fd.file_bytes_read)
    <2> HIDE DEF fd
    <2>1. Rewound(fd.file_bytes_read) \in Int
      BY <1>2, <1>3 DEF Wrapped
    <2> QED
      BY <1>2, <2>1 DEF FdStates
  <1>5. DescriptorKept(moved)
    <2> HIDE DEF fd, moved
    <2> QED
      BY <1>2, <1>3, <1>4 DEF DescriptorKept
  <1>6. fdt' \in [Pids -> [Fds -> FdStates]] /\ DescriptorsKept'
    <2> HIDE DEF moved
    <2> QED
      BY <1>1, <1>4, <1>5, DescriptorChanged
  <1>7. ReadsInOrder' /\ Turning'
    BY <1>1, NoReadAfterwards
  <1> QED
    BY <1>1, <1>6, <1>7, DirectoryKept DEF IInv, TypeOK, RunningInUse

LEMMA NotReadingState == NotReading \in DataStates /\ ~NotReading.active
  BY DEF NotReading, DataStates

\* What was read never moves the position behind the end of the file.
LEMMA ReadReturnStep ==
    ASSUME IInv, ReadReturn
    PROVE  IInv'
  <1> DEFINE d == data.fd
             fd == fdt[pid_counter][d]
             moved == [fd EXCEPT !.file_bytes_read =
                                     Advanced(fd.file_bytes_read, data.length_read)]
  <1>1. /\ data.active /\ d # Loader /\ data' = NotReading
        /\ fdt' = [fdt EXCEPT ![pid_counter][d] = moved]
        /\ KeepListing /\ UNCHANGED <<in_use, pid_counter>>
    BY DEF ReadReturn
  <1>2. d \in Fds /\ data.length_read \in Nat
    BY <1>1 DEF IInv, TypeOK, DataStates, Turning
  <1>3. fd.exists /\ fd.entry = data.entry /\ FileType(fd.entry) = RegularFile
    BY <1>1 DEF IInv, Turning, Running
  <1>4. /\ fd \in FdStates /\ fd.entry \in Entries /\ Inode(fd.entry).length \in Nat
        /\ fd.file_bytes_read \in {Wrapped} \cup 0 .. Inode(fd.entry).length
    BY <1>2, <1>3, OpenFile DEF IsRegular, IsOpen, Running
  <1>5. First = fd.file_bytes_read
    BY <1>1 DEF First, Running
  <1>6. First # Wrapped => First + data.length_read <= Inode(fd.entry).length
    BY <1>1, <1>3 DEF IInv, ReadsInOrder
  <1>7. Advanced(fd.file_bytes_read, data.length_read)
            \in {Wrapped} \cup 0 .. Inode(fd.entry).length
    <2> HIDE DEF fd
    <2> QED
      BY <1>2, <1>4, <1>5, <1>6 DEF Advanced, Wrapped
  <1>8. /\ moved \in FdStates /\ moved.exists /\ moved.entry = fd.entry
        /\ moved.file_bytes_read = Advanced(fd.file_bytes_read, data.length_read)
    <2> HIDE DEF fd
    <2>1. Advanced(fd.file_bytes_read, data.length_read) \in Int
      BY <1>4, <1>7 DEF Wrapped
    <2> QED
      BY <1>3, <1>4, <2>1 DEF FdStates
  <1>9. DescriptorKept(moved)
    <2> HIDE DEF fd, moved
    <2> QED
      BY <1>3, <1>4, <1>7, <1>8 DEF DescriptorKept
  <1>10. fdt' \in [Pids -> [Fds -> FdStates]] /\ DescriptorsKept'
    <2> HIDE DEF moved, d
    <2> QED
      BY <1>1, <1>2, <1>8, <1>9, DescriptorChanged
  <1>11. data' \in DataStates /\ ReadsInOrder' /\ Turning'
    BY <1>1, NotReadingState, NoReadAfterwards
  <1> QED
    BY <1>1, <1>10, <1>11, DirectoryKept DEF IInv, TypeOK, RunningInUse

(***************************************************************************)
(* sys_execute and sys_halt.                                               *)
(***************************************************************************)
LEMMA EmptyTable ==
    ASSUME NEW d \in Fds
    PROVE  init_pcb[d] \in FdStates /\ DescriptorKept(init_pcb[d]) /\ ~init_pcb[d].exists
  BY DEF init_pcb, ClosedFd, FdStates, DescriptorKept

\* A process gets a new table, or loses its descriptors, and may begin or end.
LEMMA TableChanged ==
    ASSUME IInv, NEW p \in Pids, NEW t \in [Fds -> FdStates],
           fdt' = [fdt EXCEPT ![p] = t],
           \A d \in Fds : DescriptorKept(t[d]) /\ ~t[d].exists,
           \A q \in Pids \ {p} : in_use'[q] = in_use[q]
    PROVE  fdt' \in [Pids -> [Fds -> FdStates]] /\ DescriptorsKept'
  <1>1. fdt' \in [Pids -> [Fds -> FdStates]]
    BY DEF IInv, TypeOK
  <1>2. ASSUME NEW q \in Pids, NEW d \in Fds
        PROVE  (fdt'[q][d].exists => in_use'[q]) /\ DescriptorKept(fdt'[q][d])
    <2>1. CASE q = p
      BY <2>1 DEF IInv, TypeOK
    <2>2. CASE q # p
      BY <2>2 DEF IInv, TypeOK, DescriptorsKept
    <2> QED
      BY <2>1, <2>2
  <1> QED
    BY <1>1, <1>2 DEF DescriptorsKept, DescriptorKept, FileType, Inode

LEMMA ExecuteStep ==
    ASSUME IInv, NEW n \in Names, Execute(n)
    PROVE  IInv'
  <1>1. PICK p \in Lowest(FreePcbs) :
            /\ in_use' = [in_use EXCEPT ![p] = TRUE] /\ pid_counter' = p
            /\ fdt' = [fdt EXCEPT ![p] = init_pcb]
    BY DEF Execute, NewTable
  <1>2. PICK e \in Lookup(n) : ReadData(n, e, Loader, 0, MAX_LOAD)
    BY DEF Execute
  <1>3. p \in Pids /\ e \in Entries
    BY DEF Lowest, FreePcbs, Lookup, Found
  <1>4. /\ in_use' \in [Pids -> BOOLEAN] /\ in_use'[p]
        /\ \A q \in Pids \ {p} : in_use'[q] = in_use[q]
    BY <1>1, <1>3 DEF IInv, TypeOK
  <1>5. RunningInUse'
    <2>1. Shell \in Pids
      BY FilesAssumption DEF Pids, Shell
    <2> QED
      BY <1>1, <1>4, <2>1 DEF IInv, RunningInUse
  <1>6. fdt' \in [Pids -> [Fds -> FdStates]] /\ DescriptorsKept'
    <2>1. /\ init_pcb \in [Fds -> FdStates]
          /\ \A d \in Fds : DescriptorKept(init_pcb[d]) /\ ~init_pcb[d].exists
      BY EmptyTable DEF init_pcb
    <2> QED
      BY <1>1, <1>3, <1>4, <2>1, TableChanged
  <1>7. data' \in DataStates /\ ReadsInOrder' /\ Turning'
    <2>1. First' = 0
      BY <1>2 DEF ReadData, NotReading, First
    <2>2. 0 \in 0 .. Inode(e).length /\ MAX_LOAD \in Nat
      BY <1>3, DiskFacts, FilesAssumption
    <2> QED
      BY <1>2, <1>3, <2>1, <2>2, ReadBegins
  <1> QED
    BY <1>1, <1>3, <1>4, <1>5, <1>6, <1>7, DirectoryKept DEF Execute, IInv, TypeOK

LEMMA ExecuteRefusedStep ==
    ASSUME IInv, NEW n \in Names, ExecuteRefused(n)
    PROVE  IInv'
  <1>1. PICK p \in Lowest(FreePcbs) : fdt' = [fdt EXCEPT ![p] = init_pcb]
    BY DEF ExecuteRefused, NewTable
  <1>2. p \in Pids
    BY DEF Lowest, FreePcbs
  <1>3. UNCHANGED <<in_use, pid_counter, data>> /\ ~data.active
    BY DEF ExecuteRefused, Idle
  <1>4. fdt' \in [Pids -> [Fds -> FdStates]] /\ DescriptorsKept'
    <2>1. /\ init_pcb \in [Fds -> FdStates]
          /\ \A d \in Fds : DescriptorKept(init_pcb[d]) /\ ~init_pcb[d].exists
      BY EmptyTable DEF init_pcb
    <2> QED
      BY <1>1, <1>2, <1>3, <2>1, TableChanged
  <1>5. ReadsInOrder' /\ Turning'
    BY <1>3, NoReadAfterwards
  <1> QED
    BY <1>3, <1>4, <1>5, DirectoryKept DEF ExecuteRefused, IInv, TypeOK, RunningInUse

LEMMA EnterProgramStep ==
    ASSUME IInv, EnterProgram
    PROVE  IInv'
  <1>1. data' \in DataStates /\ ReadsInOrder' /\ Turning'
    BY NotReadingState, NoReadAfterwards DEF EnterProgram
  <1> QED
    BY <1>1, DirectoryKept
       DEF EnterProgram, IInv, TypeOK, RunningInUse, DescriptorsKept, DescriptorKept

LEMMA HaltStep ==
    ASSUME IInv, Halt
    PROVE  IInv'
  <1> DEFINE t == [d \in Fds |-> Closed(fdt[pid_counter][d])]
  <1>1. /\ fdt' = [fdt EXCEPT ![pid_counter] = t]
        /\ in_use' = [in_use EXCEPT ![pid_counter] = FALSE] /\ pid_counter' = Shell
        /\ pid_counter # Shell /\ UNCHANGED data /\ ~data.active /\ RewoundFor(Fds)
    BY DEF Halt, Idle
  <1>2. pid_counter \in Pids /\ Shell \in Pids
    BY FilesAssumption DEF IInv, TypeOK, Pids, Shell
  <1>3. /\ in_use' \in [Pids -> BOOLEAN]
        /\ \A q \in Pids \ {pid_counter} : in_use'[q] = in_use[q]
    BY <1>1, <1>2 DEF IInv, TypeOK
  <1>4. fdt' \in [Pids -> [Fds -> FdStates]] /\ DescriptorsKept'
    <2>1. /\ t \in [Fds -> FdStates]
          /\ \A d \in Fds : DescriptorKept(t[d]) /\ ~t[d].exists
      BY <1>2, ClosedDescriptor
    <2> HIDE DEF t
    <2> QED
      BY <1>1, <1>2, <1>3, <2>1, TableChanged
  <1>5. RunningInUse'
    BY <1>1, <1>2, <1>3 DEF IInv, RunningInUse
  <1>6. ReadsInOrder' /\ Turning'
    BY <1>1, NoReadAfterwards
  <1> QED
    BY <1>1, <1>2, <1>3, <1>4, <1>5, <1>6, RewoundOrKept DEF IInv, TypeOK

\* The return of a call, and a step that changes nothing.
LEMMA NothingMoved ==
    ASSUME IInv, UNCHANGED <<in_use, fdt, pid_counter, curr_dir, data, listing>>
    PROVE  IInv'
  BY DEF IInv, TypeOK, RunningInUse, DescriptorsKept, DescriptorKept, ListingComplete,
         ReadsInOrder, Turning, First, Running, More

(***************************************************************************)
(* The theorems.                                                           *)
(***************************************************************************)
LEMMA Preserved == IInv /\ [Next]_vars => IInv'
  <1> SUFFICES ASSUME IInv, [Next]_vars PROVE IInv'
    OBVIOUS
  <1>1. CASE \E n \in Names : Open(n) \/ OpenRefused(n) \/ Execute(n) \/ ExecuteRefused(n)
    BY <1>1, OpenStep, OpenRefusedStep, ExecuteStep, ExecuteRefusedStep
  <1>2. CASE \E d \in Fds : Close(d) \/ ReadDirEntry(d) \/ ReadDirEnd(d)
    BY <1>2, CloseStep, ReadDirEntryStep, ReadDirEndStep
  <1>3. CASE \E d \in Fds, n \in Counts :
                ReadFile(d, n) \/ ReadFileEnd(d, n) \/ ReadFileRefused(d, n)
    BY <1>3, ReadFileStep, ReadFileEndStep, ReadFileRefusedStep
  <1>4. CASE ReadBlock
    BY <1>4, ReadBlockStep
  <1>5. CASE ReadReturn
    BY <1>5, ReadReturnStep
  <1>6. CASE EnterProgram
    BY <1>6, EnterProgramStep
  <1>7. CASE Halt
    BY <1>7, HaltStep
  <1>8. CASE ReturnToUser
    BY <1>8, NothingMoved DEF ReturnToUser, KeepListing
  <1>9. CASE UNCHANGED vars
    BY <1>9, NothingMoved DEF vars
  <1> QED
    BY <1>1, <1>2, <1>3, <1>4, <1>5, <1>6, <1>7, <1>8, <1>9 DEF Next

LEMMA Invariance == Spec => []IInv
  BY Initially, Preserved, PTL DEF Spec

\* The tables, the directory position and the locals of read_data stay in their
\* ranges, whatever files the disk holds.
THEOREM TypeCorrect == Spec => []TypeOK
  <1>1. IInv => TypeOK
    BY DEF IInv
  <1> QED
    BY <1>1, Invariance, PTL

\* sys_open may rely on a closed descriptor's position being 0, and a process
\* that has ended has closed all of its descriptors.
THEOREM DescriptorsStayKept == Spec => []DescriptorsKept
  <1>1. IInv => DescriptorsKept
    BY DEF IInv
  <1> QED
    BY <1>1, Invariance, PTL

\* A directory read undisturbed yields every name, once, in order.
THEOREM ListingsComplete == Spec => []ListingComplete
  <1>1. IInv => ListingComplete
    BY DEF IInv
  <1> QED
    BY <1>1, Invariance, PTL

\* read_data copies the bytes behind the position, in order, and all of them.
THEOREM ReadsRight == Spec => []ReadsInOrder
  <1>1. IInv => ReadsInOrder
    BY DEF IInv
  <1> QED
    BY <1>1, Invariance, PTL

-----------------------------------------------------------------------------
(***************************************************************************)
(* Files implements OpenFiles on a disk whose names, and the names that     *)
(* programs give, fit into FILENAME_LEN characters, differ, and belong to   *)
(* regular files where a program can be run.                               *)
(***************************************************************************)
OrderlyDisk ==
    /\ \A n \in Names \cup FileNames : Len(n) <= FILENAME_LEN
    /\ \A e, f \in Entries : NameOf(e) = NameOf(f) => e = f
    /\ \A e \in Entries : IsElf(e) => FileType(e) = RegularFile

\* Who reads: a program that asked for as many bytes as a program may ask for, or the
\* loader, for a process that has not begun.
Reading ==
    data.active =>
        /\ answer = NoAnswer
        /\ data.fd # Loader => data.fd \in Fds /\ data.nbytes \in Counts
        /\ data.fd = Loader =>
              /\ pid_counter # Shell /\ OpenFdsOf(pid_counter) = {}
              /\ data.nbytes = MAX_LOAD /\ data.name = NameOf(data.entry)
              /\ IsElf(data.entry)

ReadInv == IInv /\ Reading

LEMMA NamesAreSequences ==
    /\ \A n \in Names : n \in Seq(STRING)
    /\ \A e \in Entries : NameOf(e) \in Seq(STRING)
  BY FilesAssumption, DiskFacts DEF NameOf

LEMMA ShortNamesWhole ==
    ASSUME NEW n \in Seq(STRING), Len(n) <= FILENAME_LEN
    PROVE  Truncated(n) = n
  <1> DEFINE l == Len(n)
             t == IF l < FILENAME_LEN THEN l ELSE FILENAME_LEN
  <1>1. t = l /\ l \in Nat
    BY FilesAssumption
  <1>2. SubSeq(n, 1, l) = n
    OBVIOUS
  <1> QED
    BY <1>1, <1>2 DEF Truncated

\* read_dentry_by_name finds the entry of that name, and only that.
LEMMA FoundIsNamed ==
    ASSUME OrderlyDisk, NEW n \in Names
    PROVE  /\ Found[n] = {e \in Entries : NameOf(e) = n}
           /\ \A e \in Entries : NameOf(e) = n => Lookup(n) = {e}
           /\ \A e \in Lookup(n) : e \in Entries /\ NameOf(e) = n
  <1>1. ASSUME NEW e \in Entries
        PROVE  Matches(n, e) <=> NameOf(e) = n
    <2>1. Truncated(n) = n
      BY NamesAreSequences, ShortNamesWhole DEF OrderlyDisk
    <2>2. Truncated(NameOf(e)) = NameOf(e)
      BY NamesAreSequences, ShortNamesWhole DEF OrderlyDisk, FileNames
    <2> QED
      BY <2>1, <2>2 DEF Matches, NameOf
  <1>2. Found[n] = {e \in Entries : NameOf(e) = n}
    BY <1>1 DEF Found
  <1>3. ASSUME NEW e \in Entries, NameOf(e) = n
        PROVE  Lookup(n) = {e}
    <2>1. Found[n] = {e}
      BY <1>2, <1>3 DEF OrderlyDisk
    <2>2. e <= e
      BY DEF Entries
    <2> QED
      BY <2>1, <2>2 DEF Lookup, Lowest
  <1>4. \A e \in Lookup(n) : e \in Entries /\ NameOf(e) = n
    BY <1>2 DEF Lookup, Lowest
  <1> QED
    BY <1>2, <1>3, <1>4

\* A regular file's promised contents are its own.
LEMMA ContentsOf ==
    ASSUME OrderlyDisk, NEW e \in Entries, FileType(e) = RegularFile
    PROVE  /\ NameOf(e) \in DOMAIN FileContents
           /\ FileContents[NameOf(e)] = Content(e)
           /\ Len(Content(e)) = Inode(e).length
           /\ Content(e) \in Seq({Content(e)[k] : k \in 1 .. Inode(e).length})
  <1>1. EntryNamed(NameOf(e)) = e
    BY DEF EntryNamed, OrderlyDisk
  <1>2. NameOf(e) \in {NameOf(f) : f \in Regular}
    BY DEF Regular
  <1>3. FileContents[NameOf(e)] = Content(e)
    BY <1>1, <1>2 DEF FileContents
  <1>4. Inode(e).length \in Nat
    BY DiskFacts
  <1> QED
    BY <1>2, <1>3, <1>4 DEF FileContents, Content

\* No file that is not a regular one has promised contents.
LEMMA OnlyRegularHasContents ==
    ASSUME OrderlyDisk, NEW e \in Entries, NameOf(e) \in DOMAIN FileContents
    PROVE  FileType(e) = RegularFile
  BY DEF FileContents, Regular, OrderlyDisk

LEMMA TurnKeepsCall ==
    ASSUME NEW r \in DataStates
    PROVE  /\ Turn(r).active = r.active /\ Turn(r).fd = r.fd /\ Turn(r).nbytes = r.nbytes
           /\ Turn(r).name = r.name /\ Turn(r).entry = r.entry
  BY DEF Turn, DataStates

LEMMA CallOf ==
    ASSUME NEW n, NEW e, NEW fd, NEW offset, NEW nbytes, ReadData(n, e, fd, offset, nbytes)
    PROVE  /\ data'.active /\ data'.fd = fd /\ data'.nbytes = nbytes
           /\ data'.name = n /\ data'.entry = e
  BY DEF ReadData, NotReading

\* The descriptors of a process that is not in use are closed.
LEMMA NoneOpen ==
    ASSUME IInv, NEW p \in Pids, ~in_use[p]
    PROVE  OpenFdsOf(p) = {}
  BY DEF IInv, DescriptorsKept, OpenFdsOf

LEMMA FreshTable ==
    /\ \A d \in Fds : ~init_pcb[d].exists
    /\ ~NotReading.active
  BY DEF init_pcb, ClosedFd, NotReading

LEMMA FdIsNotLoader == \A d \in Fds : d # Loader /\ d # 0
  BY FilesAssumption DEF Fds, Loader

LEMMA ReadingStep ==
    ASSUME OrderlyDisk, ReadInv, [Next]_vars
    PROVE  ReadInv'
  <1>1. IInv /\ IInv' /\ TypeOK /\ Reading
    BY Preserved DEF ReadInv, IInv
  <1> SUFFICES Reading'
    BY <1>1 DEF ReadInv
  <1>2. ASSUME Idle, data' = data
        PROVE  Reading'
    BY <1>2 DEF Idle, Reading
  <1>3. ASSUME NEW d \in Fds, NEW n \in Counts, ReadFile(d, n)
        PROVE  Reading'
    <2>1. data'.fd = d /\ data'.nbytes = n /\ answer' = NoAnswer
      BY <1>3, CallOf DEF ReadFile, Idle
    <2> QED
      BY <2>1, FdIsNotLoader DEF Reading
  <1>4. ASSUME NEW n \in Names, Execute(n)
        PROVE  Reading'
    <2>1. PICK e \in Lookup(n) : ReadData(n, e, Loader, 0, MAX_LOAD)
      BY <1>4 DEF Execute
    <2>2. e \in Entries /\ NameOf(e) = n /\ Lookup(n) = {e}
      BY FoundIsNamed
    <2>3. IsElf(e)
      BY <1>4, <2>2 DEF Execute, Runnable
    <2>4. PICK p \in Lowest(FreePcbs) : pid_counter' = p /\ fdt' = [fdt EXCEPT ![p] = init_pcb]
      BY <1>4 DEF Execute, NewTable
    <2>5. p \in Pids /\ ~in_use[p] /\ p # Shell
      BY <1>1, <2>4 DEF Lowest, FreePcbs, IInv, RunningInUse
    <2>6. OpenFdsOf(pid_counter)' = {}
      <3>1. fdt'[p] = init_pcb
        BY <1>1, <2>4, <2>5 DEF TypeOK
      <3> QED
        BY <2>4, <3>1, FreshTable DEF OpenFdsOf
    <2>7. answer' = NoAnswer
      BY <1>4 DEF Execute, Idle
    <2>8. /\ data'.fd = Loader /\ data'.nbytes = MAX_LOAD /\ data'.name = n
          /\ data'.entry = e
      BY <2>1, CallOf
    <2> QED
      BY <2>2, <2>3, <2>4, <2>5, <2>6, <2>7, <2>8
         DEF Reading, NameOf, IsElf, Inode, FileType
  <1>5. CASE ReadBlock
    <2>1. /\ UNCHANGED <<fdt, pid_counter, answer>> /\ data.active
          /\ data'.fd = data.fd /\ data'.nbytes = data.nbytes
          /\ data'.name = data.name /\ data'.entry = data.entry
      BY <1>1, <1>5, TurnKeepsCall DEF ReadBlock, TypeOK
    <2> QED
      BY <1>1, <2>1 DEF Reading, OpenFdsOf, NameOf, IsElf, Inode, FileType
  <1>6. CASE ReadReturn \/ EnterProgram
    BY <1>6, FreshTable DEF ReadReturn, EnterProgram, Reading
  <1>7. CASE ReturnToUser
    BY <1>1, <1>7 DEF ReturnToUser, Reading
  <1>8. CASE UNCHANGED vars
    BY <1>1, <1>8 DEF vars, Reading, OpenFdsOf
  <1>9. CASE \E n \in Names : Open(n) \/ OpenRefused(n) \/ Execute(n) \/ ExecuteRefused(n)
    BY <1>2, <1>4, <1>9 DEF Open, OpenRefused, ExecuteRefused
  <1>10. CASE \E d \in Fds : Close(d) \/ ReadDirEntry(d) \/ ReadDirEnd(d)
    BY <1>2, <1>10 DEF Close, ReadDirEntry, ReadDirEnd
  <1>11. CASE \E d \in Fds, n \in Counts :
                 ReadFile(d, n) \/ ReadFileEnd(d, n) \/ ReadFileRefused(d, n)
    BY <1>2, <1>3, <1>11 DEF ReadFileEnd, ReadFileRefused
  <1>12. CASE Halt
    BY <1>2, <1>12 DEF Halt
  <1> QED
    BY <1>5, <1>6, <1>7, <1>8, <1>9, <1>10, <1>11, <1>12 DEF Next

(***************************************************************************)
(* The tables that OpenFiles speaks of.                                    *)
(***************************************************************************)
Seen(fd) == [name |-> NameOf(fd.entry), pos |-> Position(fd)]
Table(t) == [d \in {c \in Fds : t[c].exists} |-> Seen(t[d])]
Tables == [p \in Pids |-> OpenIn(p)]

LEMMA TablesAre ==
    /\ Tables = [p \in Pids |-> Table(fdt[p])]
    /\ Tables' = [p \in Pids |-> Table(fdt'[p])]
  <1>1. \A p \in Pids : OpenIn(p) = Table(fdt[p])
    BY DEF OpenIn, OpenFdsOf, Table, Seen
  <1>2. \A p \in Pids : OpenIn(p)' = Table(fdt'[p])
    BY DEF OpenIn, OpenFdsOf, Table, Seen, NameOf, Position, FileType, Inode
  <1> QED
    BY <1>1, <1>2 DEF Tables

LEMMA TablesSame ==
    ASSUME UNCHANGED fdt
    PROVE  Tables' = Tables
  BY TablesAre

LEMMA EmptyTableOf ==
    ASSUME NEW t, \A d \in Fds : ~t[d].exists
    PROVE  Table(t) = Promise!None
  BY DEF Table, Promise!None

\* One process's table changes.
LEMMA TableOf ==
    ASSUME TypeOK, NEW t, fdt' = [fdt EXCEPT ![pid_counter] = t]
    PROVE  /\ fdt'[pid_counter] = t
           /\ Tables' = [Tables EXCEPT ![pid_counter] = Table(t)]
  BY TablesAre DEF TypeOK

\* The table of a process that has no descriptors gets none.
LEMMA FreshTableOf ==
    ASSUME IInv, NEW p \in Pids, ~in_use[p], fdt' = [fdt EXCEPT ![p] = init_pcb]
    PROVE  Tables' = Tables
  <1>1. Table(fdt[p]) = Promise!None /\ Table(init_pcb) = Promise!None
    BY EmptyTableOf, FreshTable DEF IInv, DescriptorsKept
  <1> QED
    BY <1>1, TablesAre DEF IInv, TypeOK

LEMMA RunningTable ==
    ASSUME TypeOK
    PROVE  /\ pid_counter \in Pids /\ Running \in [Fds -> FdStates]
           /\ DOMAIN Tables = Pids
           /\ Tables[pid_counter] = Table(Running)
           /\ DOMAIN Tables[pid_counter] = {d \in Fds : Running[d].exists}
           /\ \A d \in Fds : Running[d].exists => Tables[pid_counter][d] = Seen(Running[d])
  BY TablesAre DEF TypeOK, Table, Running

\* An open descriptor, as the program sees it.
LEMMA OpenDescriptor ==
    ASSUME IInv, NEW d \in Fds, Running[d].exists
    PROVE  /\ d \in DOMAIN Tables[pid_counter]
           /\ Running[d].entry \in Entries
           /\ Tables[pid_counter][d] = Seen(Running[d])
           /\ Position(Running[d]) \in 0 .. Inode(Running[d].entry).length
           /\ Inode(Running[d].entry).length \in Nat
  <1>1. TypeOK /\ Running[d] \in FdStates /\ DescriptorKept(Running[d])
    BY DEF IInv, TypeOK, DescriptorsKept, Running
  <1>2. Running[d].entry \in Entries
    BY <1>1 DEF DescriptorKept
  <1>4. Inode(Running[d].entry).length \in Nat
    BY <1>2, DiskFacts
  <1>5. Position(Running[d]) \in 0 .. Inode(Running[d].entry).length
    <2>1. Running[d].file_bytes_read \in {Wrapped, 0} \cup 1 .. Inode(Running[d].entry).length
      BY <1>1 DEF DescriptorKept
    <2> QED
      BY <1>4, <2>1 DEF Position
  <1> QED
    BY <1>1, <1>2, <1>4, <1>5, RunningTable

\* A descriptor of the running process is open afterwards.
LEMMA DescriptorMoved ==
    ASSUME TypeOK, NEW d \in Fds, NEW fd, fd.exists,
           fdt' = [fdt EXCEPT ![pid_counter][d] = fd]
    PROVE  Tables' = [Tables EXCEPT ![pid_counter] =
                         [c \in DOMAIN Tables[pid_counter] \cup {d} |->
                             IF c = d THEN Seen(fd) ELSE Tables[pid_counter][c]]]
  <1> DEFINE t == [Running EXCEPT ![d] = fd]
  <1>1. Tables' = [Tables EXCEPT ![pid_counter] = Table(t)]
    <2>1. fdt' = [fdt EXCEPT ![pid_counter] = t]
      BY DEF Running
    <2> QED
      BY <2>1, TableOf
  <1>2. t[d] = fd /\ \A c \in Fds \ {d} : t[c] = Running[c]
    BY RunningTable
  <1> HIDE DEF t
  <1>3. {c \in Fds : t[c].exists} = DOMAIN Tables[pid_counter] \cup {d}
    BY <1>2, RunningTable
  <1>4. \A c \in DOMAIN Tables[pid_counter] \cup {d} :
            Seen(t[c]) = IF c = d THEN Seen(fd) ELSE Tables[pid_counter][c]
    BY <1>2, RunningTable
  <1> QED
    BY <1>1, <1>3, <1>4 DEF Table

(***************************************************************************)
(* Every step of Files is a step of OpenFiles or none.                     *)
(***************************************************************************)
LEMMA ExecutingIs ==
    /\ ~data.active => Executing = pid_counter
    /\ ~data'.active => Executing' = pid_counter'
  BY DEF Executing

LEMMA OpenMaps ==
    ASSUME OrderlyDisk, ReadInv, NEW n \in Names, Open(n)
    PROVE  Promise!OpenNext
  <1>0. IInv /\ TypeOK
    BY DEF ReadInv, IInv
  <1>1. PICK d \in Lowest(FreeFds), e \in Lookup(n) :
            /\ fdt' = [fdt EXCEPT ![pid_counter][d] = Opened(fdt[pid_counter][d], e)]
            /\ answer' = [NoAnswer EXCEPT !.call = "open", !.name = n, !.ret = d]
    BY DEF Open, Reply
  <1>2. d \in Fds /\ ~Running[d].exists /\ e \in Entries /\ NameOf(e) = n
    BY FoundIsNamed DEF Lowest, FreeFds, IsOpen
  <1>3. /\ Opened(Running[d], e).exists
        /\ Seen(Opened(Running[d], e)) = [name |-> n, pos |-> 0]
    <2>1. Running[d] \in FdStates /\ Running[d].file_bytes_read = 0
      BY <1>0, <1>2, RunningTable DEF IInv, DescriptorsKept, DescriptorKept, Running
    <2>2. /\ Opened(Running[d], e).exists /\ Opened(Running[d], e).entry = e
          /\ Opened(Running[d], e).file_bytes_read = 0
      BY <2>1 DEF Opened, FdStates
    <2> QED
      BY <1>2, <2>2 DEF Seen, Position, Wrapped
  <1>4. Tables' = [Tables EXCEPT ![pid_counter] =
                      [c \in DOMAIN Tables[pid_counter] \cup {d} |->
                          IF c = d THEN [name |-> n, pos |-> 0]
                          ELSE Tables[pid_counter][c]]]
    <2> DEFINE fd == Opened(Running[d], e)
    <2>1. fdt' = [fdt EXCEPT ![pid_counter][d] = fd]
      BY <1>1 DEF Running
    <2>2. fd.exists /\ Seen(fd) = [name |-> n, pos |-> 0]
      BY <1>3
    <2> HIDE DEF fd
    <2>3. Tables' = [Tables EXCEPT ![pid_counter] =
                        [c \in DOMAIN Tables[pid_counter] \cup {d} |->
                            IF c = d THEN Seen(fd) ELSE Tables[pid_counter][c]]]
      BY <1>0, <1>2, <2>1, <2>2, DescriptorMoved
    <2> QED
      BY <2>2, <2>3
  <1>5. d \notin DOMAIN Tables[pid_counter]
    BY <1>0, <1>2, RunningTable
  <1>6. Executing = pid_counter /\ Executing' = pid_counter
    BY ExecutingIs DEF Open, Idle
  <1>7. n \in FileNames
    BY <1>2 DEF FileNames
  <1>8. Promise!Open(n, d)
    BY <1>1, <1>4, <1>5, <1>6, <1>7
       DEF Promise!Open, Promise!Becomes, Promise!Mine, Promise!NoAnswer, NoAnswer, Tables
  <1> QED
    BY <1>2, <1>7, <1>8 DEF Promise!OpenNext

LEMMA OpenRefusedMaps ==
    ASSUME OrderlyDisk, ReadInv, NEW n \in Names, OpenRefused(n)
    PROVE  Promise!OpenNext
  <1>0. IInv /\ TypeOK
    BY DEF ReadInv, IInv
  <1>1. answer' = Failed("open", n) /\ Tables' = Tables /\ UNCHANGED <<pid_counter, data>>
    BY TablesSame DEF OpenRefused, Reply
  <1>2. Executing = pid_counter /\ Executing' = pid_counter
    BY ExecutingIs DEF OpenRefused, Idle
  <1>3. n \notin FileNames \/ DOMAIN Tables[pid_counter] = Fds
    <2>1. CASE Found[n] = {}
      BY <2>1, FoundIsNamed DEF FileNames
    <2>2. CASE FreeFds = {}
      BY <1>0, <2>2, RunningTable DEF FreeFds, IsOpen
    <2> QED
      BY <2>1, <2>2 DEF OpenRefused
  <1>4. answer'.name = n
    BY <1>1 DEF Failed, NoAnswer
  <1>5. Promise!OpenFails(n)
    BY <1>1, <1>2, <1>3
       DEF Promise!OpenFails, Promise!Failed, Promise!NoAnswer, Promise!Mine, Failed, NoAnswer,
           Tables
  <1> QED
    BY <1>4, <1>5 DEF Promise!OpenNext

LEMMA CloseMaps ==
    ASSUME ReadInv, NEW d \in Fds, Close(d)
    PROVE  Promise!OpenNext
  <1>0. IInv /\ TypeOK
    BY DEF ReadInv, IInv
  <1> DEFINE t == [Running EXCEPT ![d] = Closed(Running[d])]
  <1>1. Running[d].exists /\ answer' = NoAnswer /\ fdt' = [fdt EXCEPT ![pid_counter] = t]
    BY DEF Close, IsOpen, Reply, Running
  <1>2. Tables' = [Tables EXCEPT ![pid_counter] = Table(t)]
    BY <1>0, <1>1, TableOf
  <1>3. ~t[d].exists /\ \A c \in Fds \ {d} : t[c] = Running[c]
    <2>1. pid_counter \in Pids /\ ~Closed(Running[d]).exists
      BY <1>0, ClosedDescriptor DEF TypeOK, Running
    <2> QED
      BY <1>0, <2>1, RunningTable
  <1> HIDE DEF t
  <1>4. Table(t) = [c \in DOMAIN Tables[pid_counter] \ {d} |-> Tables[pid_counter][c]]
    BY <1>0, <1>3, RunningTable DEF Table
  <1>5. Executing = pid_counter /\ Executing' = pid_counter
    BY ExecutingIs DEF Close, Idle
  <1>6. d \in DOMAIN Tables[pid_counter]
    BY <1>0, <1>1, RunningTable
  <1>7. Promise!Close(d)
    BY <1>1, <1>2, <1>4, <1>5, <1>6
       DEF Promise!Close, Promise!Becomes, Promise!Mine, Promise!NoAnswer, NoAnswer, Tables,
           Promise!Restrict
  <1> QED
    BY <1>7 DEF Promise!OpenNext

LEMMA Forgotten ==
    ASSUME UNCHANGED <<fdt, pid_counter, data>>, answer' = NoAnswer
    PROVE  Promise!OpenNext
  <1>1. Tables' = Tables /\ Executing' = Executing
    BY TablesSame DEF Executing
  <1>2. Promise!Forget
    BY <1>1 DEF Promise!Forget, Promise!NoAnswer, NoAnswer, Tables
  <1> QED
    BY <1>2 DEF Promise!OpenNext

LEMMA DirectoryMaps ==
    ASSUME NEW d \in Fds, ReadDirEntry(d) \/ ReadDirEnd(d)
    PROVE  Promise!OpenNext
  BY Forgotten DEF ReadDirEntry, ReadDirEnd, Reply

\* A part of a file's contents, byte by byte.
LEMMA PartOfContent ==
    ASSUME NEW e \in Entries, NEW pos \in Nat, NEW n \in Nat, pos + n <= Inode(e).length
    PROVE  SubSeq(Content(e), pos + 1, pos + n) = [k \in 1 .. n |-> ByteAt(e, pos + k - 1)]
  <1> DEFINE S == {ByteAt(e, k - 1) : k \in 1 .. Inode(e).length}
             s == Content(e)
  <1>1. Inode(e).length \in Nat
    BY DiskFacts
  <1>2. /\ s \in Seq(S) /\ Len(s) = Inode(e).length
        /\ \A k \in 1 .. Inode(e).length : s[k] = ByteAt(e, k - 1)
    <2>1. s = [k \in 1 .. Inode(e).length |-> ByteAt(e, k - 1)]
      BY DEF Content
    <2>2. \A k \in 1 .. Inode(e).length : ByteAt(e, k - 1) \in S
      OBVIOUS
    <2> HIDE DEF S, s
    <2>3. s \in [1 .. Inode(e).length -> S]
      BY <2>1, <2>2
    <2>4. s \in Seq(S)
      BY <1>1, <2>3
    <2>5. Len(s) = Inode(e).length
      BY <1>1, <2>3, <2>4
    <2>6. \A k \in 1 .. Inode(e).length : s[k] = ByteAt(e, k - 1)
      BY <2>1
    <2> QED
      BY <2>4, <2>5, <2>6
  <1> HIDE DEF S, s
  <1>3. SubSeq(s, pos + 1, pos + n) = [k \in 1 .. n |-> s[pos + k]]
    BY <1>1, <1>2
  <1>4. \A k \in 1 .. n : s[pos + k] = ByteAt(e, pos + k - 1)
    BY <1>1, <1>2
  <1>5. [k \in 1 .. n |-> s[pos + k]] = [k \in 1 .. n |-> ByteAt(e, pos + k - 1)]
    BY <1>4
  <1> QED
    BY <1>3, <1>5 DEF s

\* A read that delivers as many bytes as were asked for, or all that is left.
LEMMA ReadIsPromised ==
    ASSUME OrderlyDisk, IInv, NEW d \in Fds, Running[d].exists,
           FileType(Running[d].entry) = RegularFile,
           NEW asked \in Counts, asked >= 0, NEW n,
           n = IF asked < Inode(Running[d].entry).length - Position(Running[d])
               THEN asked ELSE Inode(Running[d].entry).length - Position(Running[d]),
           answer' = [call |-> "read", name |-> Nothing, asked |-> asked, ret |-> n,
                      bytes |-> [k \in 1 .. n |->
                          ByteAt(Running[d].entry, Position(Running[d]) + k - 1)]],
           Tables' = [Tables EXCEPT ![pid_counter] =
                         [Tables[pid_counter] EXCEPT ![d] =
                             [Tables[pid_counter][d] EXCEPT !.pos =
                                 Position(Running[d]) + n]]],
           Executing = pid_counter, Executing' = pid_counter
    PROVE  Promise!OpenNext
  <1> DEFINE e == Running[d].entry
             pos == Position(Running[d])
             len == Inode(e).length
  <1>1. /\ d \in DOMAIN Tables[pid_counter] /\ e \in Entries
        /\ Tables[pid_counter][d] = [name |-> NameOf(e), pos |-> pos]
        /\ pos \in 0 .. len /\ len \in Nat
    BY OpenDescriptor DEF Seen
  <1>2. /\ NameOf(e) \in DOMAIN FileContents /\ FileContents[NameOf(e)] = Content(e)
        /\ Len(Content(e)) = len
    BY <1>1, ContentsOf
  <1>3. n \in Nat /\ pos \in Nat /\ pos + n <= len
    BY <1>1, FilesAssumption
  <1>4. SubSeq(Content(e), pos + 1, pos + n) = [k \in 1 .. n |-> ByteAt(e, pos + k - 1)]
    BY <1>1, <1>3, PartOfContent
  <1>5. Promise!Mine = Tables[pid_counter]
    BY DEF Promise!Mine, Tables
  <1>6. Promise!Left(d) = len - pos /\ Promise!IsFile(d)
    BY <1>1, <1>2, <1>5 DEF Promise!Left, Promise!IsFile
  <1>7. (IF asked < Promise!Left(d) THEN asked ELSE Promise!Left(d)) = n
    BY <1>6
  <1>8. Promise!Read(d, asked)
    <2>1. Promise!Mine[d].name = NameOf(e) /\ Promise!Mine[d].pos = pos
      BY <1>1, <1>5
    <2>2. answer' = [call |-> "read", name |-> Nothing, asked |-> asked, ret |-> n,
                     bytes |-> SubSeq(FileContents[Promise!Mine[d].name], pos + 1, pos + n)]
      BY <1>2, <1>4, <2>1
    <2>3. Promise!Becomes([Promise!Mine EXCEPT ![d].pos = pos + n])
      BY <1>5 DEF Promise!Becomes, Tables
    <2> HIDE DEF e, pos, len
    <2> QED
      BY <1>1, <1>5, <1>6, <1>7, <2>1, <2>2, <2>3 DEF Promise!Read
  <1> QED
    BY <1>8 DEF Promise!OpenNext

\* The position of one descriptor moves.
LEMMA PositionMoved ==
    ASSUME IInv, NEW d \in Fds, Running[d].exists, NEW x,
           fdt' = [fdt EXCEPT ![pid_counter][d].file_bytes_read = x]
    PROVE  LET fd == [Running[d] EXCEPT !.file_bytes_read = x]
           IN  Tables' = [Tables EXCEPT ![pid_counter] =
                             [Tables[pid_counter] EXCEPT ![d] =
                                 [Tables[pid_counter][d] EXCEPT !.pos = Position(fd)]]]
  <1> DEFINE fd == [Running[d] EXCEPT !.file_bytes_read = x]
  <1>0. TypeOK /\ Running[d] \in FdStates
    BY RunningTable DEF IInv
  <1>1. fd.exists /\ fd.entry = Running[d].entry
    BY <1>0 DEF FdStates
  <1>2. fdt' = [fdt EXCEPT ![pid_counter][d] = fd]
    BY DEF Running
  <1>3. /\ d \in DOMAIN Tables[pid_counter]
        /\ Tables[pid_counter][d] = Seen(Running[d])
    BY OpenDescriptor
  <1>4. Seen(fd) = [Tables[pid_counter][d] EXCEPT !.pos = Position(fd)]
    BY <1>1, <1>3 DEF Seen
  <1> HIDE DEF fd
  <1>5. Tables' = [Tables EXCEPT ![pid_counter] =
                      [c \in DOMAIN Tables[pid_counter] \cup {d} |->
                          IF c = d THEN Seen(fd) ELSE Tables[pid_counter][c]]]
    <2>1. /\ TypeOK /\ d \in Fds /\ fd.exists
          /\ fdt' = [fdt EXCEPT ![pid_counter][d] = fd]
      BY <1>0, <1>1, <1>2
    <2> QED
      BY ONLY <2>1, DescriptorMoved
  <1>6. [c \in DOMAIN Tables[pid_counter] \cup {d} |->
            IF c = d THEN Seen(fd) ELSE Tables[pid_counter][c]]
        = [Tables[pid_counter] EXCEPT ![d] = Seen(fd)]
    <2>1. Tables[pid_counter] = [c \in DOMAIN Tables[pid_counter] |-> Tables[pid_counter][c]]
      BY <1>0, RunningTable DEF Table
    <2> QED
      BY <1>3, <2>1
  <1> QED
    BY <1>4, <1>5, <1>6 DEF fd

LEMMA ReadFileEndMaps ==
    ASSUME OrderlyDisk, ReadInv, NEW d \in Fds, NEW n \in Counts, ReadFileEnd(d, n)
    PROVE  Promise!OpenNext
  <1> DEFINE pos == Position(Running[d])
             len == Inode(Running[d].entry).length
  <1>0. IInv /\ TypeOK
    BY DEF ReadInv, IInv
  <1>1. /\ Running[d].exists /\ FileType(Running[d].entry) = RegularFile /\ n >= 0
        /\ Running[d].file_bytes_read = len
        /\ answer' = [NoAnswer EXCEPT !.call = "read", !.asked = n] /\ UNCHANGED fdt
    BY DEF ReadFileEnd, IsRegular, IsOpen, AtEnd, Reply
  <1>2. Executing = pid_counter /\ Executing' = pid_counter
    BY ExecutingIs DEF ReadFileEnd, Idle
  <1>3. /\ d \in DOMAIN Tables[pid_counter] /\ len \in Nat
        /\ Tables[pid_counter][d] = Seen(Running[d]) /\ pos = len
    BY <1>0, <1>1, OpenDescriptor DEF Position
  <1>4. 0 = IF n < len - pos THEN n ELSE len - pos
    BY <1>1, <1>3, FilesAssumption
  <1>5. [k \in 1 .. 0 |-> ByteAt(Running[d].entry, pos + k - 1)] = <<>>
    OBVIOUS
  <1>6. answer' = [call |-> "read", name |-> Nothing, asked |-> n, ret |-> 0,
                   bytes |-> [k \in 1 .. 0 |-> ByteAt(Running[d].entry, pos + k - 1)]]
    BY <1>1, <1>5 DEF NoAnswer
  <1>7. Tables' = [Tables EXCEPT ![pid_counter] =
                      [Tables[pid_counter] EXCEPT ![d] =
                          [Tables[pid_counter][d] EXCEPT !.pos = pos + 0]]]
    <2>1. pos + 0 = Tables[pid_counter][d].pos
      BY <1>3 DEF Seen
    <2>2. /\ pid_counter \in DOMAIN Tables
          /\ Tables = [p \in DOMAIN Tables |-> Tables[p]]
          /\ Tables[pid_counter] = [c \in DOMAIN Tables[pid_counter] |-> Tables[pid_counter][c]]
      BY <1>0, RunningTable DEF Tables, Table
    <2>3. [Tables[pid_counter][d] EXCEPT !.pos = pos + 0] = Tables[pid_counter][d]
      BY <1>3, <2>1 DEF Seen
    <2>4. Tables' = Tables
      BY <1>1, TablesSame
    <2> HIDE DEF pos
    <2>5. [Tables[pid_counter] EXCEPT ![d] = [Tables[pid_counter][d] EXCEPT !.pos = pos + 0]]
          = Tables[pid_counter]
      BY <1>3, <2>2, <2>3
    <2> QED
      BY <2>2, <2>4, <2>5
  <1>8. /\ OrderlyDisk /\ IInv /\ d \in Fds /\ Running[d].exists
        /\ FileType(Running[d].entry) = RegularFile /\ n \in Counts /\ n >= 0
        /\ Executing = pid_counter /\ Executing' = pid_counter
        /\ 0 = IF n < Inode(Running[d].entry).length - Position(Running[d])
               THEN n ELSE Inode(Running[d].entry).length - Position(Running[d])
    BY <1>0, <1>1, <1>2, <1>4
  <1>9. /\ answer' = [call |-> "read", name |-> Nothing, asked |-> n, ret |-> 0,
                      bytes |-> [k \in 1 .. 0 |->
                          ByteAt(Running[d].entry, Position(Running[d]) + k - 1)]]
        /\ Tables' = [Tables EXCEPT ![pid_counter] =
                         [Tables[pid_counter] EXCEPT ![d] =
                             [Tables[pid_counter][d] EXCEPT !.pos = Position(Running[d]) + 0]]]
    BY <1>6, <1>7
  <1> QED
    BY ONLY <1>8, <1>9, ReadIsPromised

\* A refused count moves the position by one, or leaves it at the end of the file.
LEMMA ReadFileRefusedMaps ==
    ASSUME OrderlyDisk, ReadInv, NEW d \in Fds, NEW n \in Counts, ReadFileRefused(d, n)
    PROVE  Promise!OpenNext
  <1> DEFINE e == Running[d].entry
             old == Running[d].file_bytes_read
             fd == [Running[d] EXCEPT !.file_bytes_read = Rewound(old)]
  <1>0. IInv /\ TypeOK
    BY DEF ReadInv, IInv
  <1>1. /\ Running[d].exists /\ FileType(e) = RegularFile
        /\ fdt' = [fdt EXCEPT ![pid_counter][d].file_bytes_read = Rewound(old)]
        /\ answer' = Failed("read", Nothing)
    BY DEF ReadFileRefused, IsRegular, IsOpen, Reply, Running
  <1>2. Executing = pid_counter /\ Executing' = pid_counter
    BY ExecutingIs DEF ReadFileRefused, Idle
  <1>3. Tables' = [Tables EXCEPT ![pid_counter] =
                      [Tables[pid_counter] EXCEPT ![d] =
                          [Tables[pid_counter][d] EXCEPT !.pos = Position(fd)]]]
    BY <1>0, <1>1, PositionMoved
  <1>4. /\ d \in DOMAIN Tables[pid_counter] /\ e \in Entries
        /\ Tables[pid_counter][d] = Seen(Running[d]) /\ Inode(e).length \in Nat
    BY <1>0, <1>1, OpenDescriptor
  <1>5. Position(fd) \in 0 .. Inode(e).length
    <2>1. old \in {Wrapped, 0} \cup 1 .. Inode(e).length /\ Running[d] \in FdStates
      BY <1>0, RunningTable DEF IInv, DescriptorsKept, DescriptorKept, Running
    <2>2. fd.entry = e /\ fd.file_bytes_read = Rewound(old)
      BY <2>1 DEF FdStates
    <2>3. Rewound(old) \in {Wrapped} \cup 0 .. Inode(e).length
      BY <1>4, <2>1 DEF Rewound, Wrapped
    <2> QED
      BY <1>4, <2>2, <2>3 DEF Position
  <1>6. /\ NameOf(e) \in DOMAIN FileContents
        /\ Len(FileContents[NameOf(e)]) = Inode(e).length
    BY <1>1, <1>4, ContentsOf
  <1>7. Promise!Mine = Tables[pid_counter] /\ Promise!Mine[d].name = NameOf(e)
    BY <1>2, <1>4 DEF Promise!Mine, Tables, Seen
  <1> HIDE DEF fd
  <1>8. Promise!Becomes([Promise!Mine EXCEPT ![d].pos = Position(fd)])
    BY <1>2, <1>3, <1>7 DEF Promise!Becomes, Tables
  <1>9. Promise!ReadFails(d)
    <2>1. Promise!IsFile(d) /\ d \in DOMAIN Promise!Mine
      BY <1>4, <1>6, <1>7 DEF Promise!IsFile
    <2>2. Position(fd) \in 0 .. Len(FileContents[Promise!Mine[d].name])
      BY <1>5, <1>6, <1>7
    <2>3. answer' = Promise!Failed("read", Nothing) /\ Executing' = Executing
      BY <1>1, <1>2 DEF Promise!Failed, Promise!NoAnswer, Failed, NoAnswer
    <2> QED
      BY <1>8, <2>1, <2>2, <2>3 DEF Promise!ReadFails
  <1> QED
    BY <1>9 DEF Promise!OpenNext

LEMMA ReadReturnMaps ==
    ASSUME OrderlyDisk, ReadInv, ReadReturn
    PROVE  Promise!OpenNext
  <1> DEFINE d == data.fd
             e == Running[d].entry
             old == Running[d].file_bytes_read
             pos == Position(Running[d])
             len == Inode(e).length
             n == data.length_read
             x == Advanced(old, n)
             fd == [Running[d] EXCEPT !.file_bytes_read = x]
  <1>0. IInv /\ TypeOK /\ Reading /\ Turning /\ ReadsInOrder
    BY DEF ReadInv, IInv
  <1>1. /\ data.active /\ ~More(data) /\ d # Loader
        /\ fdt' = [fdt EXCEPT ![pid_counter][d].file_bytes_read = x]
        /\ answer' = [call |-> "read", name |-> Nothing, asked |-> data.nbytes,
                      ret |-> n, bytes |-> data.buf]
        /\ data' = NotReading /\ UNCHANGED pid_counter
    BY DEF ReadReturn, Reply, Running
  <1>2. /\ d \in Fds /\ data.nbytes \in Counts /\ data.nbytes \in Nat
        /\ Running[d].exists /\ e = data.entry /\ FileType(e) = RegularFile
        /\ n <= data.nbytes
    BY <1>0, <1>1 DEF Reading, Turning
  <1>3. n \in Nat /\ Running[d] \in FdStates
    BY <1>0, <1>2, RunningTable DEF TypeOK, DataStates
  <1>4. /\ d \in DOMAIN Tables[pid_counter] /\ e \in Entries /\ len \in Nat
        /\ Tables[pid_counter][d] = Seen(Running[d]) /\ pos \in 0 .. len
    BY <1>0, <1>2, OpenDescriptor
  <1>5. Executing = pid_counter /\ Executing' = pid_counter
    BY <1>1, FreshTable DEF Executing
  <1>6. Tables' = [Tables EXCEPT ![pid_counter] =
                      [Tables[pid_counter] EXCEPT ![d] =
                          [Tables[pid_counter][d] EXCEPT !.pos = Position(fd)]]]
    BY <1>0, <1>1, <1>2, PositionMoved
  <1>7. First = old
    BY <1>1 DEF First
  <1>8. old \in {Wrapped, 0} \cup 1 .. len
    BY <1>0, <1>2, RunningTable DEF IInv, DescriptorsKept, DescriptorKept, Running
  <1>9. fd.entry = e /\ fd.file_bytes_read = x
    BY <1>3 DEF FdStates
  <1>10. /\ n = IF data.nbytes < len - pos THEN data.nbytes ELSE len - pos
         /\ data.buf = [k \in 1 .. n |-> ByteAt(e, pos + k - 1)]
         /\ Position(fd) = pos + n
    <2>1. CASE old = Wrapped
      <3>1. n = 0 /\ data.buf = <<>>
        BY <1>0, <1>1, <1>7, <2>1 DEF ReadsInOrder
      <3>2. pos = len /\ Position(fd) = len
        BY <1>2, <1>9, <2>1 DEF Position, Advanced
      <3>3. [k \in 1 .. 0 |-> ByteAt(e, pos + k - 1)] = <<>>
        OBVIOUS
      <3> HIDE DEF n, pos, len, fd, e
      <3> QED
        BY <1>2, <1>4, <3>1, <3>2, <3>3
    <2>2. CASE old # Wrapped
      <3>1. pos = old
        BY <1>2, <2>2 DEF Position
      <3>2. /\ data.buf = [k \in 1 .. n |-> ByteAt(e, old + k - 1)]
            /\ old + n <= len
            /\ n = data.nbytes \/ old + n = len
        BY <1>0, <1>1, <1>2, <1>7, <2>2 DEF ReadsInOrder
      <3>3. old + n # Wrapped /\ x = old + n
        BY <1>3, <1>8, <2>2 DEF Wrapped, Advanced
      <3>4. Position(fd) = old + n
        BY <1>2, <1>9, <3>3 DEF Position
      <3> HIDE DEF n, pos, len, fd, e, old
      <3>5. n = IF data.nbytes < len - pos THEN data.nbytes ELSE len - pos
        BY <1>2, <1>3, <1>4, <3>1, <3>2
      <3> QED
        BY <3>1, <3>2, <3>4, <3>5
    <2> QED
      BY <2>1, <2>2
  <1> HIDE DEF fd
  <1>11. Tables' = [Tables EXCEPT ![pid_counter] =
                      [Tables[pid_counter] EXCEPT ![d] =
                          [Tables[pid_counter][d] EXCEPT !.pos = pos + n]]]
    BY <1>6, <1>10
  <1> HIDE DEF n
  <1>12. answer' = [call |-> "read", name |-> Nothing, asked |-> data.nbytes, ret |-> n,
                    bytes |-> [k \in 1 .. n |-> ByteAt(e, pos + k - 1)]]
    BY <1>1, <1>10
  <1>13. data.nbytes >= 0
    BY <1>2
  <1> QED
    BY <1>0, <1>2, <1>5, <1>10, <1>11, <1>12, <1>13, ReadIsPromised

LEMMA EnterProgramMaps ==
    ASSUME OrderlyDisk, ReadInv, EnterProgram
    PROVE  Promise!OpenNext
  <1> DEFINE e == data.entry
             len == Inode(e).length
  <1>0. IInv /\ TypeOK /\ Reading /\ Turning /\ ReadsInOrder
    BY DEF ReadInv, IInv
  <1>1. /\ data.active /\ ~More(data) /\ data.fd = Loader
        /\ answer' = [NoAnswer EXCEPT !.call = "execute", !.name = data.name,
                                     !.bytes = data.buf]
        /\ data' = NotReading /\ UNCHANGED <<fdt, pid_counter>>
    BY DEF EnterProgram, Reply
  <1>2. /\ pid_counter # Shell /\ OpenFdsOf(pid_counter) = {} /\ pid_counter \in Pids
        /\ data.nbytes = MAX_LOAD /\ data.name = NameOf(e) /\ IsElf(e) /\ e \in Entries
    BY <1>0, <1>1 DEF Reading, Turning, TypeOK
  <1>3. FileType(e) = RegularFile /\ FileContents[NameOf(e)] = Content(e)
    BY <1>2, ContentsOf DEF OrderlyDisk
  <1>4. data.buf = Content(e)
    <2>1. /\ First = 0 /\ First # Wrapped /\ data.length_read \in Nat
          /\ len \in Nat /\ len <= MAX_LOAD
      BY <1>0, <1>1, <1>2, DiskFacts DEF First, Wrapped, TypeOK, DataStates
    <2>2. /\ data.buf = [k \in 1 .. data.length_read |-> ByteAt(e, First + k - 1)]
          /\ First + data.length_read <= len
          /\ data.length_read = MAX_LOAD \/ First + data.length_read = len
      BY <1>0, <1>1, <1>2, <2>1 DEF ReadsInOrder
    <2>3. data.length_read = len
      BY <2>1, <2>2, FilesAssumption
    <2>4. \A k \in 1 .. len : First + k - 1 = k - 1
      BY <2>1
    <2> QED
      BY <2>2, <2>3, <2>4 DEF Content
  <1>5. Executing = Shell /\ Executing' = pid_counter
    BY <1>1, FreshTable DEF Executing
  <1>6. Tables' = [Tables EXCEPT ![pid_counter] = Promise!None]
    <2>1. \A d \in Fds : ~Running[d].exists
      BY <1>2 DEF OpenFdsOf, Running
    <2>2. Tables[pid_counter] = Promise!None
      BY <1>0, <2>1, RunningTable, EmptyTableOf
    <2>3. Tables' = Tables /\ Tables = [p \in Pids |-> Tables[p]]
      BY <1>1, TablesSame DEF Tables
    <2> QED
      BY <1>2, <2>2, <2>3
  <1>7. NameOf(e) \in ProgramNames
    BY <1>2 DEF ProgramNames
  <1>8. Promise!Start(NameOf(e), pid_counter)
    BY <1>1, <1>2, <1>3, <1>4, <1>5, <1>6
       DEF Promise!Start, Promise!NoAnswer, NoAnswer, Tables
  <1> QED
    BY <1>2, <1>7, <1>8 DEF Promise!OpenNext

LEMMA ExecuteRefusedMaps ==
    ASSUME OrderlyDisk, ReadInv, NEW n \in Names, ExecuteRefused(n)
    PROVE  Promise!OpenNext
  <1>0. IInv
    BY DEF ReadInv
  <1>1. PICK p \in Lowest(FreePcbs) : fdt' = [fdt EXCEPT ![p] = init_pcb]
    BY DEF ExecuteRefused, NewTable
  <1>2. Tables' = Tables
    BY <1>0, <1>1, FreshTableOf DEF Lowest, FreePcbs
  <1>3. answer' = Failed("execute", n) /\ Executing' = Executing
    BY ExecutingIs DEF ExecuteRefused, Reply, Idle
  <1>4. n \notin ProgramNames
    <2> SUFFICES ASSUME NEW e \in Entries, IsElf(e), NameOf(e) = n
                 PROVE  FALSE
      BY DEF ProgramNames
    <2>1. Lookup(n) = {e}
      BY FoundIsNamed
    <2> QED
      BY <2>1 DEF ExecuteRefused, Runnable, OrderlyDisk
  <1>5. answer'.name = n
    BY <1>3 DEF Failed, NoAnswer
  <1>6. Promise!StartFails(n)
    BY <1>2, <1>3, <1>4
       DEF Promise!StartFails, Promise!Failed, Promise!NoAnswer, Failed, NoAnswer, Tables
  <1> QED
    BY <1>5, <1>6 DEF Promise!OpenNext

LEMMA HaltMaps ==
    ASSUME ReadInv, Halt
    PROVE  Promise!OpenNext
  <1> DEFINE t == [d \in Fds |-> Closed(Running[d])]
  <1>0. IInv /\ TypeOK
    BY DEF ReadInv, IInv
  <1>1. /\ pid_counter # Shell /\ pid_counter' = Shell /\ answer' = NoAnswer
        /\ fdt' = [fdt EXCEPT ![pid_counter] = t] /\ ~data.active /\ UNCHANGED data
    BY DEF Halt, Idle, Reply, Running
  <1>2. Tables' = [Tables EXCEPT ![pid_counter] = Promise!None]
    <2>1. \A d \in Fds : ~t[d].exists
      BY <1>0, ClosedDescriptor DEF TypeOK, Running
    <2> HIDE DEF t
    <2> QED
      BY <1>0, <1>1, <2>1, TableOf, EmptyTableOf
  <1>3. Executing = pid_counter /\ Executing' = Shell
    BY <1>1, ExecutingIs
  <1>4. Promise!End
    BY <1>1, <1>2, <1>3 DEF Promise!End, Promise!NoAnswer, NoAnswer, Tables
  <1> QED
    BY <1>4 DEF Promise!OpenNext

\* The caller still runs, as OpenFiles sees it, while the program is being loaded.
LEMMA ExecuteMaps ==
    ASSUME ReadInv, NEW n \in Names, Execute(n)
    PROVE  UNCHANGED <<Executing, Tables, answer>>
  <1>0. IInv
    BY DEF ReadInv
  <1>1. PICK p \in Lowest(FreePcbs) : fdt' = [fdt EXCEPT ![p] = init_pcb]
    BY DEF Execute, NewTable
  <1>2. Tables' = Tables
    BY <1>0, <1>1, FreshTableOf DEF Lowest, FreePcbs
  <1>3. PICK e \in Lookup(n) : ReadData(n, e, Loader, 0, MAX_LOAD)
    BY DEF Execute
  <1>4. Executing = Shell /\ Executing' = Shell
    BY <1>3, CallOf, ExecutingIs DEF Execute, Idle, Executing
  <1> QED
    BY <1>2, <1>4 DEF Execute

\* The blocks of a read are not seen one by one.
LEMMA ReadingMaps ==
    ASSUME ReadInv,
           ReadBlock \/ \E d \in Fds, n \in Counts : ReadFile(d, n)
    PROVE  UNCHANGED <<Executing, Tables, answer>>
  <1>1. CASE ReadBlock
    <2>1. data'.active = data.active /\ data'.fd = data.fd
      BY <1>1, TurnKeepsCall DEF ReadBlock, ReadInv, IInv, TypeOK
    <2> QED
      BY <1>1, <2>1, TablesSame DEF ReadBlock, Executing
  <1>2. ASSUME NEW d \in Fds, NEW n \in Counts, ReadFile(d, n)
        PROVE  UNCHANGED <<Executing, Tables, answer>>
    BY <1>2, CallOf, FdIsNotLoader, TablesSame DEF ReadFile, Idle, Executing
  <1> QED
    BY <1>1, <1>2

LEMMA OpenFilesStep ==
    ASSUME OrderlyDisk, ReadInv, [Next]_vars
    PROVE  [Promise!OpenNext]_(Promise!openVars)
  <1>1. ASSUME UNCHANGED <<Executing, Tables, answer>>
        PROVE  UNCHANGED Promise!openVars
    BY <1>1 DEF Promise!openVars, Tables
  <1>2. CASE \E n \in Names : Open(n) \/ OpenRefused(n) \/ ExecuteRefused(n)
    BY <1>2, OpenMaps, OpenRefusedMaps, ExecuteRefusedMaps
  <1>3. CASE \E n \in Names : Execute(n)
    BY <1>1, <1>3, ExecuteMaps
  <1>4. CASE \E d \in Fds : Close(d) \/ ReadDirEntry(d) \/ ReadDirEnd(d)
    BY <1>4, CloseMaps, DirectoryMaps
  <1>5. CASE \E d \in Fds, n \in Counts : ReadFileEnd(d, n) \/ ReadFileRefused(d, n)
    BY <1>5, ReadFileEndMaps, ReadFileRefusedMaps
  <1>6. CASE ReadBlock \/ \E d \in Fds, n \in Counts : ReadFile(d, n)
    BY <1>1, <1>6, ReadingMaps
  <1>7. CASE ReadReturn \/ EnterProgram \/ Halt
    BY <1>7, ReadReturnMaps, EnterProgramMaps, HaltMaps
  <1>8. CASE ReturnToUser
    BY <1>8, Forgotten DEF ReturnToUser, Reply
  <1>9. CASE UNCHANGED vars
    <2>1. UNCHANGED <<Executing, Tables, answer>>
      BY <1>9, TablesSame DEF vars, Executing
    <2> QED
      BY <1>1, <2>1
  <1> QED
    BY <1>2, <1>3, <1>4, <1>5, <1>6, <1>7, <1>8, <1>9 DEF Next

\* Whatever files an orderly disk holds, and however many processes and descriptors
\* there are: a program reads its files from the beginning, in order and to the end,
\* through descriptors of its own, execute runs whole programs, and open and execute
\* refuse only what they say they refuse.
THEOREM OpenFilesImplemented ==
    ASSUME OrderlyDisk
    PROVE  Spec => ImplementsOpenFiles
  <1>1. Init => ReadInv
    <2>1. Init => ~data.active
      BY DEF Init, NotReading
    <2> QED
      BY <2>1, Initially DEF ReadInv, Reading
  <1>2. Init => Promise!OpenInit
    <2> SUFFICES ASSUME Init PROVE Promise!OpenInit
      OBVIOUS
    <2>1. Executing = Shell
      BY ExecutingIs DEF Init, NotReading
    <2>2. Tables = [p \in Pids |-> Promise!None]
      <3>1. \A p \in Pids : Table(fdt[p]) = Promise!None
        BY EmptyTableOf DEF Init, ClosedFd
      <3> QED
        BY <3>1, TablesAre
    <2> QED
      BY <2>1, <2>2 DEF Init, Promise!OpenInit, Promise!NoAnswer, NoAnswer, Tables
  <1>3. ReadInv /\ [Next]_vars => ReadInv'
    BY ReadingStep
  <1>4. ReadInv /\ [Next]_vars => [Promise!OpenNext]_(Promise!openVars)
    BY OpenFilesStep
  <1> QED
    BY <1>1, <1>2, <1>3, <1>4, PTL DEF Spec, ImplementsOpenFiles, Promise!OpenSpec
=============================================================================
