----------------------------- MODULE OpenFiles -----------------------------
(***************************************************************************)
(* What open, read, close, execute and halt promise a program about its    *)
(* files.  Each process has descriptors of its own; a descriptor reads its *)
(* file from the beginning, every read continues where the last one ended, *)
(* a short read means the end of the file; open fails only for a name that *)
(* is not in the directory or for want of a descriptor; execute runs the   *)
(* whole program and nothing of its caller's descriptors changes until it  *)
(* returns.                                                                *)
(***************************************************************************)
EXTENDS Integers, Sequences, Functions

CONSTANTS
    Processes,    \* process identities
    Root,         \* that of the shell
    Descriptors,  \* descriptors a process can open
    Directory,    \* names of the file system
    Contents,     \* for each name of a regular file, its bytes
    Programs,     \* names of the files that execute can run
    Counts,       \* how many bytes a program may ask for
    Nothing       \* no name

VARIABLES
    running,      \* the process that executes
    open,         \* for each process, its open descriptors: name and position
    answer        \* of the last call: what was called with which name or count, the result

openVars == <<running, open, answer>>

None == [n \in {} |-> n]
NoAnswer == [call |-> "other", name |-> Nothing, asked |-> 0, ret |-> 0, bytes |-> <<>>]
Failed(call, n) == [NoAnswer EXCEPT !.call = call, !.name = n, !.ret = -1]

Mine == open[running]
IsFile(d) == Mine[d].name \in DOMAIN Contents
Left(d) == Len(Contents[Mine[d].name]) - Mine[d].pos
Becomes(table) == open' = [open EXCEPT ![running] = table]

OpenInit == running = Root /\ open = [p \in Processes |-> None] /\ answer = NoAnswer

Open(n, d) ==
    /\ answer' = [NoAnswer EXCEPT !.call = "open", !.name = n, !.ret = d]
    /\ n \in Directory /\ d \notin DOMAIN Mine
    /\ Becomes([e \in DOMAIN Mine \cup {d} |->
                    IF e = d THEN [name |-> n, pos |-> 0] ELSE Mine[e]])
    /\ UNCHANGED running

OpenFails(n) ==
    /\ answer' = Failed("open", n)
    /\ n \notin Directory \/ DOMAIN Mine = Descriptors
    /\ UNCHANGED <<running, open>>

Close(d) ==
    /\ answer' = NoAnswer
    /\ d \in DOMAIN Mine
    /\ Becomes(Restrict(Mine, DOMAIN Mine \ {d}))
    /\ UNCHANGED running

\* As many bytes as asked for, or all that is left.
Read(d, asked) ==
    /\ d \in DOMAIN Mine /\ IsFile(d)
    /\ LET n == IF asked < Left(d) THEN asked ELSE Left(d)
           pos == Mine[d].pos
       IN  /\ answer' = [call |-> "read", name |-> Nothing, asked |-> asked, ret |-> n,
                         bytes |-> SubSeq(Contents[Mine[d].name], pos + 1, pos + n)]
           /\ Becomes([Mine EXCEPT ![d].pos = pos + n])
    /\ UNCHANGED running

\* A negative count fails, and the position is not to be relied on afterwards.
ReadFails(d) ==
    /\ answer' = Failed("read", Nothing)
    /\ d \in DOMAIN Mine /\ IsFile(d)
    /\ \E pos \in 0 .. Len(Contents[Mine[d].name]) : Becomes([Mine EXCEPT ![d].pos = pos])
    /\ UNCHANGED running

Start(n, p) ==
    /\ answer' = [NoAnswer EXCEPT !.call = "execute", !.name = n, !.bytes = Contents[n]]
    /\ running = Root /\ p # Root
    /\ running' = p
    /\ open' = [open EXCEPT ![p] = None]

StartFails(n) ==
    /\ answer' = Failed("execute", n)
    /\ n \notin Programs
    /\ UNCHANGED <<running, open>>

End ==
    /\ answer' = NoAnswer
    /\ running # Root
    /\ running' = Root
    /\ open' = [open EXCEPT ![running] = None]

\* another call, of which nothing is said, or the program goes on
Forget == answer' = NoAnswer /\ UNCHANGED <<running, open>>

OpenNext ==
    \/ \E n \in Directory, d \in Descriptors : Open(n, d)
    \/ \E d \in Descriptors : Close(d) \/ ReadFails(d)
    \/ \E d \in Descriptors, asked \in Counts : asked >= 0 /\ Read(d, asked)
    \/ \E n \in Programs, p \in Processes : Start(n, p)
    \/ OpenFails(answer'.name) \/ StartFails(answer'.name)
    \/ End \/ Forget

OpenSpec == OpenInit /\ [][OpenNext]_openVars
=============================================================================
