------------------------------- MODULE Routines -------------------------------
(***************************************************************************)
(* The code that runs from a call to its return without anyone taking part *)
(* in it: the routines of the two libraries, grep's search of a file, and  *)
(* the page tables.  A behaviour is a behaviour of one of the three.       *)
(***************************************************************************)
EXTENDS Library, Grep, Paging

VARIABLE subject     \* which of the three runs

vars == <<libraryVars, grepVars, pagingVars, subject>>

\* The state of the two that do not run.
NoCall == [routine |-> "memset", dest |-> 0, src |-> 0, n |-> 0, c |-> 0]

LibraryRests ==
    /\ entry = [a \in Addr |-> NUL] /\ mem = entry
    /\ call = NoCall /\ r = Enter

GrepRests ==
    /\ s = <<"a">> /\ file = <<>> /\ place = 0 /\ stale = NULBYTE
    /\ data = [i \in 0 .. BUFSIZE |-> NULBYTE]
    /\ v = [last |-> 0, line_start |-> 0, line_end |-> 0, cnt |-> 0]
    /\ at = "open" /\ printed = <<>>

Init ==
    \/ subject = "library" /\ LibraryInit /\ GrepRests /\ PagingInit
    \/ subject = "grep" /\ GrepInit /\ LibraryRests /\ PagingInit
    \/ subject = "paging" /\ PagingInit /\ LibraryRests /\ GrepRests

Next ==
    /\ UNCHANGED subject
    /\ \/ subject = "library" /\ LibraryNext /\ UNCHANGED <<grepVars, pagingVars>>
       \/ subject = "grep" /\ GrepNext /\ UNCHANGED <<libraryVars, pagingVars>>
       \/ subject = "paging" /\ PagingNext /\ UNCHANGED <<libraryVars, grepVars>>

\* The code runs on.
Spec == Init /\ [][Next]_vars /\ WF_vars(Next)

-----------------------------------------------------------------------------
\* Neither a library call nor grep goes round in a circle: whichever runs, every step
\* leaves less of its loops, or of the file, to be done.
GetsOn ==
    [][/\ subject = "library" => CallNearer
       /\ subject = "grep" => GrepNearer]_vars

\* A routine returns, and grep comes to the end of every file, NULs or not: each read
\* makes room in the buffer for the next, each iteration leaves less to do.
Returned ==
    /\ subject = "library" => <>(r.pc = "done")
    /\ subject = "grep" => <>(at \in {"done", "failed"})
=============================================================================
