------------------------------ MODULE MoveProcs ------------------------------
(***************************************************************************)
(* moveProcs of src/red-wrap/cgroups.c byte by byte: the list of processes *)
(* is read through a small buffer, and what is read of a line that the     *)
(* buffer cuts has to be kept for the next round.  Module Cgroups takes    *)
(* the lines for granted; here they are the subject, and the list does not *)
(* change meanwhile.  A byte is a digit, NL or NUL.                        *)
(***************************************************************************)
EXTENDS Integers, FiniteSets, Sequences, SequencesExt

CONSTANTS
    Size,   \* sizeof buffer, 200 in the code
    Lists,  \* lists of processes, each a number that is a sequence of digits
    Living  \* the numbers of processes that live, in this group or another

NL == -1
NUL == -2
Junk == -3  \* what the buffer holds before anything is read

VARIABLES
    procs,   \* the members of the source group, in the order of the file
    offset,  \* the bytes of the file read so far
    buffer, rpos, pidpos, count,  \* the locals, count once rpos is added to it
    moved,   \* the processes moved
    rc       \* "reading", "scanning", "ok" or "fail"

vars == <<procs, offset, buffer, rpos, pidpos, count, moved, rc>>

\* The kernel's cgroup.procs: a number and a newline per process.
Content == FlattenSeq([i \in DOMAIN procs |-> Append(procs[i], NL)])

Init ==
    /\ procs \in Lists
    /\ offset = 0
    /\ buffer = [i \in 0 .. Size - 1 |-> Junk]
    /\ rpos = 0 /\ pidpos = 0 /\ count = 0
    /\ moved = {}
    /\ rc = "reading"

\* read: the bytes go to the start of the buffer, those kept included in the
\* room but not in the place.
Read ==
    /\ rc = "reading"
    /\ LET left == Len(Content) - offset
           n == IF left < Size - rpos THEN left ELSE Size - rpos
       IN  /\ offset' = offset + n
           /\ buffer' = [i \in DOMAIN buffer |-> IF i < n THEN Content[offset + i + 1] ELSE buffer[i]]
           /\ count' = n + rpos
           /\ rc' = IF n = 0 THEN "ok" ELSE "scanning"
    /\ pidpos' = 0
    /\ UNCHANGED <<procs, rpos, moved>>

Newlines == {i \in rpos .. count - 1 : buffer[i] = NL}

\* The string that begins at pidpos and ends at a NUL, without the newlines
\* at its ends, as the kernel reads a number from it.
Written(last) ==
    LET stop == {i \in pidpos .. last : i = last \/ buffer[i] = NUL}
        end == CHOOSE i \in stop : \A j \in stop : i <= j
        ink == {i \in pidpos .. end - 1 : buffer[i] # NL}
        text == {i \in pidpos .. end - 1 : \E j, k \in ink : j <= i /\ i <= k}
    IN  IF text = {} THEN << >>
        ELSE LET from == CHOOSE i \in text : \A j \in text : i <= j
             IN  [i \in 1 .. Cardinality(text) |-> buffer[from + i - 1]]

\* Up to the next newline, which becomes a NUL, a process is moved; the write
\* to cgroup.procs fails if that is not the number of a living one.
MoveLine ==
    /\ rc = "scanning" /\ Newlines # {}
    /\ LET end == CHOOSE i \in Newlines : \A j \in Newlines : i <= j
           pid == Written(end)
       IN  /\ buffer' = [buffer EXCEPT ![end] = NUL]
           /\ IF pid \in Living
              THEN /\ moved' = moved \cup {pid}
                   /\ rpos' = end + 1 /\ pidpos' = end + 1
                   /\ UNCHANGED rc
              ELSE rc' = "fail" /\ UNCHANGED <<moved, rpos, pidpos>>
    /\ UNCHANGED <<procs, offset, count>>

\* memmove: the cut line comes to the start of the buffer.
KeepRest ==
    /\ rc = "scanning" /\ Newlines = {}
    /\ buffer' = [i \in DOMAIN buffer |-> IF i < count - pidpos THEN buffer[pidpos + i] ELSE buffer[i]]
    /\ rpos' = count - pidpos
    /\ rc' = "reading"
    /\ UNCHANGED <<procs, offset, pidpos, count, moved>>

Next == Read \/ MoveLine \/ KeepRest

Spec == Init /\ [][Next]_vars

-----------------------------------------------------------------------------
\* moveProcs should "move all the process of cgroup pointed by 'fromFd'" and
\* "return 0 on success or a negative value other wise": after a 0 the
\* processes moved are the members, all of them and no other.
MovesAll == rc = "ok" => moved = ToSet(procs)
=============================================================================
