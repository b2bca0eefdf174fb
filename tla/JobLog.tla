------------------------------- MODULE JobLog -------------------------------
(***************************************************************************)
(* The logs of joblog.c.  Every process has a log of its own, a file in    *)
(* the directory ./out, which the init process makes.  Entries are         *)
(* appended to the end of the file and read from the place where they      *)
(* would begin if each had EntrySize characters.  Every function is one    *)
(* step: what it does to its file no other process can see.                *)
(*                                                                         *)
(* A file is the sequence of its characters.  Of the fixed part of an      *)
(* entry ("pid:...,id:...,label:") only the id is kept: it takes one       *)
(* character, or two if it is one of LongIds, which have more digits than  *)
(* the format %05d (or %07d for the pid) provides for.                     *)
(***************************************************************************)
EXTENDS Job, SequencesExt

CONSTANTS
    Procs,      \* the processes
    InitProc,   \* the one whose is_init is set
    Ids,        \* the ids of the jobs they make
    LongIds,    \* those that do not fit in an entry
    Labels,     \* the labels they give to jobs
    MaxEntries, \* MaxEntries[p]: how long the log of p grows (bound)
    MayHappen,  \* what may go wrong in the system, see Mishaps
    NEWLINE,
    DIGIT,      \* the last digit of a long id
    TORN        \* what is no whole entry: one written in part, or an
                \* earlier log that could not be removed

\* memory: there is none for what is to be returned; name: there is none for
\* the name of the log, asprintf fails; open, seek, fprintf, fgets, mkdir,
\* remove: the function fails; disk_full: what fclose flushes is written in
\* part.
Mishaps == {"memory", "name", "open", "seek", "fprintf", "fgets", "disk_full",
            "mkdir", "remove"}

ASSUME JobLogAssumption ==
    /\ InitProc \in Procs
    /\ LongIds \subseteq Ids
    /\ MaxEntries \in [Procs -> Nat]
    /\ MayHappen \subseteq Mishaps

VARIABLES
    out,        \* what the name ./out stands for
    file,       \* file[p]: the log of p, or NULL
    desc,       \* desc[p]: has p a process descriptor?
    last,       \* the last call: of which process, its name, what went wrong
                \* in it, the entry read, its number
    logged      \* logged[p]: the jobs in the log of p, oldest first, from
                \* the time that p has last tried to delete it; NULL before

vars == <<out, file, desc, last, logged>>

\* What op returns to p: an entry, read at number num, or NULL.
ReturnsEntry(p, op, num, entry, mishap) ==
    /\ mishap \in MayHappen \cup {"none"}
    /\ last' = [proc |-> p, op |-> op, num |-> num, entry |-> entry,
                mishap |-> mishap]

Returns(p, op, mishap) == ReturnsEntry(p, op, 0, NULL, mishap)

-----------------------------------------------------------------------------
(* Entries.                                                                *)

\* JOBLOG_ENTRY_SIZE: an id, a label, a new line.
EntrySize == NameSize + 1

Text(j) == (IF j.id \in LongIds THEN <<j.id, DIGIT>> ELSE <<j.id>>) \o j.label

Line(j) == Append(Text(j), NEWLINE)

\* Does the entry of j have the size that every reader assumes?
Fits(j) == Len(Line(j)) = EntrySize

\* What fgets returns of the characters s: a line, or all of them.
FirstLine(s) ==
    LET ends == {i \in DOMAIN s : s[i] = NEWLINE}
    IN  IF ends = {} THEN s ELSE SubSeq(s, 1, Min(ends))

\* Mutant: the size of an entry without its new line.
FoundAtShort(text, num) ==
    LET from == num * (EntrySize - 1)
    IN  IF from >= Len(text)
        THEN NULL
        ELSE FirstLine(SubSeq(text, from + 1,
                              Min({from + EntrySize - 1, Len(text)})))

\* The entry found at the place of number num; NULL at the end of the file.
FoundAt(text, num) ==
    LET from == num * EntrySize
    IN  IF from >= Len(text)
        THEN NULL
        ELSE FirstLine(SubSeq(text, from + 1,
                              Min({from + EntrySize - 1, Len(text)})))

-----------------------------------------------------------------------------

\* The logs of an earlier run are still there: process ids are used again.
Init ==
    /\ out \in {"nothing", "a file", "a directory"}
    /\ \E old \in {Line(JobSet(i, NULL)) : i \in Ids} :
            file \in [Procs -> IF out = "a directory" THEN {NULL, old}
                                                      ELSE {NULL}]
    /\ desc = [p \in Procs |-> FALSE]
    /\ last = [proc |-> InitProc, op |-> "none", num |-> 0, entry |-> NULL,
               mishap |-> "none"]
    /\ logged = [p \in Procs |-> NULL]

-----------------------------------------------------------------------------
(* The processes and their jobs.                                           *)

\* proc_new, of a type that there is or is not, for a number of jobs to do.
ProcNew(p) ==
    /\ ~desc[p]
    /\ \E type \in {3, 4}, jobs \in {0, 1} :
        \/ /\ desc' = [desc EXCEPT ![p] = type \in 0 .. 3 /\ jobs >= 1]
           /\ Returns(p, "proc_new", "none")
        \/ /\ type \in 0 .. 3 /\ jobs >= 1
           /\ Returns(p, "proc_new", "memory")
           /\ UNCHANGED desc
    /\ UNCHANGED <<out, file, logged>>

\* The jobs that a process can come by.
JobsMade == {JobSet(id, label) : id \in Ids, label \in Labels \cup {NULL}}
Jobs == JobsMade \cup {JobInit} \cup {JobCopy(JobInit)}

\* What there may be in a log.
Characters ==
    Ids \cup {0, PAD, DIGIT, NEWLINE} \cup UNION {Range(label) : label \in Labels}

\* A label is a string of one line; nothing else in an entry is a new line; and
\* a null pointer is neither a string nor a job.
ASSUME CharactersAssumption ==
    /\ \A label \in Labels : label \in Seq(Range(label) \ {NEWLINE})
    /\ NEWLINE \notin Ids \cup {0, PAD, DIGIT}
    /\ NULL \notin Seq(Characters)
    /\ NULL \notin Jobs /\ NULL \notin Seq(Jobs \cup {TORN})

-----------------------------------------------------------------------------
(* joblog_init and joblog_delete                                           *)

\* The log of p is gone, if there was one.
Unlinked(p) ==
    /\ file' = [file EXCEPT ![p] = NULL]
    /\ logged' = [logged EXCEPT ![p] = << >>]

\* The log of p stays, and nobody is told.  If p has written none of it yet,
\* it is that of an earlier run, and entries come after it.
Stays(p) ==
    /\ logged' = [logged EXCEPT ![p] =
                    IF @ # NULL THEN @
                    ELSE IF file[p] = NULL THEN << >> ELSE <<TORN>>]
    /\ UNCHANGED file

\* joblog_delete: without a name there is nothing to remove, and remove may
\* fail for a log that exists.
Deleted(p, mishap) ==
    \/ mishap = "none" /\ Unlinked(p)
    \/ mishap = "name" /\ Stays(p)
    \/ mishap = "remove" /\ file[p] # NULL /\ Stays(p)

\* Mutant: a directory, too, is unlinked and made again.
SetUpDirectoryAnew(p, mishap) ==
    \/ /\ p # InitProc
       /\ UNCHANGED out /\ mishap = "none"
    \/ /\ p = InitProc
       /\ \/ out' = "a directory" /\ mishap = "none"
          \/ out' = "nothing" /\ mishap = "mkdir"

\* stat, unlink and mkdir by the init process.  The result of unlink is not
\* looked at; mkdir fails if the file is still there.
SetUpDirectory(p, mishap) ==
    \/ /\ p # InitProc \/ out = "a directory"
       /\ UNCHANGED out /\ mishap = "none"
    \/ /\ p = InitProc /\ out # "a directory"
       /\ \/ out' = "a directory" /\ mishap = "none"
          \/ out' \in {"nothing", out} /\ mishap = "mkdir"

JobLogInit(p) ==
    /\ \/ /\ ~desc[p]
          /\ Returns(p, "init", "none")
          /\ UNCHANGED <<out, file, logged>>
       \/ /\ desc[p]
          /\ \E dir, log \in MayHappen \cup {"none"} :
                /\ SetUpDirectory(p, dir)
                /\ Deleted(p, log)
                /\ Returns(p, "init", IF dir = "none" THEN log ELSE dir)
    /\ UNCHANGED desc

JobLogDelete(p) ==
    /\ \/ /\ ~desc[p]
          /\ Returns(p, "delete", "none")
          /\ UNCHANGED <<file, logged>>
       \/ /\ desc[p]
          /\ \E mishap \in MayHappen \cup {"none"} :
                Deleted(p, mishap) /\ Returns(p, "delete", mishap)
    /\ UNCHANGED <<out, desc>>

-----------------------------------------------------------------------------
(* joblog_write_entry                                                      *)

\* A process uses its log after joblog_init (joblog.h:16-18), or has no
\* descriptor and so no log.
Ready(p) == ~desc[p] \/ logged[p] # NULL

\* fopen(..., "a") finds the log or makes it, if there is the directory.
Opened(p) == IF file[p] = NULL THEN << >> ELSE file[p]

\* Characters are added to the log, and what they amount to.
Extend(p, characters, entries) ==
    /\ file' = [file EXCEPT ![p] = Opened(p) \o characters]
    /\ logged' = [logged EXCEPT ![p] = @ \o entries]

\* Nothing to write, or nothing to write it to.
WriteNothing(p, j) ==
    /\ \/ /\ ~desc[p] \/ j = NULL \/ out # "a directory"
          /\ Returns(p, "write", "none")
       \/ /\ desc[p] /\ j # NULL
          /\ \E mishap \in {"name", "open"} : Returns(p, "write", mishap)
    /\ UNCHANGED <<out, file, desc, logged>>

WriteEntry(p, j) ==
    /\ desc[p] /\ j # NULL /\ out = "a directory"
    /\ Len(logged[p]) < MaxEntries[p]
    /\ \/ /\ Extend(p, Line(j), <<j>>)
          /\ Returns(p, "write", "none")
       \* fprintf or fclose writes a part of the entry only.  The result of
       \* fclose is not looked at.
       \/ /\ \E k \in 0 .. Len(Text(j)) :
                Extend(p, SubSeq(Text(j), 1, k),
                       IF k = 0 THEN << >> ELSE <<TORN>>)
          /\ \E mishap \in {"fprintf", "disk_full"} :
                Returns(p, "write", mishap)
    /\ UNCHANGED <<out, desc>>

-----------------------------------------------------------------------------
(* joblog_read_entry                                                       *)

\* Nothing to read, or nothing to read it with.  There is memory for the
\* string that is returned only after the entry has been read.
NoEntry(p) ==
    \/ ~desc[p] /\ Returns(p, "read", "none")
    \/ desc[p] /\ ReturnsEntry(p, "read", -1, NULL, "none")
    \/ desc[p] /\ Returns(p, "read", "name")
    \/ desc[p] /\ file[p] = NULL /\ Returns(p, "read", "none")
    \/ /\ desc[p] /\ file[p] # NULL
       /\ \E mishap \in {"open", "seek", "fgets", "memory"} :
            Returns(p, "read", mishap)

ReadNothing(p) == NoEntry(p) /\ UNCHANGED <<out, file, desc, logged>>

ReadEntry(p) ==
    /\ desc[p] /\ file[p] # NULL
    /\ \E num \in 0 .. MaxEntries[p] :
        ReturnsEntry(p, "read", num, FoundAt(file[p], num), "none")
    /\ UNCHANGED <<out, file, desc, logged>>

-----------------------------------------------------------------------------

Next ==
    \E p \in Procs :
        \/ ProcNew(p)
        \/ JobLogInit(p) \/ JobLogDelete(p)
        \/ /\ Ready(p)
           /\ \/ \E j \in Jobs \cup {NULL} :
                    WriteNothing(p, j) \/ WriteEntry(p, j)
              \/ ReadNothing(p) \/ ReadEntry(p)

Spec == Init /\ [][Next]_vars

-----------------------------------------------------------------------------
(* Properties.                                                             *)

TypeOK ==
    /\ out \in {"nothing", "a file", "a directory"}
    /\ out # "a directory" => \A p \in Procs : file[p] = NULL
    /\ desc \in [Procs -> BOOLEAN]
    /\ last.mishap \in MayHappen \cup {"none"}
    /\ \A p \in Procs :
        /\ ~desc[p] => logged[p] = NULL
        /\ logged[p] # NULL => Range(logged[p]) \subseteq Jobs \cup {TORN}

\* The entry of an initialised job, or of a long id, is no whole entry.
IsWhole(entry) == entry # TORN /\ Fits(entry)

\* Entry number n of the log of a process is the n-th that it has written,
\* counted from 0, and there is none below 0 or after the last
\* (joblog.h:42-46, 60-69), also if an earlier run has left a log that has been
\* removed, or ./out is made late: so long as the entries up to number n are
\* whole.  What comes after one that is torn or of another size than EntrySize,
\* or after an earlier log that is still there, is out of place.
EntriesReadBack ==
    LET mine == logged[last.proc]
        n == last.num
        aligned == \A i \in DOMAIN mine : i <= n + 1 => IsWhole(mine[i])
    IN  last.op = "read" /\ last.mishap = "none" /\ mine # NULL /\ aligned
        => last.entry = IF n \in 0 .. Len(mine) - 1 THEN Text(mine[n + 1]) ELSE NULL

\* A job that job_new or job_set has made and that is logged is equal to its
\* copies, as which it went through the queue, and what is logged of a copy
\* fills an entry (job.h:103-106, 123-125), unless the id is too long.
CopyIsEqual ==
    \A p \in Procs : logged[p] # NULL =>
        \A j \in Range(logged[p]) \cap Jobs :
            /\ j # JobInit => JobIsEqual(JobCopy(j), j)
            /\ j.id \notin LongIds => Fits(JobCopy(j))
=============================================================================
