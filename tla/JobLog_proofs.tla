--------------------------- MODULE JobLog_proofs ---------------------------
(***************************************************************************)
(* The logs and the jobs in them, for any number of processes, entries,    *)
(* labels and ids, every label size, and whatever fails.                   *)
(***************************************************************************)
EXTENDS JobLog, TLAPS

-----------------------------------------------------------------------------
(* Jobs.                                                                   *)

\* The characters of a string.
Glyphs == Characters \ {NEWLINE}

\* job_set leaves a label of NameSize - 1 characters, whatever it is given.
LEMMA PaddedFits ==
    ASSUME NEW text
    PROVE  /\ Len(Padded(text)) = NameSize - 1
           /\ DOMAIN Padded(text) = 1 .. NameSize - 1
<1>1. NameSize - 1 \in Nat
    BY NameSizeAssumption
<1>2. Padded(text) \in Seq({Padded(text)[i] : i \in 1 .. NameSize - 1})
    BY <1>1 DEF Padded
<1> QED BY <1>1, <1>2 DEF Padded

\* A label that has once been padded is not changed by a copy.
LEMMA PaddedTwice ==
    ASSUME NEW text
    PROVE  Padded(Padded(text)) = Padded(text)
<1>1. NameSize - 1 \in Nat
    BY NameSizeAssumption
<1> QED BY <1>1, PaddedFits DEF Padded

LEMMA PaddedGlyphs ==
    ASSUME NEW text \in Seq(Glyphs)
    PROVE  Padded(text) \in Seq(Glyphs)
<1>1. NameSize - 1 \in Nat
    BY NameSizeAssumption
<1>2. PAD \in Glyphs
    BY CharactersAssumption DEF Glyphs, Characters
<1>3. \A i \in 1 .. NameSize - 1 : i <= Len(text) => text[i] \in Glyphs
    BY <1>1
<1>4. Padded(text) \in [1 .. NameSize - 1 -> Glyphs]
    BY <1>2, <1>3 DEF Padded
<1> QED BY <1>1, <1>4

LEMMA GivenGlyphs ==
    ASSUME NEW label \in Labels \cup {NULL}
    PROVE  GivenText(label) \in Seq(Glyphs)
<1>1. CASE label = NULL
    BY <1>1 DEF GivenText
<1>2. CASE label # NULL
    <2>1. label \in Labels /\ label \in Seq(Range(label) \ {NEWLINE})
        BY <1>2, CharactersAssumption
    <2>2. Range(label) \subseteq Characters
        BY <2>1 DEF Characters
    <2>3. Range(label) \ {NEWLINE} \subseteq Glyphs
        BY <2>2 DEF Glyphs
    <2>4. label \in Seq(Glyphs)
        BY <2>1, <2>3
    <2> QED BY <1>2, <2>4 DEF GivenText
<1> QED BY <1>1, <1>2

\* The jobs of the program, and their copies.
LEMMA JobFields ==
    ASSUME NEW j \in Jobs
    PROVE  /\ j = [id |-> j.id, label |-> j.label]
           /\ j.id \in Ids \cup {0}
           /\ j.label \in Seq(Glyphs)
           /\ j = JobInit \/ \E text : j.label = Padded(text)
<1>1. CASE j \in JobsMade
    <2>1. PICK id \in Ids, label \in Labels \cup {NULL} : j = JobSet(id, label)
        BY <1>1 DEF JobsMade
    <2> QED BY <2>1, GivenGlyphs, PaddedGlyphs DEF JobSet
<1>2. CASE j = JobInit
    BY <1>2 DEF JobInit
<1>3. CASE j = JobCopy(JobInit)
    <2>1. JobInit \in Jobs
        BY DEF Jobs
    <2>2. j = JobSet(0, << >>)
        BY <1>3, <2>1, CharactersAssumption DEF JobCopy, JobInit
    <2>3. GivenText(<< >>) \in Seq(Glyphs)
        BY DEF GivenText
    <2> QED BY <2>2, <2>3, PaddedGlyphs DEF JobSet
<1> QED BY <1>1, <1>2, <1>3 DEF Jobs

\* A string that a program can have is not a null pointer.
LEMMA TextIsNotNull ==
    ASSUME NEW text \in Seq(Glyphs)
    PROVE  GivenText(text) = text
<1>1. text \in Seq(Characters)
    BY DEF Glyphs
<1> QED BY <1>1, CharactersAssumption DEF GivenText

LEMMA CopiedLabel ==
    ASSUME NEW j \in Jobs
    PROVE  JobCopy(j) = [id |-> j.id, label |-> Padded(j.label)]
BY JobFields, TextIsNotNull, CharactersAssumption DEF JobCopy, JobSet

\* What is written for a copy of a job has the size of an entry.
LEMMA CopyFits ==
    ASSUME NEW j \in Jobs, j.id \notin LongIds
    PROVE  Fits(JobCopy(j))
<1> DEFINE copy == JobCopy(j)
<1>1. copy.id = j.id /\ copy.label = Padded(j.label)
    BY CopiedLabel
<1>2. copy.label \in Seq(Glyphs) /\ Len(copy.label) = NameSize - 1
    BY <1>1, JobFields, PaddedGlyphs, PaddedFits
<1>3. copy.id \in Characters
    BY <1>1, JobFields DEF Characters
<1>4. copy.label \in Seq(Characters)
    BY <1>2 DEF Glyphs
<1>5. Text(copy) = <<copy.id>> \o copy.label
    BY <1>1 DEF Text
<1>6. Text(copy) \in Seq(Characters) /\ Len(Text(copy)) = NameSize
    BY <1>2, <1>3, <1>4, <1>5, NameSizeAssumption
<1> QED BY <1>6, NameSizeAssumption DEF Fits, Line, EntrySize

\* What the runs check for three labels holds of all (job_copy, job_is_equal).
LEMMA CopyEquals ==
    ASSUME NEW j \in Jobs
    PROVE  /\ j # JobInit => JobIsEqual(JobCopy(j), j)
           /\ j.id \notin LongIds => Fits(JobCopy(j))
<1>1. ASSUME j # JobInit
      PROVE  JobIsEqual(JobCopy(j), j)
    <2>1. PICK text : j.label = Padded(text)
        BY <1>1, JobFields
    <2>2. JobCopy(j) = j
        BY <2>1, CopiedLabel, PaddedTwice, JobFields
    <2> QED BY <2>2 DEF JobIsEqual
<1> QED BY <1>1, CopyFits

\* What has been logged of a job that job_new or job_set has made is as its
\* copies are, for every label and every label size: padding and cutting it a
\* second time, in job_copy, changes nothing (job_copy, job_is_equal;
\* job.h:103-106, 123-125).
THEOREM CopiesAreEqual == Spec => []CopyIsEqual
<1>1. CopyIsEqual
    BY CopyEquals DEF CopyIsEqual
<1> QED BY <1>1, PTL

-----------------------------------------------------------------------------
(* Entries.                                                                *)

LEMMA EntrySizePositive == EntrySize \in Nat /\ EntrySize > 2
BY NameSizeAssumption DEF EntrySize

LEMMA TextGlyphs ==
    ASSUME NEW j \in Jobs
    PROVE  Text(j) \in Seq(Glyphs)
<1>1. j.id \in Glyphs /\ DIGIT \in Glyphs
    BY JobFields, CharactersAssumption DEF Glyphs, Characters
<1>2. <<j.id, DIGIT>> \in Seq(Glyphs) /\ <<j.id>> \in Seq(Glyphs)
    BY <1>1
<1>3. j.label \in Seq(Glyphs)
    BY JobFields
<1> QED BY <1>2, <1>3 DEF Text

LEMMA LineCharacters ==
    ASSUME NEW j \in Jobs
    PROVE  /\ Line(j) \in Seq(Characters)
           /\ Len(Line(j)) = Len(Text(j)) + 1
           /\ \A k \in 1 .. Len(Text(j)) : Line(j)[k] = Text(j)[k]
<1>1. Text(j) \in Seq(Glyphs)
    BY TextGlyphs
<1>2. Text(j) \in Seq(Characters)
    BY <1>1 DEF Glyphs
<1>3. NEWLINE \in Characters
    BY DEF Characters
<1> QED BY <1>2, <1>3 DEF Line

\* Multiples of the size of an entry.
LEMMA Multiples ==
    ASSUME NEW m \in Nat, NEW n \in Nat, m <= n
    PROVE  /\ m * EntrySize \in Nat
           /\ (m + 1) * EntrySize = m * EntrySize + EntrySize
           /\ m * EntrySize <= n * EntrySize
<1>1. EntrySize \in Nat
    BY EntrySizePositive
<1>2. PICK d \in Nat : n = m + d
    <2>1. n - m \in Nat /\ n = m + (n - m)
        OBVIOUS
    <2> QED BY <2>1
<1>3. n * EntrySize = m * EntrySize + d * EntrySize
    BY <1>1, <1>2
<1>4. m * EntrySize \in Nat /\ d * EntrySize \in Nat
    BY <1>1
<1> QED BY <1>1, <1>3, <1>4

\* The line is at the place from of the text.
LineAt(text, from, line) ==
    \A k \in 1 .. EntrySize : text[from + k] = line[k]

\* As long as entries are whole they fill the text, each at its place.
Filled(text, entries, n) ==
    (\A i \in 1 .. n : IsWhole(entries[i])) =>
        /\ Len(text) >= n * EntrySize
        /\ n = Len(entries) => Len(text) = n * EntrySize
        /\ \A i \in 1 .. n : LineAt(text, (i - 1) * EntrySize, Line(entries[i]))

FilledUp(text, entries) == \A n \in 0 .. Len(entries) : Filled(text, entries, n)

Entries == Jobs \cup {TORN}

LEMMA EmptyIsFilled == FilledUp(<< >>, << >>)
BY EntrySizePositive DEF FilledUp, Filled

\* Nothing is said of what comes after a log that could not be removed.
LEMMA TornIsFilled ==
    ASSUME NEW text \in Seq(Characters)
    PROVE  FilledUp(text, <<TORN>>)
<1>1. Filled(text, <<TORN>>, 0)
    BY EntrySizePositive DEF Filled
<1>2. Filled(text, <<TORN>>, 1)
    <2>1. 1 \in 1 .. 1 /\ <<TORN>>[1] = TORN
        OBVIOUS
    <2> QED BY <2>1 DEF Filled, IsWhole
<1> QED BY <1>1, <1>2 DEF FilledUp

\* Characters added at the end leave the whole entries where they are.
LEMMA FilledGrows ==
    ASSUME NEW text \in Seq(Characters), NEW entries \in Seq(Entries),
           FilledUp(text, entries),
           NEW more \in Seq(Characters), NEW e \in Entries,
           NEW n \in 0 .. Len(entries)
    PROVE  Filled(text \o more, Append(entries, e), n)
<1> DEFINE es == Append(entries, e)
<1> SUFFICES ASSUME \A i \in 1 .. n : IsWhole(es[i])
             PROVE  /\ Len(text \o more) >= n * EntrySize
                    /\ n = Len(es) => Len(text \o more) = n * EntrySize
                    /\ \A i \in 1 .. n :
                        LineAt(text \o more, (i - 1) * EntrySize, Line(es[i]))
    BY DEF Filled
<1>1. \A i \in 1 .. n : es[i] = entries[i]
    OBVIOUS
<1>2. Filled(text, entries, n)
    BY DEF FilledUp
<1>3. /\ Len(text) >= n * EntrySize
      /\ \A i \in 1 .. n : LineAt(text, (i - 1) * EntrySize, Line(entries[i]))
    BY <1>1, <1>2 DEF Filled
<1>4. n * EntrySize \in Nat
    BY Multiples
<1>5. Len(text \o more) >= n * EntrySize
    BY <1>3, <1>4
<1>6. n # Len(es)
    OBVIOUS
<1>7. ASSUME NEW i \in 1 .. n
      PROVE  LineAt(text \o more, (i - 1) * EntrySize, Line(es[i]))
    <2>1. LineAt(text, (i - 1) * EntrySize, Line(es[i]))
        BY <1>1, <1>3
    <2>2. /\ (i - 1) * EntrySize \in Nat
          /\ (i - 1) * EntrySize + EntrySize <= n * EntrySize
        <3>1. PICK m \in Nat : i = m + 1
            <4>1. i - 1 \in Nat /\ i = (i - 1) + 1
                OBVIOUS
            <4> QED BY <4>1
        <3>2. m <= n /\ m + 1 \in Nat /\ m + 1 <= n /\ n \in Nat /\ i - 1 = m
            BY <3>1
        <3>3. m * EntrySize \in Nat /\ (m + 1) * EntrySize = m * EntrySize + EntrySize
            BY <3>2, Multiples
        <3>4. (m + 1) * EntrySize <= n * EntrySize
            BY <3>2, Multiples
        <3> QED BY <3>2, <3>3, <3>4
    <2>3. ASSUME NEW k \in 1 .. EntrySize
          PROVE  (text \o more)[(i - 1) * EntrySize + k] = Line(es[i])[k]
        <3> DEFINE from == (i - 1) * EntrySize
        <3>1. text[from + k] = Line(es[i])[k]
            BY <2>1 DEF LineAt
        <3>2. from \in Nat /\ from + EntrySize <= Len(text)
            <4>1. Len(text) \in Nat /\ EntrySize \in Nat
                BY EntrySizePositive
            <4>2. n * EntrySize <= Len(text)
                BY <1>3
            <4> QED BY <1>4, <2>2, <4>1, <4>2
        <3> HIDE DEF from
        <3>3. from + k \in 1 .. Len(text)
            BY <3>2, EntrySizePositive
        <3>4. (text \o more)[from + k] = text[from + k]
            BY <3>3
        <3> QED BY <3>1, <3>4 DEF from
    <2> QED BY <2>3 DEF LineAt
<1> QED BY <1>5, <1>6, <1>7

\* joblog_write_entry, when the whole entry is written.
LEMMA FilledByLine ==
    ASSUME NEW text \in Seq(Characters), NEW entries \in Seq(Entries),
           FilledUp(text, entries), NEW j \in Jobs
    PROVE  FilledUp(text \o Line(j), Append(entries, j))
<1> DEFINE es == Append(entries, j)
           m == Len(entries)
           all == text \o Line(j)
<1>1. Line(j) \in Seq(Characters)
    BY LineCharacters
<1>2. ASSUME NEW n \in 0 .. m
      PROVE  Filled(all, es, n)
    BY <1>1, FilledGrows DEF Entries
<1>3. ASSUME \A i \in 1 .. m + 1 : IsWhole(es[i])
      PROVE  /\ Len(all) = (m + 1) * EntrySize
             /\ \A i \in 1 .. m + 1 :
                    LineAt(all, (i - 1) * EntrySize, Line(es[i]))
    <2>1. m \in Nat /\ es[m + 1] = j
        OBVIOUS
    <2>2. Len(Line(j)) = EntrySize
        BY <1>3, <2>1 DEF IsWhole, Fits
    <2>3. \A i \in 1 .. m : es[i] = entries[i] /\ IsWhole(es[i])
        BY <1>3
    <2>4. Len(text) = m * EntrySize
        BY <2>1, <2>3 DEF FilledUp, Filled
    <2>5. (m + 1) * EntrySize = m * EntrySize + EntrySize
        BY <2>1, Multiples
    <2>6. Len(all) = (m + 1) * EntrySize
        BY <1>1, <2>2, <2>4, <2>5, SMTT(60)
    <2>7. \A i \in 1 .. m : LineAt(all, (i - 1) * EntrySize, Line(es[i]))
        BY <1>2, <2>1, <2>3 DEF Filled
    <2>8. LineAt(all, m * EntrySize, Line(j))
        <3>1. ASSUME NEW k \in 1 .. EntrySize
              PROVE  all[Len(text) + k] = Line(j)[k]
            BY <1>1, <2>2, EntrySizePositive
        <3> QED BY <2>4, <3>1 DEF LineAt
    <2> QED BY <2>1, <2>6, <2>7, <2>8
<1>4. Len(es) = m + 1 /\ m \in Nat
    OBVIOUS
<1>5. Filled(all, es, m + 1)
    <2>1. (m + 1) * EntrySize \in Nat
        BY <1>4, Multiples
    <2> QED BY <1>3, <2>1 DEF Filled
<1> QED BY <1>2, <1>4, <1>5 DEF FilledUp

\* joblog_write_entry, when some of the entry is written.
LEMMA FilledByPart ==
    ASSUME NEW text \in Seq(Characters), NEW entries \in Seq(Entries),
           FilledUp(text, entries), NEW part \in Seq(Characters)
    PROVE  FilledUp(text \o part, Append(entries, TORN))
<1> DEFINE es == Append(entries, TORN)
           m == Len(entries)
<1>1. ASSUME NEW n \in 0 .. m
      PROVE  Filled(text \o part, es, n)
    BY FilledGrows DEF Entries
<1>2. Filled(text \o part, es, m + 1)
    <2>1. es[m + 1] = TORN /\ m + 1 \in 1 .. m + 1
        OBVIOUS
    <2> QED BY <2>1 DEF Filled, IsWhole
<1> QED BY <1>1, <1>2 DEF FilledUp

\* fgets gives a whole entry without its new line.
LEMMA TextIsOneLine ==
    ASSUME NEW j \in Jobs
    PROVE  FirstLine(Text(j)) = Text(j)
<1>1. \A i \in DOMAIN Text(j) : Text(j)[i] # NEWLINE
    BY TextGlyphs DEF Glyphs
<1> QED BY <1>1 DEF FirstLine

LEMMA MinOfTwo ==
    ASSUME NEW a \in Int, NEW b \in Int, a <= b
    PROVE  Min({a, b}) = a
BY DEF Min

\* What joblog_read_entry finds where everything up to the entry is whole.
LEMMA FoundIsWritten ==
    ASSUME NEW text \in Seq(Characters), NEW entries \in Seq(Entries),
           FilledUp(text, entries), NEW n \in Nat,
           \A i \in DOMAIN entries : i <= n + 1 => IsWhole(entries[i])
    PROVE  FoundAt(text, n) =
               IF n < Len(entries) THEN Text(entries[n + 1]) ELSE NULL
<1> DEFINE from == n * EntrySize
<1>1. EntrySize \in Nat /\ EntrySize > 2 /\ Len(text) \in Nat
    BY EntrySizePositive
<1>2. CASE n < Len(entries)
    <2> DEFINE e == entries[n + 1]
    <2>1. n + 1 \in 1 .. Len(entries) /\ n + 1 \in 0 .. Len(entries)
        BY <1>2
    <2>2. \A i \in 1 .. n + 1 : IsWhole(entries[i])
        BY <2>1
    <2>3. Filled(text, entries, n + 1)
        BY <2>1 DEF FilledUp
    <2>4. Len(text) >= (n + 1) * EntrySize
        BY <2>2, <2>3 DEF Filled
    <2>5. LineAt(text, from, Line(e))
        <3>1. n + 1 \in 1 .. n + 1 /\ (n + 1) - 1 = n
            OBVIOUS
        <3> QED BY <2>2, <2>3, <3>1 DEF Filled
    <2>6. from \in Nat /\ (n + 1) * EntrySize = from + EntrySize
        <3>1. n <= n
            OBVIOUS
        <3> QED BY <3>1, Multiples
    <2> HIDE DEF from
    <2>7. e \in Jobs /\ Fits(e)
        BY <2>1, <2>2 DEF IsWhole, Entries
    <2>8. Text(e) \in Seq(Glyphs) /\ Len(Text(e)) = EntrySize - 1
        <3>1. Len(Line(e)) = Len(Text(e)) + 1 /\ Len(Text(e)) \in Nat
            BY <2>7, LineCharacters, TextGlyphs
        <3> QED BY <1>1, <2>7, <3>1, TextGlyphs DEF Fits
    <2>9. Min({from + EntrySize - 1, Len(text)}) = from + EntrySize - 1
        BY <1>1, <2>4, <2>6, MinOfTwo
    <2> DEFINE found == SubSeq(text, from + 1, from + EntrySize - 1)
    <2>10. found = Text(e)
        <3>1. found \in Seq(Characters) /\ Len(found) = EntrySize - 1
            BY <1>1, <2>4, <2>6
        <3>2. ASSUME NEW k \in 1 .. EntrySize - 1
              PROVE  found[k] = Text(e)[k]
            <4>1. found[k] = text[from + k]
                BY <1>1, <2>4, <2>6, SMTT(60)
            <4>2. text[from + k] = Line(e)[k]
                BY <1>1, <2>5 DEF LineAt
            <4> QED BY <2>7, <2>8, <4>1, <4>2, LineCharacters
        <3>3. Text(e) \in Seq(Characters)
            BY <2>8 DEF Glyphs
        <3> HIDE DEF found
        <3> QED BY <1>1, <2>8, <3>1, <3>2, <3>3
    <2>11. ~(from >= Len(text))
        BY <1>1, <2>4, <2>6
    <2>12. FoundAt(text, n) = FirstLine(Text(e))
        BY <2>9, <2>10, <2>11 DEF FoundAt, from
    <2> QED BY <1>2, <2>7, <2>12, TextIsOneLine
<1>3. CASE ~(n < Len(entries))
    <2> DEFINE m == Len(entries)
    <2>1. m \in Nat /\ m <= n /\ m \in 0 .. m
        BY <1>3
    <2>2. \A i \in 1 .. m : IsWhole(entries[i])
        BY <2>1
    <2>3. Len(text) = m * EntrySize
        <3>1. Filled(text, entries, m)
            BY <2>1 DEF FilledUp
        <3> QED BY <2>2, <3>1 DEF Filled
    <2>4. m * EntrySize <= from /\ m * EntrySize \in Nat
        BY <2>1, Multiples
    <2>5. from \in Nat
        <3>1. n <= n
            OBVIOUS
        <3> QED BY <3>1, Multiples
    <2>6. from >= Len(text)
        BY <2>3, <2>4, <2>5
    <2> QED BY <1>3, <2>6 DEF FoundAt
<1> QED BY <1>2, <1>3

-----------------------------------------------------------------------------
(* The invariant.                                                          *)

LogTypes ==
    /\ desc \in [Procs -> BOOLEAN]
    /\ file \in [Procs -> Seq(Characters) \cup {NULL}]
    /\ logged \in [Procs -> Seq(Entries) \cup {NULL}]
    /\ last.proc \in Procs

\* From joblog_init on the log of p holds what p has logged.
LogMatches(p) == logged[p] # NULL => FilledUp(Opened(p), logged[p])

LogInv == TypeOK /\ LogTypes /\ \A p \in Procs : LogMatches(p)

LEMMA NullIsNoText ==
    /\ NULL \notin Seq(Characters) /\ << >> # NULL
    /\ NULL \notin Seq(Entries)
<1>1. NULL \notin Seq(Characters)
    BY CharactersAssumption
<1>2. << >> \in Seq(Characters)
    OBVIOUS
<1>3. NULL \notin Seq(Entries)
    BY CharactersAssumption DEF Entries
<1> QED BY <1>1, <1>2, <1>3

LEMMA InitLogInv == Init => LogInv
<1> SUFFICES ASSUME Init PROVE LogInv
    OBVIOUS
<1>1. ASSUME NEW i \in Ids
      PROVE  Line(JobSet(i, NULL)) \in Seq(Characters)
    <2>1. JobSet(i, NULL) \in Jobs
        BY DEF Jobs, JobsMade
    <2> QED BY <2>1, LineCharacters
<1>2. LogTypes
    BY <1>1, JobLogAssumption DEF Init, LogTypes
<1>3. \A p \in Procs : logged[p] = NULL
    BY DEF Init
<1>4. out # "a directory" => \A p \in Procs : file[p] = NULL
    BY DEF Init
<1>5. TypeOK
    BY <1>3, <1>4 DEF Init, TypeOK
<1> QED BY <1>2, <1>3, <1>5 DEF LogInv, LogMatches

\* A step that leaves the logs alone.
LEMMA LogsUntouched ==
    ASSUME LogInv, UNCHANGED <<file, logged>>, LogTypes', TypeOK'
    PROVE  LogInv'
BY DEF LogInv, LogMatches, Opened

\* The file of p is deleted, and what p has logged forgotten.
LEMMA UnlinkedKeeps ==
    ASSUME LogInv, NEW p \in Procs, Unlinked(p)
    PROVE  /\ \A q \in Procs : LogMatches(q)'
           /\ file' \in [Procs -> Seq(Characters) \cup {NULL}]
           /\ logged' \in [Procs -> Seq(Entries) \cup {NULL}]
<1>1. /\ file' = [file EXCEPT ![p] = NULL]
      /\ logged' = [logged EXCEPT ![p] = << >>]
    BY DEF Unlinked
<1>2. << >> \in Seq(Entries)
    OBVIOUS
<1>3. /\ file' \in [Procs -> Seq(Characters) \cup {NULL}]
      /\ logged' \in [Procs -> Seq(Entries) \cup {NULL}]
    BY <1>1, <1>2 DEF LogInv, LogTypes
<1>4. LogMatches(p)'
    BY <1>1, EmptyIsFilled DEF LogInv, LogTypes, LogMatches, Opened
<1>5. ASSUME NEW q \in Procs, q # p
      PROVE  LogMatches(q)'
    BY <1>1, <1>5 DEF LogInv, LogTypes, LogMatches, Opened
<1> QED BY <1>3, <1>4, <1>5

\* joblog_delete, whether or not it can remove the log.
LEMMA DeletedKeeps ==
    ASSUME LogInv, NEW p \in Procs, NEW mishap, Deleted(p, mishap)
    PROVE  /\ \A q \in Procs : LogMatches(q)'
           /\ file' \in [Procs -> Seq(Characters) \cup {NULL}]
           /\ logged' \in [Procs -> Seq(Entries) \cup {NULL}]
           /\ \A q \in Procs : file[q] = NULL => file'[q] = NULL
           /\ \A q \in Procs : q # p => logged'[q] = logged[q]
<1>1. LogTypes
    BY DEF LogInv
<1>2. CASE Unlinked(p)
    <2>1. /\ \A q \in Procs : file[q] = NULL => file'[q] = NULL
          /\ \A q \in Procs : q # p => logged'[q] = logged[q]
        BY <1>1, <1>2 DEF Unlinked, LogTypes
    <2> QED BY <1>2, <2>1, UnlinkedKeeps
<1>3. CASE Stays(p)
    <2> DEFINE mine == IF logged[p] # NULL THEN logged[p]
                       ELSE IF file[p] = NULL THEN << >> ELSE <<TORN>>
    <2>1. file' = file /\ logged' = [logged EXCEPT ![p] = mine]
        BY <1>3 DEF Stays
    <2>2. mine \in Seq(Entries)
        <3>1. << >> \in Seq(Entries) /\ <<TORN>> \in Seq(Entries)
            BY DEF Entries
        <3> QED BY <1>1, <3>1 DEF LogTypes
    <2>3. FilledUp(Opened(p), mine)
        <3>1. Opened(p) \in Seq(Characters) /\ (file[p] = NULL => Opened(p) = << >>)
            BY <1>1 DEF LogTypes, Opened
        <3>2. logged[p] # NULL => FilledUp(Opened(p), logged[p])
            BY DEF LogInv, LogMatches
        <3> QED BY <3>1, <3>2, EmptyIsFilled, TornIsFilled
    <2> HIDE DEF mine
    <2>4. /\ logged'[p] = mine
          /\ \A q \in Procs : q # p => logged'[q] = logged[q]
          /\ logged' \in [Procs -> Seq(Entries) \cup {NULL}]
        BY <1>1, <2>1, <2>2 DEF LogTypes
    <2>5. ASSUME NEW q \in Procs
          PROVE  LogMatches(q)'
        BY <2>1, <2>3, <2>4 DEF LogInv, LogMatches, Opened
    <2> QED BY <1>1, <2>1, <2>4, <2>5 DEF LogTypes
<1> QED BY <1>2, <1>3 DEF Deleted

\* Characters are appended to the log of p.
LEMMA ExtendKeeps ==
    ASSUME LogInv, NEW p \in Procs, logged[p] # NULL,
           NEW characters \in Seq(Characters), NEW entries \in Seq(Entries),
           Extend(p, characters, entries),
           FilledUp(Opened(p) \o characters, logged[p] \o entries)
    PROVE  /\ \A q \in Procs : LogMatches(q)'
           /\ file' \in [Procs -> Seq(Characters) \cup {NULL}]
           /\ logged' \in [Procs -> Seq(Entries) \cup {NULL}]
<1>1. /\ file' = [file EXCEPT ![p] = Opened(p) \o characters]
      /\ logged' = [logged EXCEPT ![p] = logged[p] \o entries]
    BY DEF Extend
<1>2. Opened(p) \in Seq(Characters) /\ logged[p] \in Seq(Entries)
    BY DEF LogInv, LogTypes, Opened
<1>3. /\ Opened(p) \o characters \in Seq(Characters)
      /\ logged[p] \o entries \in Seq(Entries)
    BY <1>2
<1>4. /\ file' \in [Procs -> Seq(Characters) \cup {NULL}]
      /\ logged' \in [Procs -> Seq(Entries) \cup {NULL}]
    BY <1>1, <1>3 DEF LogInv, LogTypes
<1>5. /\ file'[p] = Opened(p) \o characters
      /\ logged'[p] = logged[p] \o entries
    BY <1>1 DEF LogInv, LogTypes
<1>6. LogMatches(p)'
    <2>1. file'[p] # NULL
        BY <1>3, <1>5, NullIsNoText
    <2> QED BY <1>5, <2>1 DEF LogMatches, Opened
<1>7. ASSUME NEW q \in Procs, q # p
      PROVE  LogMatches(q)'
    BY <1>1, <1>7 DEF LogInv, LogTypes, LogMatches, Opened
<1> QED BY <1>4, <1>6, <1>7

LEMMA WriteEntryKeeps ==
    ASSUME LogInv, NEW p \in Procs, Ready(p), NEW j \in Jobs \cup {NULL},
           WriteEntry(p, j)
    PROVE  /\ \A q \in Procs : LogMatches(q)'
           /\ file' \in [Procs -> Seq(Characters) \cup {NULL}]
           /\ logged' \in [Procs -> Seq(Entries) \cup {NULL}]
<1>1. logged[p] # NULL /\ logged[p] \in Seq(Entries)
    BY DEF WriteEntry, Ready, LogInv, LogTypes
<1>2. Opened(p) \in Seq(Characters) /\ FilledUp(Opened(p), logged[p])
    BY <1>1 DEF LogInv, LogTypes, LogMatches, Opened
<1>3. j \in Jobs
    BY DEF WriteEntry
<1>4. CASE Extend(p, Line(j), <<j>>)
    <2>1. <<j>> \in Seq(Entries) /\ logged[p] \o <<j>> = Append(logged[p], j)
        BY <1>1, <1>3 DEF Entries
    <2>2. FilledUp(Opened(p) \o Line(j), logged[p] \o <<j>>)
        BY <1>1, <1>2, <1>3, <2>1, FilledByLine
    <2> QED BY <1>1, <1>3, <1>4, <2>1, <2>2, LineCharacters, ExtendKeeps
<1>5. ASSUME NEW k \in 0 .. Len(Text(j)),
             Extend(p, SubSeq(Text(j), 1, k),
                    IF k = 0 THEN << >> ELSE <<TORN>>)
      PROVE  /\ \A q \in Procs : LogMatches(q)'
             /\ file' \in [Procs -> Seq(Characters) \cup {NULL}]
             /\ logged' \in [Procs -> Seq(Entries) \cup {NULL}]
    <2> DEFINE part == SubSeq(Text(j), 1, k)
    <2>1. Text(j) \in Seq(Characters)
        BY <1>3, TextGlyphs DEF Glyphs
    <2>2. part \in Seq(Characters) /\ (k = 0 => part = << >>)
        BY <2>1
    <2>3. CASE k = 0
        <3>1. << >> \in Seq(Entries) /\ logged[p] \o << >> = logged[p]
            BY <1>1
        <3>2. Opened(p) \o part = Opened(p)
            BY <1>2, <2>2, <2>3
        <3>3. Extend(p, part, << >>)
            BY <1>5, <2>3
        <3> HIDE DEF part
        <3> QED BY <1>1, <1>2, <2>2, <3>1, <3>2, <3>3, ExtendKeeps
    <2>4. CASE k # 0
        <3>1. /\ <<TORN>> \in Seq(Entries)
              /\ logged[p] \o <<TORN>> = Append(logged[p], TORN)
            BY <1>1 DEF Entries
        <3>2. Extend(p, part, <<TORN>>)
            BY <1>5, <2>4
        <3> HIDE DEF part
        <3>3. FilledUp(Opened(p) \o part, logged[p] \o <<TORN>>)
            BY <1>1, <1>2, <2>2, <3>1, FilledByPart
        <3> QED BY <1>1, <2>2, <3>1, <3>2, <3>3, ExtendKeeps
    <2> QED BY <2>3, <2>4
<1> QED BY <1>4, <1>5 DEF WriteEntry

\* What every call leaves in last.
CallTypes(p) ==
    /\ last.proc = p
    /\ last.mishap \in MayHappen \cup {"none"}

LEMMA RangeOfEntries ==
    ASSUME NEW entries \in Seq(Entries)
    PROVE  Range(entries) \subseteq Jobs \cup {TORN}
BY DEF Range, Entries

\* All that a step has to show for the types.
LEMMA TypesNext ==
    ASSUME NEW p \in Procs, CallTypes(p)',
           out' \in {"nothing", "a file", "a directory"},
           desc' \in [Procs -> BOOLEAN],
           file' \in [Procs -> Seq(Characters) \cup {NULL}],
           logged' \in [Procs -> Seq(Entries) \cup {NULL}],
           out' # "a directory" => \A q \in Procs : file'[q] = NULL,
           \A q \in Procs : ~desc'[q] => logged'[q] = NULL
    PROVE  LogTypes' /\ TypeOK'
<1>2. LogTypes'
    BY DEF LogTypes, CallTypes
<1>3. \A q \in Procs : logged'[q] # NULL => Range(logged'[q]) \subseteq Jobs \cup {TORN}
    BY RangeOfEntries
<1> QED BY <1>2, <1>3 DEF TypeOK, CallTypes

LEMMA NextLogInv == LogInv /\ [Next]_vars => LogInv'
<1> SUFFICES ASSUME LogInv, [Next]_vars PROVE LogInv'
    OBVIOUS
<1> USE DEF Returns
<1>0. /\ out \in {"nothing", "a file", "a directory"}
      /\ desc \in [Procs -> BOOLEAN]
      /\ file \in [Procs -> Seq(Characters) \cup {NULL}]
      /\ logged \in [Procs -> Seq(Entries) \cup {NULL}]
      /\ out # "a directory" => \A q \in Procs : file[q] = NULL
      /\ \A q \in Procs : ~desc[q] => logged[q] = NULL
      /\ \A q \in Procs : LogMatches(q)
    BY DEF LogInv, LogTypes, TypeOK
<1>1. ASSUME NEW p \in Procs, ProcNew(p)
      PROVE  LogInv'
    <2>1. CallTypes(p)'
        BY <1>1 DEF ProcNew, ReturnsEntry, CallTypes
    <2>2. /\ UNCHANGED <<out, file, logged>>
          /\ desc' \in [Procs -> BOOLEAN]
          /\ \A q \in Procs : ~desc'[q] => ~desc[q]
        BY <1>0, <1>1 DEF ProcNew
    <2>3. LogTypes' /\ TypeOK'
        BY <1>0, <2>1, <2>2, TypesNext
    <2> QED BY <2>2, <2>3, LogsUntouched
<1>2. ASSUME NEW p \in Procs, JobLogInit(p)
      PROVE  LogInv'
    <2>1. UNCHANGED desc
        BY <1>2 DEF JobLogInit
    <2>2. CASE Returns(p, "init", "none") /\ UNCHANGED <<out, file, logged>>
        <3>1. CallTypes(p)'
            BY <2>2 DEF ReturnsEntry, CallTypes
        <3>2. LogTypes' /\ TypeOK'
            BY <1>0, <2>1, <2>2, <3>1, TypesNext
        <3> QED BY <2>2, <3>2, LogsUntouched
    <2>3. ASSUME NEW dir, NEW log, desc[p], SetUpDirectory(p, dir), Deleted(p, log),
                 Returns(p, "init", IF dir = "none" THEN log ELSE dir)
          PROVE  LogInv'
        <3>1. CallTypes(p)'
            BY <2>3 DEF ReturnsEntry, CallTypes
        <3>2. /\ out' \in {"nothing", "a file", "a directory"}
              /\ out' # "a directory" => out # "a directory"
            BY <1>0, <2>3 DEF SetUpDirectory
        <3>3. /\ \A q \in Procs : LogMatches(q)'
              /\ file' \in [Procs -> Seq(Characters) \cup {NULL}]
              /\ logged' \in [Procs -> Seq(Entries) \cup {NULL}]
              /\ \A q \in Procs : file[q] = NULL => file'[q] = NULL
              /\ \A q \in Procs : q # p => logged'[q] = logged[q]
            BY <2>3, DeletedKeeps
        <3>4. LogTypes' /\ TypeOK'
            BY <1>0, <2>1, <2>3, <3>1, <3>2, <3>3, TypesNext
        <3> QED BY <3>3, <3>4 DEF LogInv
    <2> QED BY <1>2, <2>2, <2>3 DEF JobLogInit
<1>3. ASSUME NEW p \in Procs, JobLogDelete(p)
      PROVE  LogInv'
    <2>1. UNCHANGED <<out, desc>>
        BY <1>3 DEF JobLogDelete
    <2>2. CallTypes(p)'
        BY <1>3 DEF JobLogDelete, ReturnsEntry, CallTypes
    <2>3. CASE UNCHANGED <<file, logged>>
        <3>1. LogTypes' /\ TypeOK'
            BY <1>0, <2>1, <2>2, <2>3, TypesNext
        <3> QED BY <2>3, <3>1, LogsUntouched
    <2>4. ASSUME NEW mishap, desc[p], Deleted(p, mishap)
          PROVE  LogInv'
        <3>1. /\ \A q \in Procs : LogMatches(q)'
              /\ file' \in [Procs -> Seq(Characters) \cup {NULL}]
              /\ logged' \in [Procs -> Seq(Entries) \cup {NULL}]
              /\ \A q \in Procs : file[q] = NULL => file'[q] = NULL
              /\ \A q \in Procs : q # p => logged'[q] = logged[q]
            BY <2>4, DeletedKeeps
        <3>2. LogTypes' /\ TypeOK'
            BY <1>0, <2>1, <2>2, <2>4, <3>1, TypesNext
        <3> QED BY <3>1, <3>2 DEF LogInv
    <2> QED BY <1>3, <2>3, <2>4 DEF JobLogDelete
<1>4. ASSUME NEW p \in Procs, NEW j \in Jobs \cup {NULL}, WriteNothing(p, j)
      PROVE  LogInv'
    <2>0. \E mishap : Returns(p, "write", mishap)
        BY <1>4, Zenon DEF WriteNothing
    <2>1. CallTypes(p)'
        BY <2>0 DEF ReturnsEntry, CallTypes
    <2>2. UNCHANGED <<out, file, desc, logged>>
        BY <1>4 DEF WriteNothing
    <2>3. LogTypes' /\ TypeOK'
        BY <1>0, <2>1, <2>2, TypesNext
    <2> QED BY <2>2, <2>3, LogsUntouched
<1>5. ASSUME NEW p \in Procs, Ready(p), NEW j \in Jobs \cup {NULL},
             WriteEntry(p, j)
      PROVE  LogInv'
    <2>1. \E mishap : Returns(p, "write", mishap)
        BY <1>5, Zenon DEF WriteEntry
    <2>7. CallTypes(p)'
        BY <2>1 DEF ReturnsEntry, CallTypes
    <2>2. UNCHANGED <<out, desc>> /\ out = "a directory" /\ desc[p]
        BY <1>5 DEF WriteEntry
    <2>3. /\ \A q \in Procs : LogMatches(q)'
          /\ file' \in [Procs -> Seq(Characters) \cup {NULL}]
          /\ logged' \in [Procs -> Seq(Entries) \cup {NULL}]
        BY <1>5, WriteEntryKeeps
    <2>4. \A q \in Procs : q # p => logged'[q] = logged[q]
        BY <1>0, <1>5 DEF WriteEntry, Extend
    <2>5. \A q \in Procs : ~desc'[q] => logged'[q] = NULL
        BY <1>0, <2>2, <2>4
    <2>6. LogTypes' /\ TypeOK'
        BY <1>0, <2>7, <2>2, <2>3, <2>5, TypesNext
    <2> QED BY <2>3, <2>6 DEF LogInv
<1>6. ASSUME NEW p \in Procs, ReadNothing(p) \/ ReadEntry(p)
      PROVE  LogInv'
    <2>0. \E num, entry, mishap : ReturnsEntry(p, "read", num, entry, mishap)
        <3>1. CASE ReadNothing(p)
            BY <3>1, Zenon DEF ReadNothing, NoEntry
        <3>2. CASE ReadEntry(p)
            BY <3>2, Zenon DEF ReadEntry
        <3> QED BY <1>6, <3>1, <3>2
    <2>1. CallTypes(p)'
        BY <2>0 DEF ReturnsEntry, CallTypes
    <2>2. UNCHANGED <<out, file, desc, logged>>
        BY <1>6 DEF ReadNothing, ReadEntry
    <2>3. LogTypes' /\ TypeOK'
        BY <1>0, <2>1, <2>2, TypesNext
    <2> QED BY <2>2, <2>3, LogsUntouched
<1>7. CASE UNCHANGED vars
    BY <1>7 DEF LogInv, TypeOK, LogTypes, LogMatches, Opened, vars
<1> QED BY <1>1, <1>2, <1>3, <1>4, <1>5, <1>6, <1>7 DEF Next

\* The types of the state, and no log without a directory to hold it.
THEOREM TypeCorrect == Spec => []TypeOK
<1>1. LogInv => TypeOK
    BY DEF LogInv
<1> QED BY <1>1, InitLogInv, NextLogInv, PTL DEF Spec

-----------------------------------------------------------------------------
(* What is read.                                                           *)

\* A log that is not there is read like one that is empty.
LEMMA OpenedIsRead ==
    ASSUME LogInv, NEW p \in Procs, logged[p] # NULL, NEW n \in Nat,
           \A i \in DOMAIN logged[p] : i <= n + 1 => IsWhole(logged[p][i])
    PROVE  FoundAt(Opened(p), n) =
               IF n \in 0 .. Len(logged[p]) - 1
               THEN Text(logged[p][n + 1]) ELSE NULL
<1>1. logged[p] \in Seq(Entries) /\ Opened(p) \in Seq(Characters)
    BY DEF LogInv, LogTypes, Opened
<1>2. FilledUp(Opened(p), logged[p])
    BY DEF LogInv, LogMatches
<1>3. n < Len(logged[p]) <=> n \in 0 .. Len(logged[p]) - 1
    BY <1>1
<1> QED BY <1>1, <1>2, <1>3, FoundIsWritten

LEMMA NothingInNothing == FoundAt(<< >>, 0) = NULL
BY EntrySizePositive DEF FoundAt

LEMMA InitCall == Init => last.op = "none"
<1>1. Init => last = [proc |-> InitProc, op |-> "none", num |-> 0,
                      entry |-> NULL, mishap |-> "none"]
    BY Zenon DEF Init
<1> QED BY <1>1

\* A call that is not a read has no answer that could be wrong.
LEMMA NotARead ==
    ASSUME NEW p \in Procs, NEW mishap,
           NEW op \in {"proc_new", "init", "delete", "write"},
           Returns(p, op, mishap)
    PROVE  EntriesReadBack'
<1>1. last'.op # "read"
    BY DEF Returns, ReturnsEntry
<1> QED BY <1>1 DEF EntriesReadBack

\* joblog_read_entry, when nothing goes wrong in it.
LEMMA ReadAnswers ==
    ASSUME LogInv, NEW p \in Procs, ReadNothing(p) \/ ReadEntry(p),
           last'.mishap = "none", logged'[p] # NULL,
           \A i \in DOMAIN logged'[p] :
                i <= last'.num + 1 => IsWhole(logged'[p][i])
    PROVE  last'.entry = IF last'.num \in 0 .. Len(logged'[p]) - 1
                         THEN Text(logged'[p][last'.num + 1]) ELSE NULL
<1>1. UNCHANGED <<out, file, desc, logged>>
    BY DEF ReadNothing, ReadEntry
<1>2. desc[p]
    BY <1>1 DEF LogInv, TypeOK
<1>3. CASE ReadEntry(p)
    <2>1. PICK num \in 0 .. MaxEntries[p] :
            ReturnsEntry(p, "read", num, FoundAt(file[p], num), "none")
        BY <1>3, Zenon DEF ReadEntry
    <2>2. Opened(p) = file[p]
        BY <1>3 DEF ReadEntry, Opened
    <2>3. last'.num = num /\ last'.entry = FoundAt(Opened(p), num) /\ num \in Nat
        BY <2>1, <2>2 DEF ReturnsEntry
    <2> QED BY <1>1, <2>3, OpenedIsRead
<1>4. CASE ReadNothing(p)
    <2>1. \/ ReturnsEntry(p, "read", -1, NULL, "none")
          \/ /\ file[p] = NULL
             /\ Returns(p, "read", "none")
          \/ \E mishap \in {"name", "open", "seek", "fgets", "memory"} :
                Returns(p, "read", mishap)
        BY <1>2, <1>4, Zenon DEF ReadNothing, NoEntry
    <2>2. CASE ReturnsEntry(p, "read", -1, NULL, "none")
        <3>1. last'.num = -1 /\ last'.entry = NULL
            BY <2>2 DEF ReturnsEntry
        <3>2. -1 \notin 0 .. Len(logged'[p]) - 1
            OBVIOUS
        <3> QED BY <3>1, <3>2
    <2>3. CASE file[p] = NULL /\ Returns(p, "read", "none")
        <3>1. last'.num = 0 /\ last'.entry = NULL
            BY <2>3 DEF Returns, ReturnsEntry
        <3>2. Opened(p) = << >>
            BY <2>3 DEF Opened
        <3>3. FoundAt(Opened(p), 0) = IF 0 \in 0 .. Len(logged[p]) - 1
                                      THEN Text(logged[p][0 + 1]) ELSE NULL
            BY <1>1, <3>1, OpenedIsRead
        <3> QED BY <1>1, <3>1, <3>2, <3>3, NothingInNothing
    <2>4. CASE \E mishap \in {"name", "open", "seek", "fgets", "memory"} :
                    Returns(p, "read", mishap)
        BY <2>4 DEF Returns, ReturnsEntry
    <2> QED BY <2>1, <2>2, <2>3, <2>4
<1> QED BY <1>3, <1>4

LEMMA NextReadsBack ==
    LogInv /\ EntriesReadBack /\ [Next]_vars => EntriesReadBack'
<1> SUFFICES ASSUME LogInv, EntriesReadBack, [Next]_vars
             PROVE  EntriesReadBack'
    OBVIOUS
<1>1. ASSUME NEW p \in Procs, ProcNew(p)
      PROVE  EntriesReadBack'
    <2>1. \E mishap : Returns(p, "proc_new", mishap)
        BY <1>1, Zenon DEF ProcNew
    <2> QED BY <2>1, NotARead
<1>2. ASSUME NEW p \in Procs, JobLogInit(p)
      PROVE  EntriesReadBack'
    <2>1. \E mishap : Returns(p, "init", mishap)
        BY <1>2, Zenon DEF JobLogInit
    <2> QED BY <2>1, NotARead
<1>3. ASSUME NEW p \in Procs, JobLogDelete(p)
      PROVE  EntriesReadBack'
    <2>1. \E mishap : Returns(p, "delete", mishap)
        BY <1>3, Zenon DEF JobLogDelete
    <2> QED BY <2>1, NotARead
<1>4. ASSUME NEW p \in Procs, NEW j \in Jobs \cup {NULL},
             WriteNothing(p, j) \/ WriteEntry(p, j)
      PROVE  EntriesReadBack'
    <2>1. \E mishap : Returns(p, "write", mishap)
        <3>1. CASE WriteNothing(p, j)
            BY <3>1, Zenon DEF WriteNothing
        <3>2. CASE WriteEntry(p, j)
            BY <3>2, Zenon DEF WriteEntry
        <3> QED BY <1>4, <3>1, <3>2
    <2> QED BY <2>1, NotARead
<1>5. ASSUME NEW p \in Procs, ReadNothing(p) \/ ReadEntry(p)
      PROVE  EntriesReadBack'
    <2>1. last'.proc = p
        <3>1. CASE ReadNothing(p)
            BY <3>1 DEF ReadNothing, NoEntry, Returns, ReturnsEntry
        <3>2. CASE ReadEntry(p)
            BY <3>2 DEF ReadEntry, ReturnsEntry
        <3> QED BY <1>5, <3>1, <3>2
    <2>2. ASSUME last'.mishap = "none", logged'[p] # NULL,
                 \A i \in DOMAIN logged'[p] :
                    i <= last'.num + 1 => IsWhole(logged'[p][i])
          PROVE  last'.entry = IF last'.num \in 0 .. Len(logged'[p]) - 1
                               THEN Text(logged'[p][last'.num + 1]) ELSE NULL
        BY <1>5, <2>2, ReadAnswers
    <2> QED BY <2>1, <2>2 DEF EntriesReadBack
<1>6. CASE UNCHANGED vars
    BY <1>6 DEF EntriesReadBack, vars
<1> QED BY <1>1, <1>2, <1>3, <1>4, <1>5, <1>6 DEF Next

\* Entry number n of a log is the n-th that its process has written, for every
\* label, label size and number of entries, as long as the entries up to it
\* are whole: what was written in part, or of another size, or found in the log
\* and not removed, puts everything after it out of place, and of that nothing
\* is said (joblog_write_entry, joblog_read_entry; joblog.h:42-46, 60-69).
THEOREM LogReadsBack == Spec => []EntriesReadBack
<1>1. Init => EntriesReadBack
    BY InitCall DEF EntriesReadBack
<1> QED BY <1>1, InitLogInv, NextLogInv, NextReadsBack, PTL DEF Spec
=============================================================================
