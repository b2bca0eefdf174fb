-------------------------------- MODULE Job --------------------------------
(***************************************************************************)
(* The jobs of job.c, as values: what each function makes of a job_t.  A   *)
(* string is the sequence of its characters before the terminating nul;    *)
(* the char array of a job has room for NameSize - 1 of them.  A job has   *)
(* one identity, id, for the fields pid and id, which every function       *)
(* treats alike.                                                           *)
(***************************************************************************)
EXTENDS Integers, Sequences

CONSTANTS
    NameSize,   \* MAX_NAME_SIZE (sim_config.h:8)
    PAD,        \* PAD_CHAR (sim_config.h:14)
    NULL

ASSUME NameSizeAssumption == NameSize \in Nat /\ NameSize > 1

\* A label of a job that a program passes: NULL is no string at all.
GivenText(label) == IF label = NULL THEN << >> ELSE label

\* Mutant: a text that is too short is not padded.
PaddedNot(text) ==
    [i \in 1 .. (IF Len(text) < NameSize THEN Len(text) ELSE NameSize - 1) |->
        text[i]]

\* job_set: the label is cut or padded to NameSize - 1 characters.
Padded(text) ==
    [i \in 1 .. NameSize - 1 |-> IF i <= Len(text) THEN text[i] ELSE PAD]

\* job_set, and job_new when there is memory.
JobSet(id, label) == [id |-> id, label |-> Padded(GivenText(label))]

\* job_init: 0 and an array of nuls.
JobInit == [id |-> 0, label |-> << >>]

\* job_copy to another object, or to new memory: the source's fields are set
\* in the copy.  A source that is NULL has no copy.
JobCopy(src) == IF src = NULL THEN NULL ELSE JobSet(src.id, src.label)

\* job_is_equal: two NULL pointers, or two jobs that agree in every field.
JobIsEqual(j1, j2) ==
    \/ j1 = NULL /\ j2 = NULL
    \/ /\ j1 # NULL /\ j2 # NULL
       /\ j1.id = j2.id
       /\ j1.label = j2.label
=============================================================================
