--------------------------- MODULE MCSemJobQueue ---------------------------
(* Small instances of SemJobQueue for TLC.                                 *)
EXTENDS SemJobQueue, TLC

CONSTANTS
    ProducerCalls, ConsumerCalls, ObserverCalls     \* the calls of each one

MCCalls ==
    [p \in Procs |-> IF p \in Producers THEN ProducerCalls
                     ELSE IF p \in Consumers THEN ConsumerCalls
                     ELSE ObserverCalls]

\* Producers are interchangeable, and so are consumers.
Symmetry == Permutations(Producers) \cup Permutations(Consumers)
=============================================================================
