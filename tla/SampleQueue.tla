---------------------------- MODULE SampleQueue ----------------------------
(***************************************************************************)
(* The ring of samples between the data thread and the draw thread: the    *)
(* queue of graphics.c.  Each operation runs under queue_mutex.            *)
(***************************************************************************)
EXTENDS Integers, Sequences

CONSTANTS
    MAX_QUEUE,  \* places in the ring, 100 in graphics.c
    Blank       \* the sample of zeros

ASSUME MaxQueueAssumption == MAX_QUEUE \in Nat \ {0, 1}

VARIABLES head, tail, data

queueVars == <<head, tail, data>>

Places == 0 .. MAX_QUEUE - 1

\* Mutant: the ring has no end.
NextPlaceUnwrapped(place) == place + 1

NextPlace(place) == (place + 1) % MAX_QUEUE

QueueInit == head = 0 /\ tail = 0 /\ data = [place \in Places |-> Blank]

QueueEmpty == tail = head

\* Mutant: the sample is read after the tail was moved.
QueueFrontMoved == data[NextPlace(tail)]

QueueFront == data[tail]

QueueRead ==
    /\ ~QueueEmpty
    /\ tail' = NextPlace(tail)
    /\ UNCHANGED <<head, data>>

\* Mutant: the oldest sample is not given up when the ring is full.
QueueWriteOverrun(sample) ==
    /\ data' = [data EXCEPT ![head] = sample]
    /\ head' = NextPlace(head)
    /\ UNCHANGED tail

QueueWrite(sample) ==
    /\ data' = [data EXCEPT ![head] = sample]
    /\ head' = NextPlace(head)
    /\ tail' = IF head' = tail THEN NextPlace(tail) ELSE tail

ClearQueue == head' = 0 /\ tail' = 0 /\ data' = [place \in Places |-> Blank]

-----------------------------------------------------------------------------
(* The samples in the ring, oldest first. *)

QueueLength == IF head >= tail THEN head - tail ELSE head - tail + MAX_QUEUE

Queued == [i \in 1 .. QueueLength |-> data[(tail + i - 1) % MAX_QUEUE]]

=============================================================================
