--------------------------- MODULE GraphicsProofs ---------------------------
(***************************************************************************)
(* The graph, proved for every size of the ring, every width of the page   *)
(* and any number of restarts: the ring is the queue it should be, samples *)
(* are drawn in order, and on the graph as long as the time grows.         *)
(***************************************************************************)
EXTENDS Graphics, SequenceTheorems, TLAPS

-----------------------------------------------------------------------------
(* Places in the ring. *)

LEMMA RingIndex ==
    ASSUME NEW x \in Nat, x < 2 * MAX_QUEUE
    PROVE  x % MAX_QUEUE = IF x < MAX_QUEUE THEN x ELSE x - MAX_QUEUE
<1> USE MaxQueueAssumption
<1>1. CASE x < MAX_QUEUE
  BY <1>1
<1>2. CASE x >= MAX_QUEUE
  BY <1>2
<1> QED
  BY <1>1, <1>2

LEMMA NextPlaceIs ==
    ASSUME NEW place \in Places
    PROVE  NextPlace(place) = IF place = MAX_QUEUE - 1 THEN 0 ELSE place + 1
BY MaxQueueAssumption, RingIndex DEF Places, NextPlace

RingOK == head \in Places /\ tail \in Places /\ data \in [Places -> Samples]

\* QueueLength and Queued of a ring with head h, tail t and contents d, and
\* the place of its i-th sample.
RingLength(h, t) == IF h >= t THEN h - t ELSE h - t + MAX_QUEUE

Ring(h, t, d) == [i \in 1 .. RingLength(h, t) |-> d[(t + i - 1) % MAX_QUEUE]]

PlaceOf(t, i) == IF t + i - 1 < MAX_QUEUE THEN t + i - 1 ELSE t + i - 1 - MAX_QUEUE

LEMMA RingSequence ==
    ASSUME NEW h \in Places, NEW t \in Places, NEW d \in [Places -> Samples]
    PROVE  /\ RingLength(h, t) \in 0 .. MAX_QUEUE - 1
           /\ Ring(h, t, d) \in Seq(Samples)
           /\ Len(Ring(h, t, d)) = RingLength(h, t)
           /\ \A i \in 1 .. RingLength(h, t) : Ring(h, t, d)[i] = d[PlaceOf(t, i)]
<1> USE MaxQueueAssumption
<1> DEFINE n == RingLength(h, t)
           q == Ring(h, t, d)
<1>1. n \in 0 .. MAX_QUEUE - 1
  BY DEF Places, RingLength
<1>0. q = [i \in 1 .. n |-> d[(t + i - 1) % MAX_QUEUE]]
  BY DEF Ring
<1> HIDE DEF n, q
<1>2. ASSUME NEW i \in 1 .. n
      PROVE  (t + i - 1) % MAX_QUEUE = PlaceOf(t, i) /\ PlaceOf(t, i) \in Places
  <2>1. PICK x \in Nat : x = t + i - 1 /\ x < 2 * MAX_QUEUE
    BY <1>1 DEF Places
  <2>2. x % MAX_QUEUE = IF x < MAX_QUEUE THEN x ELSE x - MAX_QUEUE
    BY <2>1, RingIndex
  <2> QED
    BY <1>1, <2>1, <2>2 DEF Places, PlaceOf
<1>3. \A i \in 1 .. n : d[(t + i - 1) % MAX_QUEUE] \in Samples
  BY <1>2
<1>4. q \in Seq(Samples) /\ Len(q) = n
  BY <1>0, <1>1, <1>3, IsASeq
<1>5. \A i \in 1 .. n : q[i] = d[PlaceOf(t, i)]
  BY <1>0, <1>2
<1> QED
  BY <1>1, <1>4, <1>5 DEF n, q

LEMMA QueuedIsSeq ==
    ASSUME RingOK
    PROVE  /\ QueueLength \in 0 .. MAX_QUEUE - 1
           /\ Queued \in Seq(Samples)
           /\ Len(Queued) = QueueLength
           /\ \A i \in 1 .. QueueLength : Queued[i] = data[PlaceOf(tail, i)]
<1>1. QueueLength = RingLength(head, tail) /\ Queued = Ring(head, tail, data)
  BY DEF QueueLength, Queued, RingLength, Ring
<1> QED
  BY <1>1, RingSequence DEF RingOK

LEMMA QueuedIsSeqNext ==
    ASSUME RingOK'
    PROVE  /\ QueueLength' \in 0 .. MAX_QUEUE - 1
           /\ Queued' \in Seq(Samples)
           /\ Len(Queued') = QueueLength'
           /\ \A i \in 1 .. QueueLength' : Queued'[i] = data'[PlaceOf(tail', i)]
<1>1. QueueLength' = RingLength(head', tail') /\ Queued' = Ring(head', tail', data')
  BY DEF QueueLength, Queued, RingLength, Ring
<1> QED
  BY <1>1, RingSequence DEF RingOK

LEMMA EmptyQueued ==
    ASSUME RingOK
    PROVE  QueueEmpty <=> Queued = <<>>
<1>1. QueueEmpty <=> QueueLength = 0
  BY MaxQueueAssumption DEF RingOK, QueueEmpty, QueueLength, Places
<1> QED
  BY <1>1, QueuedIsSeq, EmptySeq

\* queue_read takes the first sample.
LEMMA QueueReadTakes ==
    ASSUME RingOK, QueueRead
    PROVE  /\ RingOK'
           /\ Queued # <<>>
           /\ QueueFront = Queued[1]
           /\ Queued' = Tail(Queued)
<1> USE MaxQueueAssumption
<1>1. Queued # <<>> /\ QueueLength # 0
  BY EmptyQueued, QueuedIsSeq DEF QueueRead
<1>2. QueueFront = Queued[1]
  <2>1. PlaceOf(tail, 1) = tail
    BY DEF RingOK, PlaceOf, Places
  <2> QED
    BY <1>1, <2>1, QueuedIsSeq DEF QueueFront
<1>3. RingOK' /\ UNCHANGED <<head, data>>
      /\ tail' = IF tail = MAX_QUEUE - 1 THEN 0 ELSE tail + 1
  BY NextPlaceIs DEF RingOK, QueueRead, Places
<1>4. QueueLength' = QueueLength - 1
  BY <1>1, <1>3 DEF RingOK, QueueLength, Places
<1>5. \A i \in 1 .. QueueLength - 1 : Queued'[i] = Queued[i + 1]
  <2>1. \A i \in 1 .. QueueLength - 1 : PlaceOf(tail', i) = PlaceOf(tail, i + 1)
    BY <1>3, QueuedIsSeq DEF RingOK, PlaceOf, Places
  <2> QED
    BY <1>3, <1>4, <2>1, QueuedIsSeq, QueuedIsSeqNext
<1>6. /\ Tail(Queued) \in Seq(Samples)
      /\ Len(Tail(Queued)) = QueueLength - 1
      /\ \A i \in 1 .. QueueLength - 1 : Tail(Queued)[i] = Queued[i + 1]
  BY <1>1, QueuedIsSeq, HeadTailProperties
<1>7. Queued' = Tail(Queued)
  BY <1>3, <1>4, <1>5, <1>6, QueuedIsSeqNext, SeqEqual
<1> QED
  BY <1>1, <1>2, <1>3, <1>7

\* The samples lie in front of the head, which is the place for the next one.
LEMMA PlacesBeforeHead ==
    ASSUME RingOK
    PROVE  /\ PlaceOf(tail, QueueLength + 1) = head
           /\ \A i \in 1 .. QueueLength : PlaceOf(tail, i) \in Places \ {head}
           /\ NextPlace(head) = tail <=> QueueLength = MAX_QUEUE - 1
BY MaxQueueAssumption, NextPlaceIs DEF RingOK, QueueLength, PlaceOf, Places

\* queue_write adds a sample at the end, and drops the first one for it.
LEMMA QueueWritePuts ==
    ASSUME RingOK, NEW s \in Samples, QueueWrite(s)
    PROVE  /\ RingOK'
           /\ Queued' = Append(IF Len(Queued) = MAX_QUEUE - 1 THEN Tail(Queued)
                                                              ELSE Queued, s)
<1> USE MaxQueueAssumption
<1>1. /\ RingOK'
      /\ data' = [data EXCEPT ![head] = s]
      /\ head' = IF head = MAX_QUEUE - 1 THEN 0 ELSE head + 1
      /\ tail' = IF head' = tail THEN IF tail = MAX_QUEUE - 1 THEN 0 ELSE tail + 1 ELSE tail
  BY NextPlaceIs DEF RingOK, QueueWrite, Places
<1>2. data'[head] = s /\ \A place \in Places \ {head} : data'[place] = data[place]
  BY <1>1 DEF RingOK
<1>3. CASE Len(Queued) = MAX_QUEUE - 1
  <2>1. QueueLength = MAX_QUEUE - 1 /\ head' = tail
    BY <1>3, QueuedIsSeq, PlacesBeforeHead DEF QueueWrite
  <2>2. QueueLength' = MAX_QUEUE - 1
    BY <1>1, <2>1 DEF RingOK, QueueLength, Places
  <2>3. /\ \A i \in 1 .. MAX_QUEUE - 2 : PlaceOf(tail', i) = PlaceOf(tail, i + 1)
        /\ PlaceOf(tail', MAX_QUEUE - 1) = head
    BY <1>1, <2>1 DEF RingOK, PlaceOf, Places
  <2>4. \A i \in 1 .. MAX_QUEUE - 2 : Queued'[i] = Queued[i + 1]
    <3> SUFFICES ASSUME NEW i \in 1 .. MAX_QUEUE - 2 PROVE Queued'[i] = Queued[i + 1]
      OBVIOUS
    <3>1. i + 1 \in 1 .. QueueLength /\ i \in 1 .. QueueLength'
      BY <2>1, <2>2
    <3> QED
      BY <1>1, <1>2, <2>3, <3>1, QueuedIsSeq, QueuedIsSeqNext, PlacesBeforeHead
  <2>5. Queued'[MAX_QUEUE - 1] = s
    BY <1>1, <1>2, <2>2, <2>3, QueuedIsSeqNext
  <2>6. Queued # <<>>
    BY <2>1, QueuedIsSeq, EmptySeq
  <2>7. /\ Tail(Queued) \in Seq(Samples)
        /\ Len(Tail(Queued)) = MAX_QUEUE - 2
        /\ \A i \in 1 .. MAX_QUEUE - 2 : Tail(Queued)[i] = Queued[i + 1]
    BY <2>1, <2>6, QueuedIsSeq, HeadTailProperties
  <2>8. /\ Append(Tail(Queued), s) \in Seq(Samples)
        /\ Len(Append(Tail(Queued), s)) = MAX_QUEUE - 1
        /\ \A i \in 1 .. MAX_QUEUE - 2 : Append(Tail(Queued), s)[i] = Queued[i + 1]
        /\ Append(Tail(Queued), s)[MAX_QUEUE - 1] = s
    BY <2>7, AppendProperties
  <2>9. \A i \in 1 .. MAX_QUEUE - 1 : i \in 1 .. MAX_QUEUE - 2 \/ i = MAX_QUEUE - 1
    OBVIOUS
  <2> QED
    BY <1>1, <1>3, <2>2, <2>4, <2>5, <2>8, <2>9, QueuedIsSeqNext, SeqEqual
<1>4. CASE Len(Queued) # MAX_QUEUE - 1
  <2>1. QueueLength # MAX_QUEUE - 1 /\ head' # tail /\ tail' = tail
    BY <1>4, QueuedIsSeq, PlacesBeforeHead DEF QueueWrite
  <2>2. QueueLength' = QueueLength + 1
    BY <1>1, <2>1 DEF RingOK, QueueLength, Places
  <2>3. \A i \in 1 .. QueueLength : Queued'[i] = Queued[i]
    <3> SUFFICES ASSUME NEW i \in 1 .. QueueLength PROVE Queued'[i] = Queued[i]
      OBVIOUS
    <3>1. i \in 1 .. QueueLength'
      BY <2>2, QueuedIsSeq
    <3> QED
      BY <1>1, <1>2, <2>1, <3>1, QueuedIsSeq, QueuedIsSeqNext, PlacesBeforeHead
  <2>4. Queued'[QueueLength + 1] = s
    <3>1. QueueLength + 1 \in 1 .. QueueLength'
      BY <2>2, QueuedIsSeq
    <3> QED
      BY <1>1, <1>2, <2>1, <3>1, QueuedIsSeqNext, PlacesBeforeHead
  <2>5. /\ Append(Queued, s) \in Seq(Samples)
        /\ Len(Append(Queued, s)) = QueueLength + 1
        /\ \A i \in 1 .. QueueLength : Append(Queued, s)[i] = Queued[i]
        /\ Append(Queued, s)[QueueLength + 1] = s
    BY QueuedIsSeq, AppendProperties
  <2>6. \A i \in 1 .. QueueLength + 1 : i \in 1 .. QueueLength \/ i = QueueLength + 1
    BY QueuedIsSeq
  <2> QED
    BY <1>1, <1>4, <2>2, <2>3, <2>4, <2>5, <2>6, QueuedIsSeqNext, SeqEqual
<1> QED
  BY <1>1, <1>3, <1>4

LEMMA ClearQueueClears ==
    ASSUME ClearQueue
    PROVE  RingOK' /\ Queued' = <<>>
<1>1. RingOK' /\ QueueLength' = 0
  BY MaxQueueAssumption, GraphicsAssumption
     DEF ClearQueue, RingOK, QueueLength, Places, Samples
<1> QED
  BY <1>1, QueuedIsSeqNext, EmptySeq

-----------------------------------------------------------------------------
(* Types. *)

Points == [number : Nat, time : Nat, x : Int]

LEMMA DrawnPoint ==
    ASSUME NEW s \in Samples, current_mod \in Nat
    PROVE  [number |-> s.number, time |-> s.time, x |-> s.time - current_mod * WIDTH] \in Points
<1>1. current_mod * WIDTH \in Nat
  BY GraphicsAssumption
<1> QED
  BY <1>1 DEF Samples, Points

LEMMA TypeInit == Init => TypeOK
BY MaxQueueAssumption, GraphicsAssumption
   DEF Init, QueueInit, TypeOK, Samples, Places

LEMMA DataThreadKeepsType ==
    ASSUME TypeOK, DataThread
    PROVE  TypeOK'
<1> USE DEF TypeOK
<1>1. RingOK /\ Blank \in Samples
  BY GraphicsAssumption DEF RingOK, Samples
<1>2. CASE TakeSample
  <2>1. PICK step \in 0 .. MaxStep : time' = time + step
    BY <1>2 DEF TakeSample
  <2>2. time' \in Nat /\ taken' \in Nat /\ sample' \in Samples
    BY <1>2, <2>1 DEF TakeSample, Samples
  <2> QED
    BY <1>2, <2>2 DEF TakeSample, queueVars
<1>3. CASE TryLockSdl
  BY <1>3 DEF TryLockSdl, queueVars, tankVars
<1>4. CASE QueueSample
  <2>1. RingOK'
    BY <1>1, <1>4, QueueWritePuts DEF QueueSample
  <2> QED
    BY <1>1, <1>4, <2>1 DEF QueueSample, tankVars, RingOK
<1>5. CASE NextEntry
  <2>1. CASE QueueRead /\ entry' = QueueFront /\ data_thread' = "drawing"
    <3>1. RingOK' /\ QueueFront \in Samples
      BY <1>1, <2>1, QueueReadTakes DEF QueueFront, RingOK
    <3> QED
      BY <1>5, <2>1, <3>1 DEF NextEntry, tankVars, RingOK
  <2>2. CASE entry' = sample /\ data_thread' = "last" /\ UNCHANGED queueVars
    BY <1>5, <2>2 DEF NextEntry, tankVars, queueVars
  <2> QED
    BY <1>5, <2>1, <2>2 DEF NextEntry
<1>6. CASE DrawEntry
  <2>1. ModularDatadraw(entry)
    BY <1>6 DEF DrawEntry
  <2>2. current_mod' \in Nat /\ new_graph_flag' \in 0 .. 2
    BY <2>1 DEF ModularDatadraw
  <2>3. canvas' \in Seq(Points)
    <3> DEFINE point == [number |-> entry.number, time |-> entry.time,
                         x |-> entry.time - current_mod * WIDTH]
    <3>1. canvas \in Seq(Points) /\ point \in Points
      BY DrawnPoint DEF Points
    <3>2. canvas' = canvas \/ canvas' = Append(canvas, point)
      BY <2>1 DEF ModularDatadraw
    <3> HIDE DEF point
    <3>3. Append(canvas, point) \in Seq(Points)
      BY <3>1, AppendProperties
    <3> QED
      BY <3>1, <3>2, <3>3
  <2> QED
    BY <1>1, <1>6, <2>2, <2>3 DEF DrawEntry, queueVars, tankVars, Points
<1> QED
  BY <1>2, <1>3, <1>4, <1>5, <1>6 DEF DataThread

LEMMA OtherThreadsKeepType ==
    ASSUME TypeOK, DrawThread \/ MainThread \/ IpThread \/ UNCHANGED graphicsVars
    PROVE  TypeOK'
<1> USE DEF TypeOK
<1>1. CASE ReadFlag
  BY <1>1 DEF ReadFlag, queueVars, tankVars, dataVars
<1>2. CASE LockSdl
  BY <1>2 DEF LockSdl, queueVars, tankVars, dataVars
<1>3. CASE Flip
  BY <1>3 DEF Flip, queueVars, tankVars, dataVars
<1>4. CASE NewGraph
  BY <1>4, EmptySeq DEF NewGraph, queueVars, tankVars, dataVars
<1>5. CASE GraphRecreated
  BY <1>5 DEF GraphRecreated, queueVars, tankVars, dataVars
<1>6. CASE EmptyQueue
  <2>1. RingOK'
    BY <1>6, ClearQueueClears DEF EmptyQueue
  <2> QED
    BY <1>6, <2>1 DEF EmptyQueue, tankVars, dataVars, RingOK
<1>7. CASE MainThread
  BY <1>7 DEF MainThread, LookForEvents, EventsSeen, queueVars, tankVars, dataVars
<1>8. CASE IpThread
  <2>1. restarting' \in BOOLEAN
    BY <1>8 DEF IpThread, RestartTank, SetRecreateGraph
  <2>2. run' \in Nat /\ time' \in Nat
    BY <1>8 DEF IpThread, RestartTank, SetRecreateGraph
  <2>3. new_graph_flag' \in 0 .. 2
    BY <1>8 DEF IpThread, RestartTank, SetRecreateGraph
  <2> QED
    BY <1>8, <2>1, <2>2, <2>3 DEF IpThread, RestartTank, SetRecreateGraph, queueVars, dataVars
<1>9. CASE UNCHANGED graphicsVars
  BY <1>9 DEF graphicsVars, queueVars, tankVars, dataVars
<1> QED
  BY <1>1, <1>2, <1>3, <1>4, <1>5, <1>6, <1>7, <1>8, <1>9 DEF DrawThread

LEMMA TypeNext ==
    ASSUME TypeOK, [Next]_graphicsVars
    PROVE  TypeOK'
BY DataThreadKeepsType, OtherThreadsKeepType DEF Next

(* Every variable of the graph has its type, the head and the tail of the  *)
(* ring always being places of it (graphics.c).                            *)
THEOREM GraphicsTypeCorrect == Spec => []TypeOK
BY TypeInit, TypeNext, PTL DEF Spec

-----------------------------------------------------------------------------
(* Mutual exclusion. *)

\* Who holds sdl_mutex is where the code of its thread says.
MutexInv ==
    /\ Drawing <=> sdl_mutex = "data"
    /\ sdl_mutex = "draw" => draw_thread \in {"flip", "clear", "recreate"}

LEMMA MutexNext ==
    ASSUME TypeOK, MutexInv, [Next]_graphicsVars
    PROVE  MutexInv'
<1> USE DEF MutexInv, Drawing
<1>1. CASE DataThread
  BY <1>1
     DEF DataThread, TakeSample, TryLockSdl, QueueSample, NextEntry, DrawEntry, TypeOK
<1>2. CASE DrawThread
  BY <1>2
     DEF DrawThread, ReadFlag, LockSdl, Flip, NewGraph, GraphRecreated, EmptyQueue, dataVars
<1>3. CASE MainThread
  BY <1>3 DEF MainThread, LookForEvents, EventsSeen, dataVars
<1>4. CASE IpThread
  BY <1>4 DEF IpThread, RestartTank, SetRecreateGraph, dataVars
<1>5. CASE UNCHANGED graphicsVars
  BY <1>5 DEF graphicsVars, dataVars
<1> QED
  BY <1>1, <1>2, <1>3, <1>4, <1>5 DEF Next

\* Samples are only added to the graph, unless it is made anew.
LEMMA DrawnIsAppended ==
    ASSUME TypeOK, DataThread, canvas' = <<>>
    PROVE  canvas = <<>>
<1>1. CASE DrawEntry
  <2>1. ModularDatadraw(entry)
    BY <1>1 DEF DrawEntry
  <2> DEFINE point == [number |-> entry.number, time |-> entry.time,
                       x |-> entry.time - current_mod * WIDTH]
  <2>2. canvas \in Seq(Points) /\ point \in Points
    BY DrawnPoint DEF TypeOK, Points
  <2>3. canvas' = canvas \/ canvas' = Append(canvas, point)
    BY <2>1 DEF ModularDatadraw
  <2> HIDE DEF point
  <2>4. Append(canvas, point) # <<>>
    BY <2>2, AppendProperties
  <2> QED
    BY <2>3, <2>4
<1>2. CASE ~DrawEntry
  BY <1>2 DEF DataThread, TakeSample, TryLockSdl, QueueSample, NextEntry
<1> QED
  BY <1>1, <1>2

(* The graph is never freed while the data thread draws on it: sdl_mutex   *)
(* excludes the draw thread from trylock to unlock, whenever it read the   *)
(* flag (update_graph_data, clear_graph).                                  *)
THEOREM GraphIsKeptWhileDrawing == Spec => GraphKeptWhileDrawing
<1>1. Init => MutexInv
  BY DEF Init, MutexInv, Drawing
<1>2. ASSUME TypeOK, MutexInv, [Next]_graphicsVars
      PROVE  [Drawing => (canvas' = <<>> => canvas = <<>>)]_graphicsVars
  <2> SUFFICES ASSUME Next, Drawing, canvas' = <<>> PROVE canvas = <<>>
    BY <1>2
  <2>1. CASE DataThread
    BY <1>2, <2>1, DrawnIsAppended
  <2>2. CASE DrawThread
    <3>1. ~NewGraph
      BY <1>2 DEF MutexInv, NewGraph
    <3> QED
      BY <2>2, <3>1 DEF DrawThread, ReadFlag, LockSdl, Flip, GraphRecreated, EmptyQueue
  <2>3. CASE MainThread \/ IpThread
    BY <2>3
       DEF MainThread, LookForEvents, EventsSeen, IpThread, RestartTank, SetRecreateGraph
  <2> QED
    BY <2>1, <2>2, <2>3 DEF Next
<1> QED
  BY <1>1, <1>2, GraphicsTypeCorrect, MutexNext, PTL DEF Spec, GraphKeptWhileDrawing

-----------------------------------------------------------------------------
(* The ring is the queue it should be. *)

Clearing == draw_thread = "emptying"

\* What a step does to the samples in the ring.
LEMMA QueueSteps ==
    ASSUME TypeOK, [Next]_graphicsVars
    PROVE  \/ /\ QueueSample
              /\ Queued' = Append(IF Len(Queued) = MAX_QUEUE - 1 THEN Tail(Queued)
                                                                 ELSE Queued, sample)
              /\ Clearing' = Clearing
           \/ /\ NextEntry
              /\ Queued # <<>>
              /\ entry' = Queued[1]
              /\ data_thread' = "drawing"
              /\ Queued' = Tail(Queued)
              /\ Clearing' = Clearing
           \/ /\ EmptyQueue
              /\ Clearing /\ ~Clearing'
              /\ Queued' = <<>>
           \/ /\ UNCHANGED queueVars
              /\ Queued' = Queued
              /\ Clearing' => Clearing \/ GraphRecreated
              /\ Clearing => Clearing'
<1>1. RingOK
  BY DEF TypeOK, RingOK
<1>2. CASE QueueSample
  BY <1>1, <1>2, QueueWritePuts DEF QueueSample, TypeOK, Clearing
<1>3. CASE NextEntry /\ QueueRead /\ entry' = QueueFront /\ data_thread' = "drawing"
  BY <1>1, <1>3, QueueReadTakes DEF NextEntry, Clearing
<1>4. CASE EmptyQueue
  BY <1>4, ClearQueueClears DEF EmptyQueue, Clearing
<1>5. CASE ~QueueSample /\ ~(NextEntry /\ QueueRead /\ entry' = QueueFront
                                      /\ data_thread' = "drawing") /\ ~EmptyQueue
  <2>1. /\ UNCHANGED queueVars
        /\ Clearing' => Clearing \/ GraphRecreated
        /\ Clearing => Clearing'
    BY <1>5
       DEF Next, DataThread, TakeSample, TryLockSdl, NextEntry, DrawEntry, DrawThread,
           ReadFlag, LockSdl, Flip, NewGraph, GraphRecreated, MainThread, LookForEvents,
           EventsSeen, IpThread, RestartTank, SetRecreateGraph, graphicsVars, queueVars,
           Clearing, TypeOK
  <2>2. Queued' = Queued
    BY <2>1 DEF queueVars, Queued, QueueLength
  <2> QED
    BY <2>1, <2>2
<1> QED
  BY <1>2, <1>3, <1>4, <1>5

(* Whatever the threads do, the ring is a first-in-first-out queue that    *)
(* drops its oldest sample when it is full and is emptied only with a      *)
(* graph that is recreated, for every size of the ring (queue_read,        *)
(* queue_write, clear_queue).                                              *)
THEOREM RingIsDropQueue == Spec => ImplementsDropQueue
<1>1. Init => AbstractQueue!Init
  <2> SUFFICES ASSUME Init PROVE AbstractQueue!Init
    OBVIOUS
  <2>1. RingOK /\ QueueEmpty
    BY TypeInit DEF Init, QueueInit, QueueEmpty, RingOK, TypeOK
  <2> QED
    BY <2>1, EmptyQueued DEF Init, AbstractQueue!Init
<1>2. ASSUME TypeOK, [Next]_graphicsVars
      PROVE  [AbstractQueue!Next]_<<Queued, Clearing>>
  <2>1. Queued \in Seq(Samples) /\ sample \in Samples
    BY <1>2, QueuedIsSeq DEF TypeOK, RingOK
  <2>2. CASE /\ Queued' = Append(IF Len(Queued) = MAX_QUEUE - 1 THEN Tail(Queued)
                                                                ELSE Queued, sample)
             /\ Clearing' = Clearing
    <3> DEFINE kept == IF Len(Queued) = MAX_QUEUE - 1 THEN Tail(Queued) ELSE Queued
    <3>1. kept \in Seq(Samples)
      <4>1. CASE Len(Queued) = MAX_QUEUE - 1
        <5>1. Queued # <<>>
          BY <4>1, MaxQueueAssumption, EmptySeq
        <5> QED
          BY <2>1, <4>1, <5>1, HeadTailProperties
      <4>2. CASE Len(Queued) # MAX_QUEUE - 1
        BY <2>1, <4>2
      <4> QED
        BY <4>1, <4>2
    <3> HIDE DEF kept
    <3>2. Queued' # <<>> /\ Queued'[Len(Queued')] = sample
      <4>1. Queued' = Append(kept, sample)
        BY <2>2 DEF kept
      <4>2. Len(kept) \in Nat
        BY <3>1
      <4> QED
        BY <2>1, <3>1, <4>1, <4>2, AppendProperties
    <3>3. AbstractQueue!Put(Queued'[Len(Queued')])
      BY <2>2, <3>2 DEF AbstractQueue!Put, Clearing
    <3> QED
      BY <3>2, <3>3 DEF AbstractQueue!Next
  <2>3. CASE Queued # <<>> /\ Queued' = Tail(Queued) /\ Clearing' = Clearing
    BY <2>3 DEF AbstractQueue!Next, AbstractQueue!Take, Clearing
  <2>4. CASE Clearing /\ ~Clearing' /\ Queued' = <<>>
    BY <2>4 DEF AbstractQueue!Next, AbstractQueue!Clear, Clearing
  <2>5. CASE Queued' = Queued /\ (Clearing => Clearing')
    BY <2>5 DEF AbstractQueue!Next, AbstractQueue!AskToClear, Clearing
  <2> QED
    BY <1>2, <2>2, <2>3, <2>4, <2>5, QueueSteps
<1> QED
  BY <1>1, <1>2, GraphicsTypeCorrect, PTL
     DEF Spec, ImplementsDropQueue, AbstractQueue!Spec, Clearing

-----------------------------------------------------------------------------
(* The inductive invariant: everything that was drawn was taken before     *)
(* what is being drawn, that before what waits in the ring, in its order,  *)
(* that before the sample in hand, and all of it up to now.                *)

TimeGrows == program = "client" \/ run = 0

\* s was taken before t, and if the time only grows it was not larger then.
Ordered(grows, s, t) == Before(s, t) /\ (grows => s.time <= t.time)

\* s is one of the first n samples, taken up to now if the time only grows.
UpTo(n, now, grows, s) ==
    /\ s.number <= n
    /\ grows => s.time <= now

Precedes(s, t) == Ordered(TimeGrows, s, t)

Past(s) == UpTo(taken, time, TimeGrows, s)

InHand == data_thread # "idle"

QueueOrder ==
    /\ \A i \in 1 .. Len(Queued) : Past(Queued[i])
    /\ \A i, j \in 1 .. Len(Queued) : i < j => Precedes(Queued[i], Queued[j])
    /\ InHand => Past(sample) /\ \A i \in 1 .. Len(Queued) : Precedes(Queued[i], sample)

EntryOrder ==
    /\ data_thread = "drawing" =>
           /\ Precedes(entry, sample)
           /\ \A i \in 1 .. Len(Queued) : Precedes(entry, Queued[i])
    /\ data_thread = "last" => entry = sample /\ Queued = <<>>

CanvasOrder ==
    /\ \A c \in 1 .. Len(canvas) : Past(canvas[c])
    /\ \A c \in 1 .. Len(canvas), i \in 1 .. Len(Queued) : Precedes(canvas[c], Queued[i])
    /\ InHand => \A c \in 1 .. Len(canvas) : Precedes(canvas[c], sample)
    /\ data_thread = "drawing" => \A c \in 1 .. Len(canvas) : Precedes(canvas[c], entry)
    /\ \A c, d \in 1 .. Len(canvas) : c < d => Before(canvas[c], canvas[d])

PageStart == current_mod * WIDTH

(* No sample that is still to be drawn lies before the page.               *)
PageInv ==
    TimeGrows =>
        /\ PageStart <= time
        /\ \A i \in 1 .. Len(Queued) : PageStart <= Queued[i].time
        /\ InHand => PageStart <= sample.time
        /\ data_thread = "drawing" => PageStart <= entry.time
        /\ \A c \in 1 .. Len(canvas) : OnGraph(canvas[c])

GraphInv == TypeOK /\ QueueOrder /\ EntryOrder /\ CanvasOrder /\ PageInv

LEMMA SequencesOfGraph ==
    ASSUME TypeOK
    PROVE  /\ Queued \in Seq(Samples) /\ Len(Queued) \in Nat
           /\ \A i \in 1 .. Len(Queued) : Queued[i] \in Samples
           /\ canvas \in Seq(Points) /\ Len(canvas) \in Nat
           /\ \A c \in 1 .. Len(canvas) : canvas[c] \in Points
           /\ PageStart \in Nat
<1>1. Queued \in Seq(Samples) /\ canvas \in Seq(Points)
  BY QueuedIsSeq DEF TypeOK, RingOK, Points
<1>2. PageStart \in Nat
  BY GraphicsAssumption DEF TypeOK, PageStart
<1> QED
  BY <1>1, <1>2, LenProperties, ElementOfSeq

LEMMA GraphInit == Init => GraphInv
<1> SUFFICES ASSUME Init PROVE GraphInv
  OBVIOUS
<1>1. TypeOK
  BY TypeInit
<1>2. Queued = <<>> /\ Len(Queued) = 0
  <2>1. RingOK /\ QueueEmpty
    BY <1>1 DEF Init, QueueInit, QueueEmpty, RingOK, TypeOK
  <2> QED
    BY <2>1, EmptyQueued
<1>3. canvas = <<>> /\ Len(canvas) = 0 /\ time = 0 /\ data_thread = "idle" /\ current_mod = 0
  BY DEF Init
<1>4. PageStart = 0
  BY <1>3, GraphicsAssumption DEF PageStart
<1> QED
  BY <1>1, <1>2, <1>3, <1>4
     DEF GraphInv, QueueOrder, EntryOrder, CanvasOrder, PageInv, InHand

\* A sample has more fields once it is drawn.
Stamp(s) == s.number \in Nat /\ s.time \in Nat

LEMMA OrderedTransitive ==
    ASSUME NEW grows, NEW s, NEW t, NEW u, Stamp(s), Stamp(t), Stamp(u),
           Ordered(grows, s, t), Ordered(grows, t, u)
    PROVE  Ordered(grows, s, u)
BY DEF Ordered, Before, Stamp

LEMMA OrderedWeaker ==
    ASSUME NEW grows, NEW less, less => grows, NEW s, NEW t, Ordered(grows, s, t)
    PROVE  Ordered(less, s, t)
BY DEF Ordered

LEMMA UpToLater ==
    ASSUME NEW grows, NEW s, NEW n \in Nat, NEW now \in Nat, NEW later \in Nat, now <= later,
           Stamp(s), UpTo(n, now, grows, s)
    PROVE  /\ UpTo(n + 1, later, grows, s)
           /\ Ordered(grows, s, [number |-> n + 1, time |-> later])
BY DEF UpTo, Ordered, Before, Stamp

LEMMA UpToPreceding ==
    ASSUME NEW grows, NEW s, NEW t, NEW n \in Nat, NEW now \in Nat, Stamp(s), Stamp(t),
           Ordered(grows, s, t), UpTo(n, now, grows, t)
    PROVE  UpTo(n, now, grows, s)
BY DEF UpTo, Ordered, Before, Stamp

LEMMA StampsOfGraph ==
    ASSUME TypeOK
    PROVE  /\ \A i \in 1 .. Len(Queued) : Stamp(Queued[i])
           /\ \A c \in 1 .. Len(canvas) : Stamp(canvas[c])
           /\ Stamp(sample) /\ Stamp(entry)
BY SequencesOfGraph DEF Stamp, Samples, Points, TypeOK

\* The new sample comes after all the others.
LEMMA TakeSampleKeepsInv ==
    ASSUME GraphInv, TakeSample, TypeOK'
    PROVE  GraphInv'
<1>1. PICK step \in 0 .. MaxStep : time' = time + step
  BY DEF TakeSample
<1>2. /\ UNCHANGED <<program, run, canvas, current_mod>> /\ Queued' = Queued
      /\ data_thread = "idle" /\ data_thread' = "sampled"
      /\ taken' = taken + 1 /\ sample' = [number |-> taken + 1, time |-> time']
      /\ time \in Nat /\ taken \in Nat /\ time' \in Nat
  BY DEF TakeSample, GraphInv, TypeOK, queueVars, Queued, QueueLength
<1>3. TimeGrows' = TimeGrows /\ PageStart' = PageStart
  BY <1>2 DEF TimeGrows, PageStart
<1>4. ASSUME NEW s, Stamp(s), Past(s)
      PROVE  UpTo(taken', time', TimeGrows, s) /\ Ordered(TimeGrows, s, sample')
  BY <1>1, <1>2, <1>4, UpToLater DEF Past
<1>5. UpTo(taken', time', TimeGrows, sample')
  BY <1>2 DEF UpTo
<1>6. QueueOrder'
  BY <1>2, <1>3, <1>4, <1>5, StampsOfGraph DEF GraphInv, QueueOrder, Past, Precedes
<1>7. EntryOrder'
  BY <1>2 DEF EntryOrder
<1>8. CanvasOrder'
  BY <1>2, <1>3, <1>4, StampsOfGraph DEF GraphInv, CanvasOrder, Past, Precedes
<1>9. PageInv'
  BY <1>1, <1>2, <1>3, SequencesOfGraph DEF GraphInv, PageInv
<1> QED
  BY <1>6, <1>7, <1>8, <1>9 DEF GraphInv

LEMMA PutElements ==
    ASSUME NEW S, NEW q \in Seq(S), NEW e \in S, NEW N \in Nat \ {0}
    PROVE  LET new == Append(IF Len(q) = N THEN Tail(q) ELSE q, e)
           IN  \E d \in {0, 1} :
                   /\ Len(new) \in Nat \ {0}
                   /\ new[Len(new)] = e
                   /\ \A i \in 1 .. Len(new) - 1 : i + d \in 1 .. Len(q) /\ new[i] = q[i + d]
<1> DEFINE kept == IF Len(q) = N THEN Tail(q) ELSE q
<1>1. \E d \in {0, 1} : /\ kept \in Seq(S) /\ Len(kept) \in Nat
                        /\ \A i \in 1 .. Len(kept) : i + d \in 1 .. Len(q)
                                                     /\ kept[i] = q[i + d]
  <2>1. CASE Len(q) = N
    <3>1. q # <<>>
      BY <2>1, EmptySeq
    <3>2. /\ Tail(q) \in Seq(S) /\ Len(Tail(q)) = N - 1
          /\ \A i \in 1 .. Len(Tail(q)) : Tail(q)[i] = q[i + 1]
      BY <2>1, <3>1, HeadTailProperties
    <3>3. \A i \in 1 .. N - 1 : i + 1 \in 1 .. N
      OBVIOUS
    <3> QED
      BY <2>1, <3>2, <3>3
  <2>2. CASE Len(q) # N
    <3>1. \A i \in 1 .. Len(q) : i + 0 = i
      OBVIOUS
    <3> QED
      BY <2>2, <3>1, LenProperties
  <2> QED
    BY <2>1, <2>2
<1>2. kept \in Seq(S)
  BY <1>1
<1> HIDE DEF kept
<1>3. /\ Len(Append(kept, e)) = Len(kept) + 1
      /\ \A i \in 1 .. Len(kept) : Append(kept, e)[i] = kept[i]
      /\ Append(kept, e)[Len(kept) + 1] = e
  BY <1>2, AppendProperties
<1>4. \E d \in {0, 1} :
          /\ Len(Append(kept, e)) \in Nat \ {0}
          /\ Append(kept, e)[Len(Append(kept, e))] = e
          /\ \A i \in 1 .. Len(Append(kept, e)) - 1 :
                 i + d \in 1 .. Len(q) /\ Append(kept, e)[i] = q[i + d]
  <2>1. PICK d \in {0, 1} : /\ Len(kept) \in Nat
                            /\ \A i \in 1 .. Len(kept) : i + d \in 1 .. Len(q)
                                                          /\ kept[i] = q[i + d]
    BY <1>1
  <2>2. Len(Append(kept, e)) - 1 = Len(kept) /\ Len(Append(kept, e)) \in Nat \ {0}
    BY <1>3, <2>1
  <2>3. \A i \in 1 .. Len(Append(kept, e)) - 1 :
            i + d \in 1 .. Len(q) /\ Append(kept, e)[i] = q[i + d]
    BY <1>3, <2>1, <2>2
  <2> QED
    BY <1>3, <2>2, <2>3
<1> QED
  BY <1>4 DEF kept

\* The sample in hand comes last in the ring; the first one may be gone.
LEMMA QueueSampleKeepsInv ==
    ASSUME GraphInv, QueueSample, TypeOK'
    PROVE  GraphInv'
<1>1. TypeOK /\ RingOK /\ sample \in Samples
  BY DEF GraphInv, TypeOK, RingOK
<1>2. Queued' = Append(IF Len(Queued) = MAX_QUEUE - 1 THEN Tail(Queued) ELSE Queued, sample)
  BY <1>1, QueueWritePuts DEF QueueSample
<1>3. PICK d \in {0, 1} :
          /\ Len(Queued') \in Nat \ {0}
          /\ Queued'[Len(Queued')] = sample
          /\ \A i \in 1 .. Len(Queued') - 1 :
                 i + d \in 1 .. Len(Queued) /\ Queued'[i] = Queued[i + d]
  <2>1. MAX_QUEUE - 1 \in Nat \ {0}
    BY MaxQueueAssumption
  <2> QED
    BY <1>1, <1>2, <2>1, SequencesOfGraph, PutElements
<1>4. /\ UNCHANGED <<program, run, time, taken, canvas, current_mod>>
      /\ data_thread = "queueing" /\ data_thread' = "idle"
      /\ TimeGrows' = TimeGrows /\ PageStart' = PageStart
  BY DEF QueueSample, tankVars, TimeGrows, PageStart
<1>5. \A i \in 1 .. Len(Queued') : i \in 1 .. Len(Queued') - 1 \/ i = Len(Queued')
  BY <1>3
<1>6. QueueOrder'
  <2>1. \A i \in 1 .. Len(Queued') : UpTo(taken, time, TimeGrows, Queued'[i])
    BY <1>3, <1>4, <1>5 DEF GraphInv, QueueOrder, InHand, Past
  <2>2. ASSUME NEW i \in 1 .. Len(Queued'), NEW j \in 1 .. Len(Queued'), i < j
        PROVE  Ordered(TimeGrows, Queued'[i], Queued'[j])
    <3>1. i \in 1 .. Len(Queued') - 1 /\ i + d \in 1 .. Len(Queued)
          /\ Queued'[i] = Queued[i + d]
      BY <1>3, <1>5, <2>2
    <3>2. CASE j = Len(Queued')
      BY <1>3, <1>4, <3>1, <3>2 DEF GraphInv, QueueOrder, InHand, Precedes
    <3>3. CASE j \in 1 .. Len(Queued') - 1
      <4>1. j + d \in 1 .. Len(Queued) /\ Queued'[j] = Queued[j + d] /\ i + d < j + d
        BY <1>3, <2>2, <3>3
      <4> QED
        BY <3>1, <4>1 DEF GraphInv, QueueOrder, Precedes
    <3> QED
      BY <1>5, <3>2, <3>3
  <2> QED
    BY <1>4, <2>1, <2>2 DEF QueueOrder, InHand, Past, Precedes
<1>7. EntryOrder'
  BY <1>4 DEF EntryOrder
<1>8. CanvasOrder'
  BY <1>3, <1>4, <1>5 DEF GraphInv, CanvasOrder, InHand, Past, Precedes
<1>9. PageInv'
  BY <1>3, <1>4, <1>5 DEF GraphInv, PageInv, InHand
<1> QED
  BY <1>6, <1>7, <1>8, <1>9 DEF GraphInv

\* The first sample of the ring comes before the others and the one in hand.
LEMMA NextEntryKeepsInv ==
    ASSUME GraphInv, NextEntry, TypeOK'
    PROVE  GraphInv'
<1>1. TypeOK /\ RingOK
  BY DEF GraphInv, TypeOK, RingOK
<1>2. /\ UNCHANGED <<program, run, time, taken, sample, canvas, current_mod>>
      /\ data_thread = "draining" /\ TimeGrows' = TimeGrows /\ PageStart' = PageStart
  BY DEF NextEntry, tankVars, TimeGrows, PageStart
<1>3. CASE QueueRead /\ entry' = QueueFront /\ data_thread' = "drawing"
  <2>1. Queued # <<>> /\ entry' = Queued[1] /\ Queued' = Tail(Queued)
    BY <1>1, <1>3, QueueReadTakes
  <2>2. /\ Len(Queued) \in Nat \ {0}
        /\ Len(Queued') = Len(Queued) - 1
        /\ \A i \in 1 .. Len(Queued') : Queued'[i] = Queued[i + 1]
    BY <1>1, <2>1, SequencesOfGraph, HeadTailProperties, EmptySeq
  <2>3. 1 \in 1 .. Len(Queued)
        /\ \A i \in 1 .. Len(Queued') : i + 1 \in 1 .. Len(Queued) /\ 1 < i + 1
    BY <2>2
  <2>4. QueueOrder'
    <3>1. \A i, j \in 1 .. Len(Queued') : i < j => i + 1 < j + 1
      OBVIOUS
    <3> QED
      BY <1>2, <2>2, <2>3, <3>1 DEF GraphInv, QueueOrder, InHand, Past, Precedes
  <2>5. EntryOrder'
    BY <1>2, <1>3, <2>1, <2>2, <2>3
       DEF GraphInv, QueueOrder, EntryOrder, InHand, Past, Precedes
  <2>6. CanvasOrder'
    BY <1>2, <1>3, <2>1, <2>2, <2>3 DEF GraphInv, CanvasOrder, InHand, Past, Precedes
  <2>7. PageInv'
    BY <1>2, <1>3, <2>1, <2>2, <2>3 DEF GraphInv, PageInv, InHand
  <2> QED
    BY <2>4, <2>5, <2>6, <2>7 DEF GraphInv
<1>4. CASE QueueEmpty /\ entry' = sample /\ data_thread' = "last" /\ UNCHANGED queueVars
  <2>1. Queued = <<>> /\ Queued' = Queued
    BY <1>1, <1>4, EmptyQueued DEF queueVars, Queued, QueueLength
  <2>2. QueueOrder' /\ EntryOrder'
    BY <1>2, <1>4, <2>1 DEF GraphInv, QueueOrder, EntryOrder, InHand, Past, Precedes
  <2>3. CanvasOrder'
    BY <1>2, <1>4, <2>1 DEF GraphInv, CanvasOrder, InHand, Past, Precedes
  <2>4. PageInv'
    BY <1>2, <1>4, <2>1 DEF GraphInv, PageInv, InHand
  <2> QED
    BY <2>2, <2>3, <2>4 DEF GraphInv
<1> QED
  BY <1>3, <1>4 DEF NextEntry

\* What is drawn comes after what was drawn, and before what waits.
LEMMA DrawEntryKeepsInv ==
    ASSUME GraphInv, DrawEntry, TypeOK'
    PROVE  GraphInv'
<1> DEFINE point == [number |-> entry.number, time |-> entry.time,
                     x |-> entry.time - current_mod * WIDTH]
<1>1. TypeOK /\ entry \in Samples /\ sample \in Samples /\ time \in Nat /\ taken \in Nat
      /\ current_mod \in Nat
  BY DEF GraphInv, TypeOK
<1>2. /\ UNCHANGED <<program, run, time, taken>> /\ Queued' = Queued /\ TimeGrows' = TimeGrows
      /\ \/ data_thread = "drawing" /\ data_thread' = "draining" /\ sample' = sample
         \/ data_thread = "last" /\ data_thread' = "idle"
  BY DEF DrawEntry, tankVars, queueVars, Queued, QueueLength, TimeGrows
<1>3. /\ Past(entry)
      /\ \A i \in 1 .. Len(Queued) : Precedes(entry, Queued[i])
      /\ data_thread = "drawing" => Precedes(entry, sample)
      /\ \A c \in 1 .. Len(canvas) : Precedes(canvas[c], entry)
      /\ TimeGrows => PageStart <= entry.time
  <2>1. CASE data_thread = "drawing"
    <3>1. Past(sample) /\ Precedes(entry, sample)
      BY <2>1 DEF GraphInv, QueueOrder, EntryOrder, InHand
    <3>2. Past(entry)
      BY <1>1, <3>1, StampsOfGraph, UpToPreceding DEF Past, Precedes
    <3> QED
      BY <2>1, <3>1, <3>2 DEF GraphInv, EntryOrder, CanvasOrder, PageInv
  <2>2. CASE data_thread = "last"
    <3>1. entry = sample /\ Len(Queued) = 0
      BY <2>2 DEF GraphInv, EntryOrder
    <3>2. Past(sample) /\ \A c \in 1 .. Len(canvas) : Precedes(canvas[c], sample)
      BY <2>2 DEF GraphInv, QueueOrder, CanvasOrder, InHand
    <3>3. TimeGrows => PageStart <= sample.time
      BY <2>2 DEF GraphInv, PageInv, InHand
    <3> QED
      BY <2>2, <3>1, <3>2, <3>3
  <2> QED
    BY <1>2, <2>1, <2>2
<1>4. QueueOrder' /\ EntryOrder'
  <2>1. data_thread' = "draining" => QueueOrder'
    BY <1>2 DEF GraphInv, QueueOrder, InHand, Past, Precedes
  <2>2. data_thread' = "idle" => QueueOrder'
    BY <1>2 DEF GraphInv, QueueOrder, InHand, Past, Precedes
  <2> QED
    BY <1>2, <2>1, <2>2 DEF EntryOrder
<1>5. PageStart \in Nat /\ (current_mod + 1) * WIDTH = PageStart + WIDTH
  BY <1>1, GraphicsAssumption DEF PageStart
<1>6. CASE entry.time > (current_mod + 1) * WIDTH /\ current_mod' = current_mod + 1
           /\ canvas' = canvas
  <2>1. PageStart' = PageStart + WIDTH /\ PageStart' <= entry.time
    BY <1>1, <1>5, <1>6, GraphicsAssumption DEF PageStart, Samples
  <2>2. CanvasOrder'
    BY <1>2, <1>6 DEF GraphInv, CanvasOrder, InHand, Past, Precedes
  <2>3. PageInv'
    <3>1. SUFFICES ASSUME TimeGrows PROVE PageInv'
      BY <1>2 DEF PageInv
    <3>2. /\ entry.time <= time
          /\ \A i \in 1 .. Len(Queued) : entry.time <= Queued[i].time
          /\ data_thread = "drawing" => entry.time <= sample.time
      BY <1>3, <3>1 DEF Past, Precedes, UpTo, Ordered
    <3>3. /\ PageStart' <= time
          /\ \A i \in 1 .. Len(Queued) : PageStart' <= Queued[i].time
          /\ data_thread = "drawing" => PageStart' <= sample.time
      BY <1>1, <1>5, <2>1, <3>2, SequencesOfGraph, GraphicsAssumption DEF Samples
    <3> QED
      BY <1>2, <1>6, <3>1, <3>3 DEF GraphInv, PageInv, InHand
  <2> QED
    BY <1>4, <2>2, <2>3 DEF GraphInv
<1>7. CASE ~(entry.time > (current_mod + 1) * WIDTH) /\ current_mod' = current_mod
           /\ canvas' = Append(canvas, point)
  <2>1. /\ canvas \in Seq(Points) /\ point \in Points
        /\ point.number = entry.number /\ point.time = entry.time
        /\ point.x = entry.time - PageStart
    BY <1>1, SequencesOfGraph, DrawnPoint DEF Points, PageStart
  <2> HIDE DEF point
  <2>2. /\ Len(canvas') = Len(canvas) + 1 /\ Len(canvas) \in Nat
        /\ \A c \in 1 .. Len(canvas) : canvas'[c] = canvas[c]
        /\ canvas'[Len(canvas) + 1] = point
    BY <1>7, <2>1, AppendProperties
  <2>3. \A c \in 1 .. Len(canvas') : c \in 1 .. Len(canvas) \/ c = Len(canvas) + 1
    BY <2>2
  <2>4. /\ Past(point)
        /\ \A s : Precedes(entry, s) => Precedes(point, s)
        /\ \A s : Precedes(s, entry) => Precedes(s, point)
    BY <1>3, <2>1 DEF Past, Precedes, UpTo, Ordered, Before
  <2>5. CanvasOrder'
    <3>1. \A c \in 1 .. Len(canvas') : UpTo(taken, time, TimeGrows, canvas'[c])
      BY <1>2, <2>2, <2>3, <2>4 DEF GraphInv, CanvasOrder, Past
    <3>2. \A c \in 1 .. Len(canvas'), i \in 1 .. Len(Queued) :
              Ordered(TimeGrows, canvas'[c], Queued[i])
      BY <1>3, <2>2, <2>3, <2>4 DEF GraphInv, CanvasOrder, Precedes
    <3>3. data_thread = "drawing" =>
              \A c \in 1 .. Len(canvas') : Ordered(TimeGrows, canvas'[c], sample)
      BY <1>3, <2>2, <2>3, <2>4 DEF GraphInv, CanvasOrder, InHand, Precedes
    <3>4. ASSUME NEW c \in 1 .. Len(canvas'), NEW d \in 1 .. Len(canvas'), c < d
          PROVE  Before(canvas'[c], canvas'[d])
      <4>1. c \in 1 .. Len(canvas) /\ canvas'[c] = canvas[c]
        BY <2>2, <2>3, <3>4
      <4>2. CASE d \in 1 .. Len(canvas)
        BY <2>2, <3>4, <4>1, <4>2 DEF GraphInv, CanvasOrder
      <4>3. CASE d = Len(canvas) + 1
        BY <1>3, <2>2, <2>4, <4>1, <4>3 DEF Precedes, Ordered
      <4> QED
        BY <2>3, <4>2, <4>3
    <3> QED
      BY <1>2, <3>1, <3>2, <3>3, <3>4 DEF CanvasOrder, InHand, Past, Precedes
  <2>6. PageInv'
    <3>1. PageStart' = PageStart
      BY <1>7 DEF PageStart
    <3>2. TimeGrows => OnGraph(point)
      BY <1>1, <1>3, <1>5, <1>7, <2>1, GraphicsAssumption DEF OnGraph, Samples
    <3>3. TimeGrows => \A c \in 1 .. Len(canvas') : OnGraph(canvas'[c])
      BY <2>2, <2>3, <3>2 DEF GraphInv, PageInv
    <3> QED
      BY <1>2, <3>1, <3>3 DEF GraphInv, PageInv, InHand
  <2> QED
    BY <1>4, <2>5, <2>6 DEF GraphInv
<1> QED
  BY <1>6, <1>7 DEF DrawEntry, ModularDatadraw

\* A new graph shows nothing.
LEMMA NewGraphKeepsInv ==
    ASSUME GraphInv, NewGraph, TypeOK'
    PROVE  GraphInv'
<1>1. /\ UNCHANGED <<run, time, taken, sample, entry, data_thread>> /\ Queued' = Queued
      /\ TimeGrows' = TimeGrows /\ PageStart' = PageStart
      /\ canvas' = <<>> /\ Len(canvas') = 0
  BY DEF NewGraph, tankVars, dataVars, queueVars, Queued, QueueLength, TimeGrows, PageStart
<1>2. QueueOrder' /\ EntryOrder'
  BY <1>1 DEF GraphInv, QueueOrder, EntryOrder, InHand, Past, Precedes
<1>3. CanvasOrder'
  BY <1>1 DEF CanvasOrder
<1>4. PageInv'
  BY <1>1 DEF GraphInv, PageInv, InHand
<1> QED
  BY <1>2, <1>3, <1>4 DEF GraphInv

\* Nothing waits in a queue that was emptied.
LEMMA EmptyQueueKeepsInv ==
    ASSUME GraphInv, EmptyQueue, TypeOK'
    PROVE  GraphInv'
<1>1. /\ UNCHANGED <<run, time, taken, sample, entry, data_thread, canvas>>
      /\ TimeGrows' = TimeGrows /\ PageStart' = PageStart
      /\ Queued' = <<>> /\ Len(Queued') = 0
  BY ClearQueueClears DEF EmptyQueue, tankVars, dataVars, TimeGrows, PageStart
<1>2. QueueOrder' /\ EntryOrder'
  BY <1>1 DEF GraphInv, QueueOrder, EntryOrder, InHand, Past, Precedes
<1>3. CanvasOrder'
  BY <1>1 DEF GraphInv, CanvasOrder, InHand, Past, Precedes
<1>4. PageInv'
  BY <1>1 DEF GraphInv, PageInv, InHand
<1> QED
  BY <1>2, <1>3, <1>4 DEF GraphInv

\* What was taken so far was taken before the restart.
LEMMA RestartTankKeepsInv ==
    ASSUME GraphInv, RestartTank, TypeOK'
    PROVE  GraphInv'
<1>1. /\ UNCHANGED <<taken, sample, entry, data_thread, canvas, current_mod>> /\ Queued' = Queued
      /\ run \in Nat /\ time \in Nat /\ run' = run + 1 /\ time' \in Nat
      /\ PageStart' = PageStart
  BY DEF RestartTank, dataVars, queueVars, Queued, QueueLength, GraphInv, TypeOK, PageStart
<1>2. TimeGrows' => TimeGrows /\ time' = time
  BY <1>1 DEF RestartTank, TimeGrows
<1>3. ASSUME NEW s, Stamp(s), Past(s)
      PROVE  UpTo(taken', time', TimeGrows', s)
  BY <1>1, <1>2, <1>3 DEF Past, UpTo, Stamp
<1>4. ASSUME NEW s, NEW t, Precedes(s, t)
      PROVE  Ordered(TimeGrows', s, t)
  BY <1>2, <1>4 DEF Precedes, Ordered
<1>5. TypeOK
  BY DEF GraphInv
<1>6. QueueOrder'
  BY <1>1, <1>3, <1>4, <1>5, StampsOfGraph
     DEF GraphInv, QueueOrder, InHand, Past, Precedes
<1>7. EntryOrder'
  BY <1>1, <1>4 DEF GraphInv, EntryOrder, Precedes
<1>8. CanvasOrder'
  BY <1>1, <1>3, <1>4, <1>5, StampsOfGraph
     DEF GraphInv, CanvasOrder, InHand, Past, Precedes
<1>9. PageInv'
  BY <1>1, <1>2 DEF GraphInv, PageInv, InHand
<1> QED
  BY <1>6, <1>7, <1>8, <1>9 DEF GraphInv

\* The other steps only pass the mutex and the flag on.
LEMMA OtherStepsKeepInv ==
    ASSUME GraphInv, TypeOK',
           \/ TryLockSdl \/ ReadFlag \/ LockSdl \/ Flip \/ GraphRecreated
           \/ MainThread \/ SetRecreateGraph \/ UNCHANGED graphicsVars
    PROVE  GraphInv'
<1>1. /\ UNCHANGED <<program, run, time, taken, sample, entry, canvas, current_mod>>
      /\ Queued' = Queued
      /\ \/ data_thread' = data_thread
         \/ data_thread = "sampled" /\ data_thread' \in {"draining", "queueing"}
  <2>1. /\ UNCHANGED <<program, run, time, taken, sample, entry, canvas, current_mod, queueVars>>
        /\ \/ data_thread' = data_thread
           \/ data_thread = "sampled" /\ data_thread' \in {"draining", "queueing"}
    BY DEF TryLockSdl, ReadFlag, LockSdl, Flip, GraphRecreated, MainThread, LookForEvents,
           EventsSeen, SetRecreateGraph, graphicsVars, tankVars, dataVars
  <2> QED
    BY <2>1 DEF queueVars, Queued, QueueLength
<1>2. TimeGrows' = TimeGrows /\ PageStart' = PageStart
  BY <1>1 DEF TimeGrows, PageStart
<1>3. QueueOrder' /\ EntryOrder'
  BY <1>1, <1>2 DEF GraphInv, QueueOrder, EntryOrder, InHand, Past, Precedes
<1>4. CanvasOrder'
  BY <1>1, <1>2 DEF GraphInv, CanvasOrder, InHand, Past, Precedes
<1>5. PageInv'
  BY <1>1, <1>2 DEF GraphInv, PageInv, InHand
<1> QED
  BY <1>3, <1>4, <1>5 DEF GraphInv

LEMMA GraphNext ==
    ASSUME GraphInv, [Next]_graphicsVars
    PROVE  GraphInv'
<1>1. TypeOK'
  BY TypeNext DEF GraphInv
<1> QED
  BY <1>1, TakeSampleKeepsInv, QueueSampleKeepsInv, NextEntryKeepsInv, DrawEntryKeepsInv,
     NewGraphKeepsInv, EmptyQueueKeepsInv, RestartTankKeepsInv, OtherStepsKeepInv
     DEF Next, DataThread, DrawThread, IpThread

LEMMA GraphAlways == Spec => []GraphInv
BY GraphInit, GraphNext, PTL DEF Spec

(* A sample is drawn at most once and never after a later one, for every   *)
(* size of the ring, however often SDL is busy, the ring overruns, the     *)
(* graph is cleared or the tank is restarted (update_graph_data).          *)
THEOREM DrawnInOrderAlways == Spec => []DrawnInOrder
<1>1. GraphInv => DrawnInOrder
  <2> SUFFICES ASSUME GraphInv PROVE DrawnInOrder
    OBVIOUS
  <2>1. DOMAIN canvas = 1 .. Len(canvas)
    BY SequencesOfGraph, LenProperties DEF GraphInv
  <2> QED
    BY <2>1 DEF GraphInv, CanvasOrder, DrawnInOrder
<1> QED
  BY <1>1, GraphAlways, PTL

(* While the time of the tank is not set back, everything is drawn within  *)
(* the graph, for every width of the page, pace of the samples and size of *)
(* the ring: a page is begun only by a sample beyond the one before, and   *)
(* those that wait in the ring are no earlier (modular_datadraw).          *)
THEOREM DrawnOnGraphAlways == Spec => []DrawnOnGraphWhileTimeGrows
<1>1. GraphInv => DrawnOnGraphWhileTimeGrows
  <2> SUFFICES ASSUME GraphInv, TimeGrows PROVE DrawnOnGraph
    BY DEF DrawnOnGraphWhileTimeGrows, TimeGrows
  <2>1. DOMAIN canvas = 1 .. Len(canvas)
    BY SequencesOfGraph, LenProperties DEF GraphInv
  <2> QED
    BY <2>1 DEF GraphInv, PageInv, DrawnOnGraph
<1> QED
  BY <1>1, GraphAlways, PTL

=============================================================================
