------------------------------ MODULE Graphics ------------------------------
(***************************************************************************)
(* The graph of either program (graphics.c) and the threads that meet at   *)
(* it: the data thread takes a sample of the tank and draws it, or queues  *)
(* it when SDL is busy; the draw thread shows the graph, or makes it anew  *)
(* when a flag says so; the main thread looks for events; the IP thread    *)
(* asks for a new graph when the tank is restarted.                        *)
(*                                                                         *)
(* sdl_mutex is held across several steps; the queue and the flag have     *)
(* mutexes of their own that are held for one operation, one step here.    *)
(***************************************************************************)
EXTENDS SampleQueue

CONSTANTS
    WIDTH,          \* time units a page of the graph holds, 55 in graphics.c
    MaxStep,        \* bound: time between two samples
    MaxTime,        \* bound: time the tank is followed after a start
    MaxSamples,     \* bound: samples taken
    MaxRestarts,    \* bound: restarts of the tank
    Programs,       \* which of the two programs this is
    clear_graph_on_overflow \* FALSE with the -g argument

ASSUME GraphicsAssumption ==
    /\ WIDTH \in Nat \ {0}
    /\ MaxStep \in Nat
    /\ MaxTime \in Nat
    /\ MaxSamples \in Nat
    /\ MaxRestarts \in Nat
    /\ Programs \subseteq {"client", "server"}
    /\ clear_graph_on_overflow \in BOOLEAN
    /\ Blank = [number |-> 0, time |-> 0]

VARIABLES
    program,        \* the client or the server
    run, time,      \* starts of the tank so far, and its time t
    taken,          \* samples taken of it so far
    restarting,     \* the IP thread has restarted it and not asked for the graph
    sdl_mutex,      \* who holds it
    new_graph_flag, \* _new_graph_flag: 0, 1 recreate, 2 clear
    data_thread,    \* where the data thread is
    sample,         \* the sample it has taken
    entry,          \* the one it is drawing
    draw_thread,    \* where the draw thread is
    current_mod,    \* the page of the time axis that is drawn
    canvas          \* what has been drawn, and where, since the graph was made

tankVars  == <<program, run, time, taken, restarting>>
dataVars  == <<data_thread, sample, entry>>
graphicsVars ==
    <<queueVars, tankVars, sdl_mutex, new_graph_flag, dataVars, draw_thread,
      current_mod, canvas>>

\* The number stands for the level and the openings, which differ.
Samples == [number : Nat, time : Nat]

TypeOK ==
    /\ head \in Places
    /\ tail \in Places
    /\ data \in [Places -> Samples]
    /\ program \in Programs
    /\ run \in Nat
    /\ time \in Nat
    /\ taken \in Nat
    /\ restarting \in BOOLEAN
    /\ sdl_mutex \in {"free", "data", "draw", "main"}
    /\ new_graph_flag \in 0 .. 2
    /\ data_thread \in {"idle", "sampled", "queueing", "draining", "drawing", "last"}
    /\ sample \in Samples
    /\ entry \in Samples
    /\ draw_thread \in {"idle", "flip", "clear", "recreate", "cleared", "recreated",
                        "emptying"}
    /\ current_mod \in Nat
    /\ canvas \in Seq([number : Nat, time : Nat, x : Int])

Init ==
    /\ QueueInit
    /\ program \in Programs
    /\ run = 0
    /\ time = 0
    /\ taken = 0
    /\ restarting = FALSE
    /\ sdl_mutex = "free"
    /\ new_graph_flag = 0
    /\ data_thread = "idle"
    /\ sample = Blank
    /\ entry = Blank
    /\ draw_thread = "idle"
    /\ current_mod = 0
    /\ canvas = <<>>

-----------------------------------------------------------------------------
(* The data thread: update_graph_data with a copy of the tank. *)

(* The plant, or the control, thread may have run several times since the  *)
(* last sample, or not at all: the client's time stands still until it is  *)
(* connected.                                                              *)
TakeSample ==
    /\ data_thread = "idle"
    /\ taken < MaxSamples
    /\ taken' = taken + 1
    /\ \E step \in 0 .. MaxStep :
           /\ time + step <= MaxTime
           /\ time' = time + step
    /\ sample' = [number |-> taken', time |-> time']
    /\ data_thread' = "sampled"
    /\ UNCHANGED <<queueVars, program, run, restarting, sdl_mutex, new_graph_flag,
                   entry, draw_thread, current_mod, canvas>>

\* pthread_mutex_trylock: the data thread never waits for SDL.
TryLockSdl ==
    /\ data_thread = "sampled"
    /\ IF sdl_mutex = "free"
       THEN sdl_mutex' = "data" /\ data_thread' = "draining"
       ELSE data_thread' = "queueing" /\ UNCHANGED sdl_mutex
    /\ UNCHANGED <<queueVars, tankVars, new_graph_flag, sample, entry, draw_thread,
                   current_mod, canvas>>

QueueSample ==
    /\ data_thread = "queueing"
    /\ QueueWrite(sample)
    /\ data_thread' = "idle"
    /\ sample' = Blank
    /\ UNCHANGED <<tankVars, sdl_mutex, new_graph_flag, entry, draw_thread,
                   current_mod, canvas>>

\* The samples in the queue come first, then the new one.
NextEntry ==
    /\ data_thread = "draining"
    /\ \/ /\ QueueRead
          /\ entry' = QueueFront
          /\ data_thread' = "drawing"
       \/ /\ QueueEmpty
          /\ entry' = sample
          /\ data_thread' = "last"
          /\ UNCHANGED queueVars
    /\ UNCHANGED <<tankVars, sdl_mutex, new_graph_flag, sample, draw_thread,
                   current_mod, canvas>>

\* Mutant: the sample that turns the page is drawn, too.
ModularDatadrawAlways(s) ==
    /\ IF s.time > (current_mod + 1) * WIDTH
       THEN /\ current_mod' = current_mod + 1
            /\ new_graph_flag' = IF clear_graph_on_overflow THEN 2 ELSE new_graph_flag
       ELSE UNCHANGED <<current_mod, new_graph_flag>>
    /\ canvas' = Append(canvas, [number |-> s.number, time |-> s.time,
                                 x |-> s.time - current_mod * WIDTH])

(* modular_datadraw: a sample beyond the page turns it, and is not drawn.  *)
ModularDatadraw(s) ==
    IF s.time > (current_mod + 1) * WIDTH
    THEN /\ current_mod' = current_mod + 1
         /\ new_graph_flag' = IF clear_graph_on_overflow THEN 2 ELSE new_graph_flag
         /\ UNCHANGED canvas
    ELSE /\ canvas' = Append(canvas, [number |-> s.number, time |-> s.time,
                                      x |-> s.time - current_mod * WIDTH])
         /\ UNCHANGED <<current_mod, new_graph_flag>>

\* The mutex is released, and the call ends, after the last one.
DrawEntry ==
    /\ data_thread \in {"drawing", "last"}
    /\ ModularDatadraw(entry)
    /\ entry' = Blank
    /\ IF data_thread = "drawing"
       THEN data_thread' = "draining" /\ UNCHANGED <<sample, sdl_mutex>>
       ELSE data_thread' = "idle" /\ sample' = Blank /\ sdl_mutex' = "free"
    /\ UNCHANGED <<queueVars, tankVars, draw_thread>>

DataThread == TakeSample \/ TryLockSdl \/ QueueSample \/ NextEntry \/ DrawEntry

-----------------------------------------------------------------------------
(* The draw thread: draw_graph. *)

\* Mutant: only a request to recreate the graph is looked for.
ReadFlagRecreateOnly ==
    /\ draw_thread = "idle"
    /\ draw_thread' = IF new_graph_flag = 1 THEN "recreate" ELSE "flip"
    /\ UNCHANGED <<queueVars, tankVars, sdl_mutex, new_graph_flag, dataVars,
                   current_mod, canvas>>

\* should_recreate_graph: the flag is read once, and acted upon later.
ReadFlag ==
    /\ draw_thread = "idle"
    /\ draw_thread' = CASE new_graph_flag = 0 -> "flip"
                        [] new_graph_flag = 1 -> "recreate"
                        [] new_graph_flag = 2 -> "clear"
    /\ UNCHANGED <<queueVars, tankVars, sdl_mutex, new_graph_flag, dataVars,
                   current_mod, canvas>>

\* Mutant: the graph is shown or freed without the mutex.
LockSdlNot ==
    /\ draw_thread \in {"flip", "clear", "recreate"}
    /\ sdl_mutex' = "draw"
    /\ UNCHANGED <<queueVars, tankVars, new_graph_flag, dataVars, draw_thread,
                   current_mod, canvas>>

LockSdl ==
    /\ draw_thread \in {"flip", "clear", "recreate"}
    /\ sdl_mutex = "free"
    /\ sdl_mutex' = "draw"
    /\ UNCHANGED <<queueVars, tankVars, new_graph_flag, dataVars, draw_thread,
                   current_mod, canvas>>

Flip ==
    /\ draw_thread = "flip"
    /\ sdl_mutex = "draw"
    /\ sdl_mutex' = "free"
    /\ draw_thread' = "idle"
    /\ UNCHANGED <<queueVars, tankVars, new_graph_flag, dataVars, current_mod, canvas>>

\* The old graph is freed and a new one made, under sdl_mutex.
NewGraph ==
    /\ draw_thread \in {"clear", "recreate"}
    /\ sdl_mutex = "draw"
    /\ canvas' = <<>>
    /\ sdl_mutex' = "free"
    /\ draw_thread' = IF draw_thread = "clear" THEN "cleared" ELSE "recreated"
    /\ UNCHANGED <<queueVars, tankVars, new_graph_flag, dataVars, current_mod>>

\* The flag is put back, whatever was asked for meanwhile.
GraphRecreated ==
    /\ draw_thread \in {"cleared", "recreated"}
    /\ new_graph_flag' = 0
    /\ draw_thread' = IF draw_thread = "cleared" THEN "idle" ELSE "emptying"
    /\ UNCHANGED <<queueVars, tankVars, sdl_mutex, dataVars, current_mod, canvas>>

\* recreate_graph ends with the queue.
EmptyQueue ==
    /\ draw_thread = "emptying"
    /\ ClearQueue
    /\ draw_thread' = "idle"
    /\ UNCHANGED <<tankVars, sdl_mutex, new_graph_flag, dataVars, current_mod, canvas>>

DrawThread == ReadFlag \/ LockSdl \/ Flip \/ NewGraph \/ GraphRecreated \/ EmptyQueue

-----------------------------------------------------------------------------
(* The main thread: window_closed. *)

LookForEvents ==
    /\ sdl_mutex = "free"
    /\ sdl_mutex' = "main"
    /\ UNCHANGED <<queueVars, tankVars, new_graph_flag, dataVars, draw_thread,
                   current_mod, canvas>>

EventsSeen ==
    /\ sdl_mutex = "main"
    /\ sdl_mutex' = "free"
    /\ UNCHANGED <<queueVars, tankVars, new_graph_flag, dataVars, draw_thread,
                   current_mod, canvas>>

MainThread == LookForEvents \/ EventsSeen

-----------------------------------------------------------------------------
(* The IP thread: start_tank of the server, or reset_time of the client,   *)
(* which leaves the time of its tank alone; then set_recreate_graph.       *)

RestartTank ==
    /\ ~restarting
    /\ run < MaxRestarts
    /\ run' = run + 1
    /\ time' = IF program = "server" THEN 0 ELSE time
    /\ restarting' = TRUE
    /\ UNCHANGED <<queueVars, program, taken, sdl_mutex, new_graph_flag, dataVars,
                   draw_thread, current_mod, canvas>>

SetRecreateGraph ==
    /\ restarting
    /\ restarting' = FALSE
    /\ new_graph_flag' = 1
    /\ UNCHANGED <<queueVars, program, run, time, taken, sdl_mutex, dataVars,
                   draw_thread, current_mod, canvas>>

IpThread == RestartTank \/ SetRecreateGraph

-----------------------------------------------------------------------------

Next == DataThread \/ DrawThread \/ MainThread \/ IpThread

Spec == Init /\ [][Next]_graphicsVars

(* Every thread keeps being scheduled; the draw thread, which waits for    *)
(* sdl_mutex, gets it once it has been free again and again.               *)
Fairness ==
    /\ WF_graphicsVars(DataThread)
    /\ WF_graphicsVars(DrawThread)
    /\ SF_graphicsVars(LockSdl)
    /\ WF_graphicsVars(EventsSeen)

FairSpec == Spec /\ Fairness

-----------------------------------------------------------------------------

\* s was taken before t, though perhaps at the same time of the tank.
Before(s, t) == s.number < t.number

(* A sample is drawn at most once, and never after one that was taken      *)
(* later, although some wait in the queue while others are drawn at once,  *)
(* and the queue may be emptied or overrun in between (update_graph_data,  *)
(* queue_read, queue_write, clear_queue).                                  *)
DrawnInOrder ==
    \A i, j \in DOMAIN canvas : i < j => Before(canvas[i], canvas[j])

\* The sample lies within the width of the graph.
OnGraph(drawn) == drawn.x \in 0 .. WIDTH

DrawnOnGraph == \A i \in DOMAIN canvas : OnGraph(canvas[i])

(* What recreate_graph says of itself ("Clears memory and recreates        *)
(* graph"): when the tank was restarted and the graph has been made anew   *)
(* for it, whatever is drawn lies within the graph.                        *)
RecreatedGraphHoldsSamples ==
    ~restarting /\ new_graph_flag = 0 /\ draw_thread # "emptying" => DrawnOnGraph

(* As long as the time of the tank is not set back (never in the client,   *)
(* until the first restart in the server), whatever is drawn lies within   *)
(* the graph, although samples wait in the queue while pages are turned,   *)
(* or the time leaps over a page (modular_datadraw, current_mod).          *)
DrawnOnGraphWhileTimeGrows ==
    program = "client" \/ run = 0 => DrawnOnGraph

\* The data thread is inside update_graph_data, between trylock and unlock.
Drawing == data_thread \in {"draining", "drawing", "last"}

(* The graph the data thread draws the queue and its sample on is not      *)
(* freed under it, from the trylock to the unlock, although the draw       *)
(* thread has read the flag, and decided to free the graph, before or in   *)
(* between (update_graph_data, draw_graph, clear_graph).                   *)
GraphKeptWhileDrawing ==
    [][Drawing => (canvas' = <<>> => canvas = <<>>)]_graphicsVars

\* A ring with all places taken could not be told from an empty one.
AbstractQueue ==
    INSTANCE DropQueue WITH Capacity <- MAX_QUEUE - 1, queue <- Queued,
                            clearing <- draw_thread = "emptying"

(* The ring is a queue that drops the oldest sample when it is full, is    *)
(* emptied with the graph that is recreated, and loses, repeats and        *)
(* reorders nothing else (queue_read, queue_write, clear_queue).           *)
ImplementsDropQueue == AbstractQueue!Spec

(* Every request for a new graph is followed by one that is made, whoever  *)
(* makes the request and whatever the draw thread is doing, but for the    *)
(* moment between the unlock of clear_graph and graph_recreated, when the  *)
(* code forgets it.  A restart's request is followed by one that empties   *)
(* the queue as well, unless the page is turned before it is read, or the  *)
(* draw thread is already at a clear_graph: both make it a clear_graph     *)
(* (set_recreate_graph, modular_datadraw, should_recreate_graph).          *)
RequestHonoured ==
    /\ (new_graph_flag # 0 /\ draw_thread \notin {"cleared", "recreated"})
           ~> draw_thread \in {"cleared", "recreated"}
    /\ (new_graph_flag = 1 /\ draw_thread \notin {"clear", "cleared", "recreated"})
           ~> (draw_thread = "recreated" \/ new_graph_flag = 2)

=============================================================================
