-------------------------- MODULE LifecycleProofs --------------------------
(***************************************************************************)
(* Starting and stopping, proved for the client and the server alike.      *)
(***************************************************************************)
EXTENDS Lifecycle, TLAPS

-----------------------------------------------------------------------------
(* The inductive invariant: how far the main thread is tells what the flag, *)
(* the window and the other threads can be.                                *)

FlagFollowsMain == program_running <=> main \in {"watching", "stopping"}

WindowFollowsMain ==
    /\ window = "none" => main \in {"creating", "opening", "failed"}
    /\ main \in {"creating", "opening"} => window = "none"
    /\ main \in {"starting", "watching", "stopping"} => window = "open"

\* No thread gets past its first loop before the flag was set, ...
ThreadsWaitForStart ==
    main \in {"creating", "opening", "starting", "failed"} =>
        \A t \in Workers : thread[t] \in {"absent", "polling"}

\* ... and none leaves its main loop before it is cleared.
ThreadsStayWhileRunning ==
    program_running => \A t \in Workers : thread[t] \notin {"leaving", "ended"}

EndedThreadsCleanUp ==
    /\ thread[Ip] = "ended" => socket = "closed"
    /\ thread[GraphDraw] = "ended" => window = "closed"

JoinedThreadsEnded ==
    /\ main \in {"opening", "starting", "watching", "stopping"} => next = 1
    /\ main = "joining" => \A i \in 1 .. next - 1 : thread[Threads[i]] = "ended"
    /\ main = "exited" => \A t \in Workers : thread[t] = "ended"

LifecycleInv ==
    /\ TypeOK
    /\ FlagFollowsMain
    /\ WindowFollowsMain
    /\ ThreadsWaitForStart
    /\ ThreadsStayWhileRunning
    /\ EndedThreadsCleanUp
    /\ JoinedThreadsEnded

-----------------------------------------------------------------------------
(* LifecycleInv is kept by every step. *)

LEMMA ThreadOrder ==
    /\ Len(Threads) = 4
    /\ \A i \in 1 .. 4 : Threads[i] \in Workers
    /\ \A t \in Workers : \E i \in 1 .. 4 : Threads[i] = t
<1>1. CASE WaitsForConnection
  <2>1. /\ Len(Threads) = 4
        /\ Threads[1] = Ip /\ Threads[2] = Tank
        /\ Threads[3] = GraphData /\ Threads[4] = GraphDraw
    BY <1>1 DEF Threads
  <2>2. \A i \in 1 .. 4 : i = 1 \/ i = 2 \/ i = 3 \/ i = 4
    OBVIOUS
  <2> QED
    BY <2>1, <2>2 DEF Workers
<1>2. CASE ~WaitsForConnection
  <2>1. /\ Len(Threads) = 4
        /\ Threads[1] = Tank /\ Threads[2] = Ip
        /\ Threads[3] = GraphData /\ Threads[4] = GraphDraw
    BY <1>2 DEF Threads
  <2>2. \A i \in 1 .. 4 : i = 1 \/ i = 2 \/ i = 3 \/ i = 4
    OBVIOUS
  <2> QED
    BY <2>1, <2>2 DEF Workers
<1> QED
  BY <1>1, <1>2

LEMMA LifecycleInit == Init => LifecycleInv
<1> SUFFICES ASSUME Init PROVE LifecycleInv
  OBVIOUS
<1>1. Ip \in Workers /\ GraphDraw \in Workers
  BY DEF Workers
<1>2. \A t \in Workers : thread[t] = "absent"
  BY DEF Init
<1>3. TypeOK
  <2>1. thread \in [Workers -> {"absent", "polling", "connecting", "checking", "working",
                                "leaving", "ended"}]
    BY DEF Init
  <2>2. next \in 1 .. Len(Threads)
    BY ThreadOrder DEF Init
  <2>3. program_running \in BOOLEAN /\ connected \in BOOLEAN /\ quit_event \in BOOLEAN
    BY DEF Init
  <2> QED
    BY <2>1, <2>2, <2>3 DEF Init, TypeOK
<1>4. FlagFollowsMain /\ WindowFollowsMain
  BY DEF Init, FlagFollowsMain, WindowFollowsMain
<1>5. ThreadsWaitForStart /\ ThreadsStayWhileRunning
  BY <1>2 DEF ThreadsWaitForStart, ThreadsStayWhileRunning
<1>6. EndedThreadsCleanUp /\ JoinedThreadsEnded
  BY <1>1, <1>2 DEF Init, EndedThreadsCleanUp, JoinedThreadsEnded
<1> QED
  BY <1>3, <1>4, <1>5, <1>6 DEF LifecycleInv

LEMMA MainKeepsInv ==
    ASSUME LifecycleInv, Main
    PROVE  LifecycleInv'
<1> USE ThreadOrder, LifecycleAssumption
    DEF LifecycleInv, TypeOK, FlagFollowsMain, WindowFollowsMain, ThreadsWaitForStart,
        ThreadsStayWhileRunning, EndedThreadsCleanUp, JoinedThreadsEnded
<1>1. CASE CreateThread
  <2>1. Threads[next] \in Workers
    OBVIOUS
  <2>2. /\ thread' \in [Workers -> {"absent", "polling", "connecting", "checking", "working",
                                    "leaving", "ended"}]
        /\ \A t \in Workers : thread'[t] \in {"absent", "polling"}
    BY <1>1, <2>1 DEF CreateThread
  <2>3. Ip \in Workers /\ GraphDraw \in Workers
    BY DEF Workers
  <2> QED
    BY <1>1, <2>2, <2>3 DEF CreateThread
<1>2. CASE CreateThreadFails
  <2>1. Ip \in Workers /\ GraphDraw \in Workers
    BY DEF Workers
  <2> QED
    <3>1. \A t \in Workers : thread'[t] = "absent"
      BY <1>2 DEF CreateThreadFails
    <3>2. TypeOK'
      BY <1>2 DEF CreateThreadFails
    <3> QED
      BY <1>2, <2>1, <3>1, <3>2 DEF CreateThreadFails
<1>3. CASE OpenWindow \/ StartProgram \/ SeeWindowClosed \/ StopProgram
  <2>1. Ip \in Workers /\ GraphDraw \in Workers
    BY DEF Workers
  <2>2. CASE OpenWindow
    BY <2>1, <2>2 DEF OpenWindow
  <2>3. CASE StartProgram
    BY <2>1, <2>3 DEF StartProgram
  <2>4. CASE SeeWindowClosed
    BY <2>1, <2>4 DEF SeeWindowClosed
  <2>5. CASE StopProgram
    <3>1. /\ next = 1 /\ main = "stopping" /\ main' = "joining" /\ program_running' = FALSE
          /\ UNCHANGED <<next, connected, window, quit_event, socket, thread>>
      BY <2>5 DEF StopProgram
    <3>2. JoinedThreadsEnded'
      BY <3>1
    <3>3. TypeOK' /\ FlagFollowsMain' /\ WindowFollowsMain' /\ ThreadsWaitForStart'
      BY <3>1
    <3>4. ThreadsStayWhileRunning' /\ EndedThreadsCleanUp'
      BY <2>1, <3>1
    <3> QED
      BY <3>2, <3>3, <3>4
  <2> QED
    BY <1>3, <2>2, <2>3, <2>4, <2>5
<1>4. CASE JoinThread
  <2>1. CASE next = 4
    <3>1. \A i \in 1 .. 4 : thread[Threads[i]] = "ended"
      BY <1>4, <2>1 DEF JoinThread
    <3>2. \A t \in Workers : thread[t] = "ended"
      BY <3>1
    <3> QED
      BY <1>4, <2>1, <3>2 DEF JoinThread
  <2>2. CASE next # 4
    <3>1. next' = next + 1 /\ main' = "joining" /\ next \in 1 .. 3
      BY <1>4, <2>2 DEF JoinThread
    <3>2. \A i \in 1 .. next' - 1 : i \in 1 .. next - 1 \/ i = next
      BY <3>1
    <3> QED
      BY <1>4, <3>1, <3>2 DEF JoinThread
  <2> QED
    BY <2>1, <2>2
<1> QED
  BY <1>1, <1>2, <1>3, <1>4 DEF Main

LEMMA WorkerKeepsInv ==
    ASSUME LifecycleInv, (\E t \in Workers : Worker(t)) \/ StopWaiting
    PROVE  LifecycleInv'
<1> USE ThreadOrder, LifecycleAssumption
    DEF LifecycleInv, TypeOK, FlagFollowsMain, WindowFollowsMain, ThreadsWaitForStart,
        ThreadsStayWhileRunning, EndedThreadsCleanUp, JoinedThreadsEnded, Alive, MoveTo
<1>1. Ip \in Workers /\ Tank \in Workers /\ GraphDraw \in Workers
  BY DEF Workers
<1>2. CASE StopWaiting
  BY <1>1, <1>2 DEF StopWaiting
<1>3. ASSUME NEW t \in Workers, SeeProgramRunning(t) PROVE LifecycleInv'
  <2>1. /\ \E place \in {"connecting", "checking"} : thread' = [thread EXCEPT ![t] = place]
        /\ thread[t] = "polling" /\ program_running
        /\ UNCHANGED <<main, next, program_running, connected, window, quit_event>>
        /\ socket' \in IF t = Ip THEN {"open", "none"} ELSE {socket}
    BY <1>3 DEF SeeProgramRunning
  <2>2. PICK place \in {"connecting", "checking"} : thread' = [thread EXCEPT ![t] = place]
    BY <2>1
  <2>3. TypeOK'
    BY <2>1, <2>2
  <2>4. FlagFollowsMain' /\ WindowFollowsMain' /\ ThreadsWaitForStart'
    BY <2>1
  <2>5. ThreadsStayWhileRunning' /\ EndedThreadsCleanUp' /\ JoinedThreadsEnded'
    BY <1>1, <2>1, <2>2
  <2> QED
    BY <2>3, <2>4, <2>5
<1>4. ASSUME NEW t \in Workers, CheckRunning(t) PROVE LifecycleInv'
  BY <1>1, <1>4 DEF CheckRunning
<1>5. ASSUME NEW t \in Workers, Work(t) PROVE LifecycleInv'
  <2>1. /\ thread' = [thread EXCEPT ![t] = "checking"]
        /\ thread[t] = "working"
        /\ UNCHANGED <<main, next, program_running, window, quit_event, socket>>
    BY <1>5 DEF Work
  <2>2. connected' \in BOOLEAN
    BY <1>5 DEF Work
  <2>3. TypeOK'
    BY <2>1, <2>2
  <2>4. FlagFollowsMain' /\ WindowFollowsMain' /\ ThreadsWaitForStart'
    BY <2>1
  <2>5. ThreadsStayWhileRunning' /\ EndedThreadsCleanUp' /\ JoinedThreadsEnded'
    BY <1>1, <2>1
  <2> QED
    BY <2>3, <2>4, <2>5
<1>6. ASSUME NEW t \in Workers, Leave(t) PROVE LifecycleInv'
  <2>1. /\ thread' = [thread EXCEPT ![t] = "ended"]
        /\ thread[t] = "leaving" /\ ~program_running
        /\ socket' = IF t = Ip THEN "closed" ELSE socket
        /\ window' = IF t = GraphDraw THEN "closed" ELSE window
        /\ UNCHANGED <<main, next, program_running, connected, quit_event>>
    BY <1>6 DEF Leave
  <2>2. main \notin {"creating", "opening", "starting", "failed", "watching", "stopping"}
    BY <2>1
  <2>3. TypeOK'
    BY <2>1
  <2>4. /\ FlagFollowsMain' /\ WindowFollowsMain' /\ ThreadsWaitForStart'
        /\ ThreadsStayWhileRunning'
    BY <2>1, <2>2
  <2>5. EndedThreadsCleanUp'
    BY <1>1, <2>1
  <2>6. JoinedThreadsEnded'
    BY <1>6, <2>1 DEF Leave
  <2> QED
    BY <2>3, <2>4, <2>5, <2>6
<1>7. ASSUME NEW t \in Workers, CloseSocketFails(t) PROVE LifecycleInv'
  <2>1. /\ thread[t] = "leaving" /\ ~program_running /\ main' = "failed"
        /\ thread' = [w \in Workers |-> "absent"]
        /\ UNCHANGED <<next, program_running, connected, window, quit_event, socket>>
    BY <1>7 DEF CloseSocketFails
  <2>2. \A w \in Workers : thread'[w] = "absent"
    BY <2>1
  <2>3. TypeOK'
    BY <2>1
  <2>4. FlagFollowsMain' /\ WindowFollowsMain' /\ JoinedThreadsEnded'
    BY <2>1
  <2>5. ThreadsWaitForStart' /\ ThreadsStayWhileRunning' /\ EndedThreadsCleanUp'
    BY <1>1, <2>1, <2>2
  <2> QED
    BY <2>3, <2>4, <2>5
<1> QED
  BY <1>2, <1>3, <1>4, <1>5, <1>6, <1>7 DEF Worker

LEMMA LifecycleNext ==
    ASSUME LifecycleInv, [Next]_lifecycleVars
    PROVE  LifecycleInv'
<1>1. CASE CloseWindow \/ UNCHANGED lifecycleVars
  <2>1. UNCHANGED <<main, next, program_running, connected, window, socket, thread>>
    BY <1>1 DEF CloseWindow, lifecycleVars
  <2>2. quit_event' \in BOOLEAN
    BY <1>1 DEF CloseWindow, lifecycleVars, LifecycleInv, TypeOK
  <2>3. TypeOK'
    BY <2>1, <2>2 DEF LifecycleInv, TypeOK
  <2>4. FlagFollowsMain' /\ WindowFollowsMain' /\ ThreadsWaitForStart'
        /\ ThreadsStayWhileRunning' /\ EndedThreadsCleanUp' /\ JoinedThreadsEnded'
    BY <2>1
       DEF LifecycleInv, FlagFollowsMain, WindowFollowsMain, ThreadsWaitForStart,
           ThreadsStayWhileRunning, EndedThreadsCleanUp, JoinedThreadsEnded
  <2> QED
    BY <2>3, <2>4 DEF LifecycleInv
<1> QED
  BY <1>1, MainKeepsInv, WorkerKeepsInv DEF Next

-----------------------------------------------------------------------------

(* Every variable has its type (main.c, run_sync.c, connection_sync.c).    *)
THEOREM LifecycleTypeCorrect == Spec => []TypeOK
<1>1. LifecycleInv => TypeOK
  BY DEF LifecycleInv
<1> QED
  BY <1>1, LifecycleInit, LifecycleNext, PTL DEF Spec

(* The window is there whenever a thread may draw in it while the program  *)
(* runs (new_graph before set_program_running, cleanup_sdl after the draw  *)
(* thread's loop).                                                         *)
THEOREM WindowIsThere == Spec => []WindowThere
<1>1. LifecycleInv => WindowThere
  BY DEF LifecycleInv, FlagFollowsMain, WindowFollowsMain, ThreadsWaitForStart, WindowThere,
         Workers
<1> QED
  BY <1>1, LifecycleInit, LifecycleNext, PTL DEF Spec

(* A process that exits with success has ended its threads and closed its  *)
(* window and its socket (the joins of main, close_socket).                *)
THEOREM ExitIsClean == Spec => []CleanExit
<1>1. LifecycleInv => CleanExit
  BY DEF LifecycleInv, EndedThreadsCleanUp, JoinedThreadsEnded, CleanExit, Workers
<1> QED
  BY <1>1, LifecycleInit, LifecycleNext, PTL DEF Spec

(* No thread starts a round of its loop once SDL_Quit was called: the      *)
(* window is only closed by a thread that has seen the flag cleared, and   *)
(* the flag is never set again (main.c, cleanup_sdl).                      *)
THEOREM NoRoundStartsAfterQuit == Spec => NoRoundAfterQuit
<1>1. ASSUME LifecycleInv, [Next]_lifecycleVars, window = "closed",
             NEW t \in Workers, thread'[t] = "working"
      PROVE  thread[t] = "working"
  <2>1. main \in {"joining", "exited", "failed"} /\ ~program_running
    BY <1>1 DEF LifecycleInv, TypeOK, FlagFollowsMain, WindowFollowsMain
  <2>2. thread \in [Workers -> {"absent", "polling", "connecting", "checking", "working",
                                "leaving", "ended"}]
    BY <1>1 DEF LifecycleInv, TypeOK
  <2>3. CASE Main \/ CloseWindow \/ UNCHANGED lifecycleVars
    BY <1>1, <2>1, <2>3
       DEF Main, CreateThread, CreateThreadFails, OpenWindow, StartProgram,
           SeeWindowClosed, StopProgram, JoinThread, CloseWindow, lifecycleVars
  <2>4. CASE (\E w \in Workers : Worker(w)) \/ StopWaiting
    <3>1. \/ \E w \in Workers, place \in {"connecting", "checking", "leaving", "ended"} :
                 thread' = [thread EXCEPT ![w] = place]
          \/ thread' = [w \in Workers |-> "absent"]
      BY <2>1, <2>4
         DEF Worker, SeeProgramRunning, CheckRunning, Work, Leave, CloseSocketFails,
             StopWaiting, MoveTo, Workers
    <3> QED
      BY <1>1, <2>2, <3>1
  <2> QED
    BY <1>1, <2>3, <2>4 DEF Next
<1>2. LifecycleInv /\ [Next]_lifecycleVars =>
          [window = "closed" =>
               \A t \in Workers : thread'[t] = "working" => thread[t] = "working"]_lifecycleVars
  BY <1>1
<1> QED
  BY <1>2, LifecycleInit, LifecycleNext, PTL DEF Spec, NoRoundAfterQuit

=============================================================================
