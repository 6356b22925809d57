------------------------------ MODULE Lifecycle ------------------------------
(***************************************************************************)
(* How either program starts and stops: the main thread (client/main.c,    *)
(* server/main.c), its four worker threads, the running flag they poll     *)
(* (run_sync.c), the connection the client's control thread waits for      *)
(* (connection_sync.c), and the window and the socket (graphics.c,         *)
(* comm_socket.c).                                                         *)
(***************************************************************************)
EXTENDS Naturals, Sequences

CONSTANTS
    Ip,                 \* the IP thread
    Tank,               \* the control thread, or the plant thread
    GraphData,          \* the thread that draws the tank's state
    GraphDraw,          \* the thread that shows and, at the end, closes the window
    WaitsForConnection  \* the Tank thread waits for the connection first: the client

ASSUME LifecycleAssumption ==
    /\ WaitsForConnection \in BOOLEAN
    /\ Ip \notin {Tank, GraphData, GraphDraw}
    /\ Tank \notin {GraphData, GraphDraw}
    /\ GraphData # GraphDraw

VARIABLES
    main,               \* where the main thread is
    next,               \* the thread it creates, or joins, next
    program_running,    \* _program_running of run_sync.c
    connected,          \* _connected of connection_sync.c
    window,             \* the SDL window: not there yet, open, or closed by SDL_Quit
    quit_event,         \* the user has closed it, and SDL holds the event
    socket,             \* the IP thread's socket
    thread              \* where each worker thread is

lifecycleVars ==
    <<main, next, program_running, connected, window, quit_event, socket, thread>>

\* The order they are created and joined in, in the client and in the server.
Threads ==
    IF WaitsForConnection THEN <<Ip, Tank, GraphData, GraphDraw>>
                          ELSE <<Tank, Ip, GraphData, GraphDraw>>

Workers == {Ip, Tank, GraphData, GraphDraw}

TypeOK ==
    /\ main \in {"creating", "opening", "starting", "watching", "stopping", "joining",
                 "exited", "failed"}
    /\ next \in 1 .. Len(Threads)
    /\ program_running \in BOOLEAN
    /\ connected \in BOOLEAN
    /\ window \in {"none", "open", "closed"}
    /\ quit_event \in BOOLEAN
    /\ socket \in {"none", "open", "closed"}
    /\ thread \in [Workers -> {"absent", "polling", "connecting", "checking", "working",
                               "leaving", "ended"}]

Init ==
    /\ main = "creating"
    /\ next = 1
    /\ program_running = FALSE
    /\ connected = FALSE
    /\ window = "none"
    /\ quit_event = FALSE
    /\ socket = "none"
    /\ thread = [t \in Workers |-> "absent"]

-----------------------------------------------------------------------------
(* The main thread. *)

\* Mutant: the joins go on from where the creation stopped.
CreateThreadNoReset ==
    /\ main = "creating"
    /\ thread' = [thread EXCEPT ![Threads[next]] = "polling"]
    /\ next' = next + 1
    /\ main' = IF next = Len(Threads) THEN "opening" ELSE main
    /\ UNCHANGED <<program_running, connected, window, quit_event, socket>>

CreateThread ==
    /\ main = "creating"
    /\ thread' = [thread EXCEPT ![Threads[next]] = "polling"]
    /\ IF next = Len(Threads)
       THEN main' = "opening" /\ next' = 1
       ELSE next' = next + 1 /\ UNCHANGED main
    /\ UNCHANGED <<program_running, connected, window, quit_event, socket>>

\* exit(EXIT_FAILURE) ends the threads that were created.
CreateThreadFails ==
    /\ main = "creating"
    /\ main' = "failed"
    /\ thread' = [t \in Workers |-> "absent"]
    /\ UNCHANGED <<next, program_running, connected, window, quit_event, socket>>

OpenWindow ==
    /\ main = "opening"
    /\ main' = "starting"
    /\ window' = "open"
    /\ UNCHANGED <<next, program_running, connected, quit_event, socket, thread>>

\* Mutant: the threads are let go before the window is opened.
StartProgramFirst ==
    /\ main \in {"opening", "starting"}
    /\ ~program_running
    /\ program_running' = TRUE
    /\ main' = IF main = "starting" THEN "watching" ELSE main
    /\ UNCHANGED <<next, connected, window, quit_event, socket, thread>>

StartProgram ==
    /\ main = "starting"
    /\ main' = "watching"
    /\ program_running' = TRUE
    /\ UNCHANGED <<next, connected, window, quit_event, socket, thread>>

\* window_closed finds the event; a look that finds none changes nothing.
SeeWindowClosed ==
    /\ main = "watching"
    /\ quit_event
    /\ quit_event' = FALSE
    /\ main' = "stopping"
    /\ UNCHANGED <<next, program_running, connected, window, socket, thread>>

StopProgram ==
    /\ main = "stopping"
    /\ main' = "joining"
    /\ program_running' = FALSE
    /\ UNCHANGED <<next, connected, window, quit_event, socket, thread>>

\* Mutant: the last thread is not waited for.
JoinThreadButLast ==
    /\ main = "joining"
    /\ thread[Threads[next]] = "ended" \/ next = Len(Threads)
    /\ IF next = Len(Threads)
       THEN main' = "exited" /\ UNCHANGED next
       ELSE next' = next + 1 /\ UNCHANGED main
    /\ UNCHANGED <<program_running, connected, window, quit_event, socket, thread>>

\* pthread_join, and exit(EXIT_SUCCESS) after the last one.
JoinThread ==
    /\ main = "joining"
    /\ thread[Threads[next]] = "ended"
    /\ IF next = Len(Threads)
       THEN main' = "exited" /\ UNCHANGED next
       ELSE next' = next + 1 /\ UNCHANGED main
    /\ UNCHANGED <<program_running, connected, window, quit_event, socket, thread>>

Main ==
    \/ CreateThread \/ CreateThreadFails \/ OpenWindow \/ StartProgram
    \/ SeeWindowClosed \/ StopProgram \/ JoinThread

-----------------------------------------------------------------------------
(* The worker threads. *)

\* The process is still there.
Alive == main \notin {"exited", "failed"}

MoveTo(t, place) == thread' = [thread EXCEPT ![t] = place]

(* The first loop of a thread ends when it reads the flag while it is set. *)
(* The IP thread goes on with a socket or, when socket() failed, without.  *)
SeeProgramRunning(t) ==
    /\ Alive
    /\ thread[t] = "polling"
    /\ program_running
    /\ MoveTo(t, IF t = Tank /\ WaitsForConnection THEN "connecting" ELSE "checking")
    /\ socket' \in IF t = Ip THEN {"open", "none"} ELSE {socket}
    /\ UNCHANGED <<main, next, program_running, connected, window, quit_event>>

\* Mutant: the control thread only looks at the connection.
StopWaitingOnceConnected ==
    /\ Alive
    /\ thread[Tank] = "connecting"
    /\ connected
    /\ MoveTo(Tank, "checking")
    /\ UNCHANGED <<main, next, program_running, connected, window, quit_event, socket>>

(* The control thread stops waiting for the connection once it is there or *)
(* the program is being stopped.                                           *)
StopWaiting ==
    /\ Alive
    /\ thread[Tank] = "connecting"
    /\ connected \/ ~program_running
    /\ MoveTo(Tank, "checking")
    /\ UNCHANGED <<main, next, program_running, connected, window, quit_event, socket>>

\* Mutant: the draw thread leaves as soon as the user has closed the window.
CheckRunningOrQuitEvent(t) ==
    /\ Alive
    /\ thread[t] = "checking"
    /\ MoveTo(t, IF program_running /\ ~(t = GraphDraw /\ quit_event)
                 THEN "working" ELSE "leaving")
    /\ UNCHANGED <<main, next, program_running, connected, window, quit_event, socket>>

\* The condition of the main loop of a thread.
CheckRunning(t) ==
    /\ Alive
    /\ thread[t] = "checking"
    /\ MoveTo(t, IF program_running THEN "working" ELSE "leaving")
    /\ UNCHANGED <<main, next, program_running, connected, window, quit_event, socket>>

(* One round of it, and the sleep; the IP thread may find the connection.  *)
Work(t) ==
    /\ Alive
    /\ thread[t] = "working"
    /\ MoveTo(t, "checking")
    /\ \/ UNCHANGED connected
       \/ t = Ip /\ connected' = TRUE
    /\ UNCHANGED <<main, next, program_running, window, quit_event, socket>>

\* close_client_socket, or close_server_socket, and cleanup_sdl.
Leave(t) ==
    /\ Alive
    /\ thread[t] = "leaving"
    /\ t = Ip => socket = "open"
    /\ MoveTo(t, "ended")
    /\ socket' = IF t = Ip THEN "closed" ELSE socket
    /\ window' = IF t = GraphDraw THEN "closed" ELSE window
    /\ UNCHANGED <<main, next, program_running, connected, quit_event>>

\* close_socket: close() failed, as it must without a socket, and the
\* process exits with EXIT_FAILURE.
CloseSocketFails(t) ==
    /\ Alive
    /\ t = Ip
    /\ thread[t] = "leaving"
    /\ main' = "failed"
    /\ thread' = [w \in Workers |-> "absent"]
    /\ UNCHANGED <<next, program_running, connected, window, quit_event, socket>>

Worker(t) ==
    \/ SeeProgramRunning(t) \/ CheckRunning(t) \/ Work(t) \/ Leave(t)
    \/ CloseSocketFails(t)

-----------------------------------------------------------------------------

\* The user closes the window, at any time after it was opened.
CloseWindow ==
    /\ Alive
    /\ window = "open"
    /\ ~quit_event
    /\ quit_event' = TRUE
    /\ UNCHANGED <<main, next, program_running, connected, window, socket, thread>>

Next ==
    \/ Main
    \/ \E t \in Workers : Worker(t)
    \/ StopWaiting
    \/ CloseWindow

Spec == Init /\ [][Next]_lifecycleVars

\* Every thread of the process keeps being scheduled; nobody has to close the
\* window, and nothing has to connect.
Fairness ==
    /\ WF_lifecycleVars(Main)
    /\ \A t \in Workers : WF_lifecycleVars(Worker(t))
    /\ WF_lifecycleVars(StopWaiting)

FairSpec == Spec /\ Fairness

-----------------------------------------------------------------------------

(* No thread draws before there is a window, and the window is there as    *)
(* long as the program is running: main sets the flag after new_graph and  *)
(* only the draw thread, once it has seen the flag cleared, calls SDL_Quit.*)
WindowThere ==
    /\ window = "none" => \A t \in {GraphData, GraphDraw} : thread[t] # "working"
    /\ program_running => window = "open"

(* The process only exits with success when no thread is left, the window  *)
(* has been closed and the socket too, which therefore was opened (the     *)
(* joins at the end of main, close_socket).                                *)
CleanExit ==
    main = "exited" =>
        /\ \A t \in Workers : thread[t] = "ended"
        /\ window = "closed"
        /\ socket = "closed"

(* Once the draw thread has called SDL_Quit no thread starts another round *)
(* (get_program_running at the head of each loop, cleanup_sdl).  This is   *)
(* all there is: the data thread may be in a round it had begun, and then  *)
(* it draws without SDL.                                                   *)
NoRoundAfterQuit ==
    [][window = "closed" =>
           \A t \in Workers : thread'[t] = "working" => thread[t] = "working"]_lifecycleVars

(* Once all threads have seen the program running, closing the window      *)
(* stops the program, even if no connection was ever found or there never  *)
(* was a socket.                                                           *)
StopsOnceStarted ==
    (program_running /\ quit_event /\ \A t \in Workers : thread[t] # "polling")
        ~> ~Alive

(* What main.c says of its last part: closing the window stops the program *)
(* ("Sets flag to stop program", "Waits for all threads to finish to close *)
(* the program").                                                          *)
ClosingStopsProgram == quit_event ~> ~Alive

=============================================================================
