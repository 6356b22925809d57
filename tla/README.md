# Remote tank control: TLA+ models, checks and proofs

The repository holds two C programs that talk over UDP. The **server** simulates a
tank with an input valve and an output valve. The **client** reads the level and
moves the input valve with a PID controller. A Python script, a lossy relay between
the two, is what the programs are tried out with. There are no tests and no written
documentation, so the comments in the code are the only statement of intent.

This directory holds the models of both programs, the TLC runs that check them, and
the TLAPS proofs of what holds for every value of the constants.

## 1. Inventory

| Part | State | Operations | Talks to |
|---|---|---|---|
| Wire protocol (`comm.h`, `comm_protocol.c`, `comm_corruption.c`) | none | format, parse and validate a packet; similarity of a text to a packet | used by both IP threads |
| Sockets (`comm_socket.c`) | the socket buffers | send; receive the first datagram and drop the others | the kernel |
| Relay (`scripts/udp-lossy-relay.py`) | packets held back | lose, corrupt, hold back and shuffle, delay | both programs |
| Client IP thread (`client/ip.c`) | `update_state`, `waiting_answer`, the last command, `tank_before`, the wrong-value flag | `update_tank`: send, or check for an answer, or time out; `treat_answer` | the tank (mutex), the controller's limits (no lock), the connected flag, the graph flag |
| Client control thread (`client/control.c`) | PID terms, `max_u`, `min_u` | `update_controller` every 20 ms | the tank (mutex) |
| Client shared state (`client/tank_state.c`, `client/connection_sync.c`) | tank, connected | copy in and out under a mutex | all client threads |
| Server IP thread (`server/ip.c`, `server/plant_interaction.c`) | last packet, `client_address` | `receive_command`, `command_action`: move the valve's target, restart the tank, set its maximum, read the level, answer | the tank (mutex), the graph flag |
| Server plant thread (`server/plant_simulation.c`) | tank, time | `start_tank` once, `tank_time_step` every 10 ms | the tank (mutex) |
| Start and stop (`main.c` of both, `run_sync.c`) | the running flag | create four threads, open the window, set the flag, watch the window, clear the flag, join | all threads poll the flag |
| Graphics (`graphics.c`) | window, `sdl_mutex`, ring of 100 samples, `_new_graph_flag`, `current_mod` | draw a sample, or queue it when SDL is busy; show, clear or recreate the graph; look for events | data thread, draw thread, main, IP thread |
| Time (`time.c`) | none | monotonic clock differences, sleep | all |
| Arguments, log (`arguments.c`, `debug.c`) | flags | parse, print | main |

### What is hard

* **The valve has no guard on the server.** `open_valve` and `close_valve` add any
  amount to the delta. What keeps the valve within 0..100 is the client's record of
  what the server was told, across lost, late and spoilt replies.
* **The protocol has no sequence numbers.** A reply is matched to a command by its
  keyword and value only; a timeout counts as an acknowledgement; a reply that is
  almost right counts as "perhaps carried out", and the client gives that amount up
  at one of its limits.
* **Two threads with different periods share the delta.** The IP thread sends and
  books what the control thread computed, possibly a different value by then.
* **Start and stop go through a polled flag.** A thread that has not looked while the
  flag was set never learns that it was.
* **The graph is made anew by request.** The flag is read, acted upon and put back in
  three critical sections; samples wait in a ring meanwhile, and the page of the time
  axis they belong to may be turned, or the tank restarted, before they are drawn.

The property that makes each part correct:

* protocol: a packet that is written is read back as itself, and a text that is no
  packet gives the error packet (lemmas `CommandRoundTrip`, `ReplyRoundTrip`,
  `ParseWithResult`, `AnswerIsReply` of the proofs; `Codec` for the characters);
* client: its limits never cross nor leave 0..100, and no command is too large;
* server: the valve follows its target and never moves beyond it;
* system: what client and server disagree on is covered by what was given up, so the
  valve stays in range; the loop never gets stuck; the valve gets where it is wanted;
* start and stop: nobody draws without a window, and closing the window ends the
  process with everything closed;
* graphics: no sample is lost that was not dropped on purpose, none is drawn twice, out
  of order or beside the graph; a request for a new graph is carried out.

`PROJECT.json` lists the hazards with their lines and the properties that cover them.

## 2. The modules

```
Protocol  <-- TankParameters <--+-- Client --+
    ^                           |            +-- RemoteTank <-- MCRemoteTank
    +------ Network <-----------+-- Server --+       |
                                                     +-- INSTANCE Valve
RemoteTank <-- RemoteTankProofs <-- TypeProofs <--+-- ValveRangeProofs <-- AgreementProofs
                                                  +-- FlagProofs

Protocol <-- Codec <--+-- MCCodec
                      +-- CodecProofs

SampleQueue <-- Graphics <--+-- MCGraphics
                   |        +-- GraphicsProofs
                   +-- INSTANCE DropQueue

Lifecycle <-- MCLifecycle            Lifecycle <-- LifecycleProofs
```

**Protocol** gives the packets and pure operators. A datagram is a peer, a word, a
complement (number, "OK", nothing or other text) and how badly it is spoilt: intact,
near (no longer parses, but within the tolerance of a reply with its word) or far. This is what
the parser and the similarity test can tell apart. Two peculiarities of the code are
kept: text that is no number is read as 0, a valid opening; and `min` of
`comm_corruption.c` returns the largest of its arguments, so that two texts are similar
only if they agree up to their last characters. The digits and the separator are
those last characters: a reply with the right word and another value is similar, one
with another word is not. `Garbled` and `Altered` are what the relay's corruption may
make of a datagram, however many of its bytes it replaces. `Garbled`: a text that no longer
parses and resembles any of the replies, not only the one it was, or none. `Altered`: the
text of another packet, with another value, another keyword, or both ("Comm#OK!" may
become "Open#aK!", a valve reply of value 0). `Respelt` says which ones, from what the
relay cannot do: it writes letters and digits only, so it moves no separator and puts none
in; it may take the "#" away, and the complement is then the end of a longer word.
`Codec` checks that nothing else comes out of it.

**Codec** is the same path with characters: the words of `comm.h`, `format_message` with
the 15 characters that `snprintf` writes, the 16 bytes of `send_message`, the bytes that
the relay replaces in them, the string that `receive_message` ends, `sscanf` with its
widths, `atoi`, and `levenshtein_distance`. The recursion of the last is over the ends
of the two strings; the model builds the table of distances row by row (`NextRow`). A
behaviour is a packet on its way, through `corrupt_bytes` once or not at all.

**Network** is the path: datagrams in transit each way and the two socket buffers.
Each kind of fault of the relay is present if `Faults` names it. `receive_message` takes
the head of the buffer and drops the rest, and leaves the address of the *last* one.
A datagram in transit may be held back; without the fault `delay` it still arrives
before the client's timeout.

**Client** has one action for each thing a thread does between two sleeps:

| Action | Code |
|---|---|
| `SendCommand` | `update_tank` when no answer is awaited, `set_valve_packet_setup`, `send_command` (a failed `sendto` is retried on the next turn) |
| `ReceiveAnswer` | `check_answer` with a datagram, `check_valid_response`, `treat_answer` |
| `AnswerTimeout` | `check_answer` after 250 ms with the empty buffer, `treat_answer` |
| `ControlStart`, `UpdateController` | `control_tank_level`, `update_controller` |
| `ClientDrawGraph` | the draw thread when the graph is to be recreated |

These are atomic for each other: `update_tank` takes the tank mutex at most once in each
call, and `update_controller` runs wholly under it. `set_max_min_opening` writes one
limit without the mutex; a racing `controller_saturation` reads either the old or the
new one, which is one of the two orders of the actions.

**Server** has `ServeCommand` (`receive_command` and `command_action`), `PlantStart`,
`TankTimeStep` and `ServerDrawGraph`. `ServerInit` is a server that has just come up,
or one that ran before, with its valve anywhere and moving to anywhere.

**RemoteTank** composes them, adds further clients that only send (any of
`OtherCommands`, at times of their own), states fairness and the properties, and shows
that the system implements **Valve**, the abstract machine: a target that moves by
bounded changes inside 0..Top, a restart, and a valve that moves towards its target at a
bounded rate. The mapping is `position <- server_tank.input`, `target <-
server_tank.input + server_tank.delta`.

**Lifecycle** is either program from `main` to `exit`: the main thread, four workers,
the running flag, the connection flag, the window and the socket. With
`WaitsForConnection` it is the client, without it the server, which creates and joins
the plant thread before the IP thread. `socket` may fail, and the IP thread goes on
without one, as in the code; `close_socket` may fail, as it must then, and ends the
process with `EXIT_FAILURE` (`CloseSocketFails`).

**Graphics** is the graph of either program and the four threads that meet there, over
**SampleQueue**, the ring. `sdl_mutex` is held across steps, as in the code; the queue
and the flag have mutexes of their own for one operation each, one step here:

| Action | Code |
|---|---|
| `TakeSample` | `get_tank` in the data thread |
| `TryLockSdl`, `QueueSample` | `update_graph_data`: `trylock` fails, `queue_write` |
| `NextEntry`, `DrawEntry` | `update_graph_data`: `queue_read` until it is empty, then the sample itself; `modular_datadraw` of each |
| `ReadFlag`, `LockSdl`, `Flip` | `draw_graph` without a request |
| `NewGraph`, `GraphRecreated`, `EmptyQueue` | `clear_graph`, and `clear_queue` for `recreate_graph` |
| `LookForEvents`, `EventsSeen` | `window_closed` of the main thread |
| `RestartTank`, `SetRecreateGraph` | the IP thread: `start_tank` (server, sets the time back) or `reset_time` (client, does not), then `set_recreate_graph` |

A sample is a number, which stands for the level and the openings, and the time it was
taken at. Several may have the same time: the client's stands still until it is connected.
`canvas` records what was drawn, and
where on the time axis, since the graph was made. **DropQueue** is what the ring
promises: first in, first out, the oldest dropped when there is no room, emptied only on
request. The mapping is `queue <- Queued`, the samples from tail to head,
`Capacity <- MAX_QUEUE - 1` and `clearing <- draw_thread = "emptying"`.

### What is abstracted

* The PID result is any member of `RawOutputs` before saturation: its real-valued
  history (gain, anti-windup, rounding) only decides which value, and the limits must
  hold for every one. The level after a plant step is any member of `RawLevels` before
  saturation, for the same reason; the output valve only enters the level.
* A plant step moves the valve by 1..`PlantRate` units, the code by `10*dt` of a real
  opening; the comparison with what is left is the code's.
* In `Graphics` time is counted in whole units, of which `WIDTH` make a page; the code
  compares the time rounded up with a multiple of `WIDTH`, which for whole numbers is
  the same. Level and openings of a sample only decide which pixel, and are a number.
* Otherwise time is the order of steps. `PeriodsKept` says that a thread with the shorter period
  is never skipped by the one with the longer period: control (20 ms) before IP (25 ms)
  in the client, plant (10 ms) before IP (15 ms) at the start of the server. Only the
  sleeps of the code suggest it, nothing enforces it, so it is a constant and the
  theorems name it. `StaleDelta` shows what happens without it.
* `server_address` of the client is overwritten with the sender of each datagram; only
  the server sends to the client here, so it never changes.

## 3. The runs

| Run | Question | Result |
|---|---|---|
| `response_faults` | Replies lost, garbled or altered, sends that fail: do the limits cover every disagreement, and does the valve stay in range and refine `Valve`? | holds |
| `refused_commands` | Commands that arrive garbled: does the refusal and retry leave exact agreement, nothing booked twice, nothing given up? | holds |
| `spoilt_both_ways` | All losses and corruptions at once: is the client's own bookkeeping still sound, and a left-over wrong-value flag spent only once? | holds |
| `late_replies` | Late, reordered datagrams and a second client that starts the tank and moves its valve, so that a reply meets the wrong command: is the bookkeeping still sound? | holds |
| `live` | Replies lost: does the client connect, the loop go on, the valve reach the controller's output, and the system implement the fair `Valve`? | holds |
| `client_stops` | Does the client start and stop in order, connected or not, with a socket or without, and does no thread begin a round once SDL has quit? | holds |
| `graph` | The data, draw, main and IP threads at the graph: is the ring a queue that drops the oldest, are samples drawn in order and on the graph, is no graph freed while one draws on it, is a request for a new graph carried out, and a restart's with the queue emptied? | holds |
| `codec` | Is a packet read back as written, and do the programs take whatever the relay makes of any of its bytes for one of the datagrams of `Protocol`? | holds |
| `stale_delta` | "Maintains controller between 0 and 100" without `PeriodsKept` | violated |
| `lost_command` | "current input valve opening percentage (0-100)" if a command is lost | violated |
| `early_close` | "Waits for all threads to finish to close the program." if the window is closed at once | violated |
| `recreated_graph` | "Clears memory and recreates graph" when the server's tank is restarted | violated |

### The four disagreements

* **`stale_delta`**. After a spoilt reply the IP thread gives the change up at one limit
  but leaves `tank.delta` as it is. Each time the control thread then misses its turn, the
  same change is sent and given up again; nothing checks that there is still room. In the
  run `max_u` falls below 0, and `controller_saturation` returns values outside 0..100.
  One missed turn is harmless as long as there is room: with 3 of 100 at a time it takes
  many turns missed, each with a spoilt reply.
* **`lost_command`**. A timeout books the change as carried out. If it was the command
  that was lost, the server's valve never moved, and no limit is tightened. Openings
  that arrive after closings that did not take the server's valve beyond 100.
* **`early_close`**. Each thread first loops until it reads the running flag as set. If
  the flag was set and cleared between two of its looks, it loops for ever and `main`
  never returns from `pthread_join`. Main looks at the window at once, before its
  first sleep, and the draw thread sleeps 150 ms between looks; the hang needs the
  window closed within that time.
* **`recreated_graph`**. `current_mod`, the page of the time axis, only grows. When the
  server restarts its tank after a page was turned, the graph is made anew and the time
  starts at 0, but samples are drawn at `time - current_mod * WIDTH`, left of the graph,
  until the time has passed all the pages of the run before. The run has the server
  started with `-g`, where no page end makes the graph anew; the property looks at what is
  drawn after the graph was made for the restart.

Short of a disagreement, because nothing in the repository promises otherwise: a request
to recreate the graph that comes after `clear_graph` has released `sdl_mutex` and before
`graph_recreated` puts the flag back is forgotten (`RequestHonoured` leaves this window
out); one that comes when the draw thread is already at a `clear_graph`, or that a page
turned in front of the draw thread overwrites, makes the graph anew without emptying the
queue (`RequestHonoured` says that these are the only cases); a data thread that is in
its last round while the draw thread calls `SDL_Quit` draws on a surface that SDL has
freed (`NoRoundAfterQuit` says that it is only that round); a reply to the handshake
that is corrupted into a valve's leaves the wrong-value flag set until the first valve
command that is not answered as expected, a missing answer included, which then counts
as one that was perhaps carried out (`WrongValueFlagSpentOnce` says that this happens
once); and with two clients the answer goes to whoever sent the last datagram drained.

### Bounds, and why they are enough

* `MAX_VALUE` is 2 to 6 instead of 100 and `MAX_DELTA` 1 or 2 instead of 3. What matters
  is that several changes fit between the limits (4 and 2: the limits take two spoilt
  replies to meet, in all orders), that a change is smaller than the room at first and
  larger later, and that the start lies inside. Nothing in the code depends on the size
  beyond comparisons and sums. Theorems take over for all other values.
* `MaxInFlight`: without `delay` the client waits for an answer or for a timeout when
  nothing is on its way, so there is never more than one datagram: 1 loses nothing.
  With `delay` and a second client it is 2: a late reply and the next command, or two
  commands in the server's buffer so that the answer goes to the wrong sender. The code
  has no such bound; a sender blocked by it would only find its turn later.
* `MaxDrift`: a command that would take the server's target further than this out of
  range is not served. It is 2, one `MAX_DELTA`, where the valve's range is a property,
  so that the range can be left; in the two runs that only ask about the client
  (`spoilt_both_ways`, `late_replies`) it is 0: the client cannot tell a command that was
  not served from one that is late or lost.
* `OtherCommands`: the second client of `late_replies` starts the tank, which sets it back under
  the first, and closes its valve. The other commands multiply the states and add replies
  that the first client's own late ones are like; the theorems about the client
  (`ClientLimitsHold`, `ValveCommandsBounded`, `WrongValueFlagIsSpentOnce`) have them all.
* `late_replies` is the client started with the argument that leaves the server as it is
  (`RestartServer` is FALSE); all other runs restart the tank when they connect.
* `PlantRate` 1 or 2: 2 allows steps shorter than, equal to and longer than what is left.
* `RawOutputs`: below, inside and above the range; `MCExtremes` leaves out the middle
  where faults multiply the states, `MCWideOpen` is the constant demand of `live`.

* `graph`: a ring of 3 places, which holds 2, wraps, overruns and is emptied within the 4
  samples of a behaviour (`MaxSamples`); pages of width 1, so that a sample may leap over a
  page and several be due at once; times up to 4 (`MaxTime`), steps from 0, for a time that
  stands still, to 2 (`MaxStep`); one restart, at any moment, with samples of both runs in
  the ring. Both programs in one run. `recreated_graph` needs only the server and one page.
  The proofs take over for other sizes.
* `codec`: every keyword with one-, two- and three-digit values. `MCReplacements` has two
  kinds of corruption: any one or two of the 16 bytes replaced by two digits, so that a value
  stays in or leaves 0..100, or by the letters of "OK"; and as many bytes as one likes
  replaced by those of a text the datagram may come to resemble, or turn into, altogether or
  in part (`Targets`). Three bytes turn "Err!" into "Ope!", for one, which is within the
  tolerance of "Open#5!" because `min` returns the largest, so that a refusal counts as a
  reply that was perhaps carried out. The theorem takes over for all values, all
  characters and all sets of bytes.

### Fairness

Every thread is a loop around a finite sleep, none blocks on another except for a mutex
held for a few assignments, so each thread's turn is weakly fair: the control thread,
the IP threads, the plant thread. The draw threads need none. Deliveries are strongly
fair: a path that is used again and again lets a datagram through; losing is never
forced. Without it nothing could be promised, since the relay may lose everything. In
`Lifecycle` the main thread and the workers are weakly fair; that the window is closed,
or that a connection is found, is never assumed.

In `Graphics` the data thread and the draw thread are weakly fair, and so is the main
thread once it holds `sdl_mutex`. The draw thread waits for that mutex with
`pthread_mutex_lock` while others take and release it; it is strongly fair there, since
they hold it for a few calls and then sleep 50 or 500 ms. The data thread only
tries. That the tank is restarted, or the main thread looks for events, is not assumed.

`live` has no spoilt replies: each one tightens a limit for good (`max_u` and `min_u` are
never reset, not even when the tank is restarted), so the output that can be reached
shrinks; that is what the code does, not a failure to make progress.

`client_stops` allows deadlock because an exited process takes no step.

## 4. The proofs

All of them hold for every value of the constants that meets the named assumptions.

* **`TypeProofs.TypeCorrect`**: `Spec => []TypeOK`, with no further condition: all
  faults, all further clients. Inductive invariant `TypeInv`: the type, and that the
  command that is awaited an answer is the one of the state, without which the level
  read from a reply could be anything.
* **`RemoteTankProofs`**: if `PeriodsKept`, the client's limits never cross, the
  belief lies between them (`ClientLimitsHold`), the controller's output is in range
  (`ControllerStaysBetweenLimits`) and no command asks for too much
  (`ValveCommandsBounded`), **whatever the network does**. `ClientLimits` is not
  inductive: a spoilt reply takes the command's value off a limit, so `LimitsInv` adds
  that belief plus `tank_before` fits between the limits while a valve command is awaited
  an answer, that belief plus `delta` does once the control thread has run, and
  that both are 0 before it ever ran. The control thread re-establishes the second part
  after each answer; this is where `PeriodsKept` is used.
* **`ValveRangeProofs`**: if in addition only replies are lost or spoilt, there is one
  client and the tank is restarted when it connects (`OnlyRepliesSuffer`), the
  server's valve and its target stay in range (`ValveStaysInRange`), the disagreement is
  covered (`DriftIsCovered`) and the system implements the abstract valve
  (`ValveIsImplemented`). `RangeInv` adds to `LimitsInv` where the one datagram is
  (`Traffic`: nowhere, on the way there, in the server's buffer, on the way back, in
  the client's), that the tank is as started until the loop of readings and settings
  begins, and `Accounting`: target minus belief minus what was executed but not booked
  lies in `-min_u .. MAX_VALUE - max_u`. Commands are read back as written
  (`CommandRoundTrip`) and never refused (`NotRefused`). The refinement theorem is about
  the safety part; its fairness is model-checked by `live`.
* **`AgreementProofs.AgreementIsExact`**: if at worst commands are garbled, so that the
  server refuses them, or sends fail (`OnlyRefusals`, with one client, the restart and
  `PeriodsKept`), the client's belief is exact between two commands and the limits are
  still 0 and `MAX_VALUE`. `AgreementInv` adds to `LimitsInv` which datagram can be under
  way (the command as sent or spoilt; the refusal, or the very reply that is expected),
  and `ExactAccounting`: target minus belief is the awaited change if it `CarriedOut`, 0
  otherwise. A refusal therefore changes nothing and the retry counts once.
  **`RefusalsKeepValveInRange`** and **`RefusalsImplementValve`** draw the conclusion for
  the server: with commands spoilt instead of replies, too, the valve stays in range and
  the system implements the abstract valve. `RefusedRangeInv` adds to `AgreementInv`
  that the server's valve and its target are in range; exact agreement turns the bounds
  of the client's belief into bounds of the target. `ValveRangeProofs` cannot be used
  for this: its `Traffic` has no spoilt command and no refusal.
* **`FlagProofs.WrongValueFlagIsSpentOnce`**: a wrong-value flag that is set between two
  calls of `treat_answer` means that nothing has been given up yet, for **every** set of
  faults, any further clients and whether or not `PeriodsKept`. A corrupted reply to the
  handshake can set the flag and leave it so; what matters is that it cannot be held
  against one reply after another. `FlagInv` adds that nothing is given up during the
  handshake; once the tank is started only the state that sets the valve can set the flag
  (`AnyLevelIsExpected`), and that state clears it with the change it gives up.
* **`LifecycleProofs`**: `LifecycleTypeCorrect`, `WindowIsThere`, `ExitIsClean` and
  `NoRoundStartsAfterQuit` for both programs, from `LifecycleInv`, which ties the flag,
  the window and each thread's place to the place of the main thread. The last is an
  action property: the window is closed only when the flag is cleared for good.
* **`GraphicsProofs`**, for every size of ring and page, any time and any number of
  restarts: `GraphicsTypeCorrect`; `RingIsDropQueue`, the refinement, from lemmas that
  say what `QueueRead`, `QueueWrite` and `ClearQueue` do to the sequence `Queued`
  (the wrap of the indices is settled once in `RingIndex` and `NextPlaceIs`);
  `GraphIsKeptWhileDrawing`, the action property that `clear_graph` never replaces the
  graph between two samples of a data thread, from `MutexInv`, which says who may hold
  `sdl_mutex` where; `DrawnInOrderAlways` and `DrawnOnGraphAlways`. Their invariant `GraphInv` is an order
  of everything there is: what was drawn, then the entry being drawn, then the ring in its
  order, then the sample in hand, then now; and, while the time of the tank only grows,
  that nothing still to be drawn lies before the page (`PageInv`). Without the part about
  the ring a sample that waits while a page is turned could be drawn left of it; the run
  `recreated_graph` shows that this is what happens once the time is set back.

* **`CodecProofs`**, for every `MAX_VALUE` below 1000 (three digits), every set of values
  sent and every set of characters without the separators:
  * `SentIsReadBack`: a packet that is not touched is read back as itself. `PartsAre` says
    what a text consists of, and that `snprintf` cuts none short; `LengthBeforeIs` and
    `ScanIsCut` what `sscanf` reads; `DigitsIs` and `AtoiIs` that digits are read as the
    number they were written for; `WordsDiffer` that two words of a table differ in their
    first two letters, so that only one is found.
  * `CorruptionIsCovered`: with **any** number of bytes replaced by any characters but the
    separators, the programs take the text for the datagram sent, or for one of `Garbled` or
    `Altered`. The inductive invariant `SpoiltInv` says that the buffer is the one sent but for
    bytes the relay wrote; so the separators that are left stand where they stood.
    `ReadSpoilt` and `ParsedSpoilt` go through what can be read then, and find it in
    `Respelt`. `OthersDiffer` shows that a text which is read as one reply resembles no other,
    as `IsPacketSimilar` has it; one that is read as none may resemble any (`Garbled`).
  * The latter rests on `Agree`, which says what the distance of `comm_corruption.c`
    measures: if it is at most t, the characters of either text but for its last t are all
    found in the other, in their order. The proof walks the table of distances
    (`DistanceTable`) with induction. `Telltale`, `Found` and `FoundBack` then get from a
    resemblance the letters that tell one reply from another.

  The recursive functions of `Codec` are reasoned about without the library's induction
  theorems, which take an operator: `Minimum` gets the smallest element of a set of numbers
  from the well-foundedness of `<`, and `Induction` and `Recursion`, for a set and for a
  function, follow from it.

Every invariant that a passing run checks is stated by a theorem, and so is every safety
property of a step. Only model-checked is what is out of the prover's reach: liveness
(`Connects`, `LoopKeepsGoing`, `ValveReachesOutput`, `ImplementsFairValve`,
`StopsOnceStarted`, `RequestHonoured`). No module has a RECURSIVE operator.

## 5. Not modelled

* the PID's arithmetic, the level's differential equation, the output valve's programme:
  real-valued, and each feeds only a value that the models leave open;
* real time: the lengths of the sleeps and timeouts (see `PeriodsKept`), and the race of
  the client's `reset_time` and `get_tank_time_delta` over `time_before`, which only
  reaches the time axis of the graph (in `Graphics` the client's time never goes back,
  which a torn read of `time_before` could break); `get_time_delta` itself, whose two branches compute the
  same difference;
* pixels, the command line (its restart and graph flags are the constants
  `RestartServer` and `clear_graph_on_overflow`), logging;
* failing to bind a port, which the code logs and otherwise ignores;
* the start of the plant thread after the first command (`PeriodsKept` rules it out), and a
  server that ran before, elsewhere than at 50, together with a START that is lost: the
  belief is then wrong from the start, and no property of the valve holds.

## 6. Order of work, and what is left

The protocol loop and the valve came first, since nothing but the client's bookkeeping
keeps the valve in range: Protocol, Network, Client, Server, RemoteTank with Valve; then
Lifecycle; then the graph and its queue; then the characters behind the datagrams; the
proofs of each after its runs.

What is left is small. `Graphics` and `Lifecycle` could be composed, so that the graph is
closed while samples are queued. `TankTimeStep` could follow the output valve's
programme with a discretised level, which no property of the protocol depends on.
`clear_graph_on_overflow` is TRUE in `graph` and FALSE in `recreated_graph`; the theorems
hold for both values.
