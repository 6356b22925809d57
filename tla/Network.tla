------------------------------ MODULE Network ------------------------------
(***************************************************************************)
(* The UDP path between the clients and the server: the datagrams in       *)
(* transit each way and those waiting in each socket buffer, with what may *)
(* happen to a datagram on the way.  The faults are those of the lossy     *)
(* relay the repository tests with (scripts/udp-lossy-relay.py), and each  *)
(* one is present only if Faults names it.                                 *)
(*                                                                         *)
(* Without "delay" a datagram in transit always arrives before the         *)
(* client's answer timeout; with it a datagram can be late.                *)
(***************************************************************************)
EXTENDS Protocol, Sequences, SequencesExt

CONSTANTS
    Client,         \* the client program that is modelled
    OtherClients,   \* further clients of the same server
    Faults,         \* what can go wrong, a subset of FaultKinds
    MaxInFlight     \* bound: datagrams in transit or buffered, in all

FaultKinds ==
    {"lose_command", "garble_command", "alter_command",
     "lose_response", "garble_response", "alter_response",
     "reorder", "delay", "send_error"}

ASSUME NetworkAssumption ==
    /\ Client \notin OtherClients
    /\ Faults \subseteq FaultKinds
    /\ MaxInFlight \in Nat \ {0}

VARIABLES
    commands,       \* datagrams in transit to the server
    server_socket,  \* datagrams the server has not read yet
    responses,      \* datagrams in transit from the server
    client_socket   \* datagrams the modelled client has not read yet

networkVars == <<commands, server_socket, responses, client_socket>>

Peers == {Client} \cup OtherClients

Datagrams ==
    [peer : Peers, word : Words \cup {""}, complement : Complements,
     form : {"intact", "near", "far"}]

NetworkTypeOK ==
    /\ commands \in Seq(Datagrams)
    /\ server_socket \in Seq(Datagrams)
    /\ responses \in Seq(Datagrams)
    /\ client_socket \in Seq(Datagrams)

NetworkInit ==
    /\ commands = <<>>
    /\ server_socket = <<>>
    /\ responses = <<>>
    /\ client_socket = <<>>

\* The code has no such bound: a sender never waits.
HasRoom ==
    Len(commands) + Len(server_socket) + Len(responses) + Len(client_socket) < MaxInFlight

\* Nothing is on its way to the client or being prepared for it.
NothingInTransit == commands = <<>> /\ server_socket = <<>> /\ responses = <<>>

(* receive_message returns the datagram at the head of the socket and then *)
(* reads, and drops, whatever else is buffered; the address it leaves in   *)
(* from_address is the one of the last datagram read.                      *)
Received(socket) == Head(socket)
LastSender(socket) == Last(socket).peer
Drained == <<>>

\* The datagrams that may arrive next: any one of them if they are reordered.
Deliverable(queue) == IF "reorder" \in Faults THEN DOMAIN queue
                      ELSE {i \in DOMAIN queue : i = 1}

DeliverCommand ==
    \E i \in Deliverable(commands) :
        /\ server_socket' = Append(server_socket, commands[i])
        /\ commands' = RemoveAt(commands, i)
        /\ UNCHANGED <<responses, client_socket>>

DeliverResponse ==
    \E i \in Deliverable(responses) :
        /\ client_socket' = IF responses[i].peer = Client
                            THEN Append(client_socket, responses[i])
                            ELSE client_socket
        /\ responses' = RemoveAt(responses, i)
        /\ UNCHANGED <<commands, server_socket>>

LoseCommand ==
    /\ "lose_command" \in Faults
    /\ \E i \in DOMAIN commands : commands' = RemoveAt(commands, i)
    /\ UNCHANGED <<server_socket, responses, client_socket>>

LoseResponse ==
    /\ "lose_response" \in Faults
    /\ \E i \in DOMAIN responses : responses' = RemoveAt(responses, i)
    /\ UNCHANGED <<commands, server_socket, client_socket>>

CorruptCommand(Corrupted(_)) ==
    /\ \E i \in DOMAIN commands : \E datagram \in Corrupted(commands[i]) :
           commands' = ReplaceAt(commands, i, datagram)
    /\ UNCHANGED <<server_socket, responses, client_socket>>

CorruptResponse(Corrupted(_)) ==
    /\ \E i \in DOMAIN responses : \E datagram \in Corrupted(responses[i]) :
           responses' = ReplaceAt(responses, i, datagram)
    /\ UNCHANGED <<commands, server_socket, client_socket>>

GarbleCommand  == "garble_command"  \in Faults /\ CorruptCommand(Garbled)
AlterCommand   == "alter_command"   \in Faults /\ CorruptCommand(Altered)
GarbleResponse == "garble_response" \in Faults /\ CorruptResponse(Garbled)
AlterResponse  == "alter_response"  \in Faults /\ CorruptResponse(Altered)

NetworkNext ==
    \/ DeliverCommand \/ LoseCommand  \/ GarbleCommand  \/ AlterCommand
    \/ DeliverResponse \/ LoseResponse \/ GarbleResponse \/ AlterResponse

=============================================================================
