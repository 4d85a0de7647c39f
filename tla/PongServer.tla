------------------------------ MODULE PongServer ------------------------------
(***************************************************************************)
(* The pong server in its four forms (UDP, one TCP connection, a thread    *)
(* for each of a few TCP connections, select over all of them) and its     *)
(* clients, who ping and wait for a pong a few times.  System calls do not *)
(* fail, but datagrams are lost, clients are killed, and what TCP does to  *)
(* who writes to or reads from a connection its peer has left happens.     *)
(***************************************************************************)
EXTENDS Integers, FiniteSets

CONSTANTS
    CLIENTS,
    MESSAGES,          \* NUM_OF_MSG_TO_SNG and NUM_OF_MSG_CAN_GET
    NUM_OF_THREADS

ASSUME ClientsAssumption == IsFiniteSet(CLIENTS)

STDIN == 0  fd_tcp == 3  fd_udp == 4
Descriptors == 0 .. fd_udp + Cardinality(CLIENTS)
LowestOf(S) == CHOOSE x \in S : \A y \in S : x <= y

VARIABLES
    mode,        \* which of the four main calls
    up,          \* "serves", "ended" or "killed", by SIGPIPE
    served,      \* datagrams received, or connections accepted
    master, max_fd,
    temp,        \* the selected descriptors that are still to be handled
    typed,       \* the line on standard input that is not read yet
    pro,         \* each client's protocol
    client,      \* where each client is
    pings,       \* the pings each has still to send
    datagrams,   \* who has a datagram at the server's socket
    conn,        \* "none", "backlog", "open", "closed" by the server, "reset"
    socket,      \* the server's descriptor of each open connection
    unread,      \* pings on a connection that the server has not read
    pongs,       \* pongs on their way to each client
    orphan,      \* the server wrote to a client that had left
    forsaken     \* history: a ping or a pong of this client was lost

pongVars == <<mode, up, served, master, max_fd, temp, typed, pro, client, pings, datagrams, conn,
              socket, unread, pongs, orphan, forsaken>>
serverVars == <<mode, up, served, master, max_fd, temp, typed, pro>>

\* InitBigServer's, and the clients' sockets before they are connected.
PongInit ==
    /\ mode \in {"udp", "tcp", "threads", "select"}
    /\ pro \in [CLIENTS -> CASE mode = "udp" -> {"udp"} [] mode = "select" -> {"udp", "tcp"}
                             [] OTHER -> {"tcp"}]
    /\ up = "serves" /\ served = 0
    /\ master = {STDIN, fd_tcp, fd_udp} /\ max_fd = fd_udp + 1
    /\ temp = {} /\ typed = "nothing"
    /\ client = [c \in CLIENTS |-> IF pro[c] = "udp" THEN "sends" ELSE "connects"]
    /\ pings = [c \in CLIENTS |-> MESSAGES]
    /\ datagrams = {} /\ conn = [c \in CLIENTS |-> "none"] /\ socket = [c \in CLIENTS |-> 0]
    /\ unread = [c \in CLIENTS |-> 0] /\ pongs = [c \in CLIENTS |-> 0]
    /\ orphan = [c \in CLIENTS |-> FALSE] /\ forsaken = [c \in CLIENTS |-> FALSE]

Gone(c) == client[c] \in {"returned", "killed"}
Open == {c \in CLIENTS : conn[c] = "open"}

\* What the clients see when the server's descriptors of these connections are closed.
Shut(C) == [c \in CLIENTS |-> IF c \notin C THEN conn[c]
                              ELSE IF unread[c] > 0 \/ conn[c] = "backlog" THEN "reset" ELSE "closed"]

\* The process is gone, and what was at its sockets is lost.
ServerLeaves(how) ==
    /\ up' = how
    /\ conn' = Shut({c \in CLIENTS : conn[c] \in {"backlog", "open"}})
    /\ forsaken' = [c \in CLIENTS |-> forsaken[c] \/ c \in datagrams]
    /\ datagrams' = {} /\ temp' = {}
    /\ UNCHANGED <<mode, max_fd, pro, client, pings, pongs, orphan, unread>>

-----------------------------------------------------------------------------
(* What every form does with a datagram and with a connection.             *)

\* recvfrom and sendto; the pong goes to where the ping came from.
AnswersDatagram(c) ==
    /\ c \in datagrams
    /\ datagrams' = datagrams \ {c}
    /\ \/ pongs' = [pongs EXCEPT ![c] = @ + 1] /\ UNCHANGED forsaken
       \/ forsaken' = [forsaken EXCEPT ![c] = TRUE] /\ UNCHANGED pongs

\* recv of what has come, and send.
AnswersConnection(c) ==
    /\ unread[c] > 0
    /\ unread' = [unread EXCEPT ![c] = 0]
    /\ IF Gone(c) THEN orphan' = [orphan EXCEPT ![c] = TRUE] /\ UNCHANGED pongs
       ELSE pongs' = [pongs EXCEPT ![c] = @ + 1] /\ UNCHANGED orphan

ReadsEnd(c) == unread[c] = 0 /\ Gone(c)

-----------------------------------------------------------------------------
(* ActiveUDP, ActiveTCP and ActiveTCPThreads.                              *)

ActiveUDP ==
    /\ mode = "udp" /\ up = "serves"
    /\ IF served < MESSAGES
       THEN /\ \E c \in CLIENTS : AnswersDatagram(c)
            /\ served' = served + 1
            /\ UNCHANGED <<mode, up, master, max_fd, temp, typed, pro, client, pings, conn, socket,
                           unread, orphan>>
       ELSE ServerLeaves("ended") /\ UNCHANGED <<served, master, typed, socket>>

Connections == IF mode = "tcp" THEN 1 ELSE NUM_OF_THREADS

AcceptTCPConnection ==
    /\ mode \in {"tcp", "threads"} /\ up = "serves" /\ served < Connections
    /\ \E c \in CLIENTS : conn[c] = "backlog" /\ conn' = [conn EXCEPT ![c] = "open"]
    /\ served' = served + 1
    /\ UNCHANGED <<mode, up, master, max_fd, temp, typed, pro, client, pings, datagrams, socket,
                   unread, pongs, orphan, forsaken>>

\* A turn of the loop of ActiveTCP, or of DoTcpRoutine on its thread.
DoTcpRoutine(c) ==
    /\ mode \in {"tcp", "threads"} /\ up = "serves" /\ conn[c] = "open"
    /\ \/ AnswersConnection(c) /\ UNCHANGED conn
       \/ ReadsEnd(c) /\ conn' = Shut({c}) /\ UNCHANGED <<unread, pongs, orphan>>
    /\ UNCHANGED <<serverVars, client, pings, datagrams, socket, forsaken>>

\* The threads are joined; the listening socket is closed.
ActiveTCPThreads ==
    /\ mode \in {"tcp", "threads"} /\ up = "serves" /\ served = Connections /\ Open = {}
    /\ ServerLeaves("ended") /\ UNCHANGED <<served, master, typed, socket>>

-----------------------------------------------------------------------------
(* PingPongServer.                                                         *)

Readable(fd) ==
    \/ fd = STDIN /\ typed # "nothing"
    \/ fd = fd_tcp /\ \E c \in CLIENTS : conn[c] = "backlog"
    \/ fd = fd_udp /\ datagrams # {}
    \/ \E c \in Open : socket[c] = fd /\ (unread[c] > 0 \/ Gone(c))

IsOpen(fd) == fd \in {STDIN, fd_tcp, fd_udp} \/ \E c \in Open : socket[c] = fd

\* A timeout changes nothing.  A failure, on a descriptor that was closed, leaves the set
\* as it was given, and is taken for descriptors that are ready.
Select ==
    LET looked == {fd \in master : fd < max_fd}
        ready == {fd \in looked : Readable(fd)}
    IN /\ mode = "select" /\ up = "serves" /\ temp = {}
       /\ temp' = IF \A fd \in looked : IsOpen(fd) THEN ready ELSE looked
       /\ temp' # {}
       /\ UNCHANGED <<mode, up, served, master, max_fd, typed, pro, client, pings, datagrams, conn,
                      socket, unread, pongs, orphan, forsaken>>

\* The loop goes up: the lowest of the selected descriptors is next.
Handles(fd) == mode = "select" /\ up = "serves" /\ temp # {} /\ fd = LowestOf(temp)

STDInHandle ==
    /\ Handles(STDIN) /\ typed # "nothing"
    /\ typed' = "nothing"
    /\ IF typed = "quit"
       THEN ServerLeaves("ended") /\ UNCHANGED <<served, master, socket>>
       ELSE /\ temp' = temp \ {STDIN}
            /\ UNCHANGED <<mode, up, served, master, max_fd, pro, client, pings, datagrams, conn,
                           socket, unread, pongs, orphan, forsaken>>

\* Bug: max_fd is the new descriptor, not one more.
TCPAccept_OffByOne ==
    /\ Handles(fd_tcp)
    /\ \E c \in CLIENTS :
        LET new_fd == LowestOf({fd \in Descriptors : fd > fd_udp /\ ~IsOpen(fd)})
        IN /\ conn[c] = "backlog" /\ conn' = [conn EXCEPT ![c] = "open"]
           /\ socket' = [socket EXCEPT ![c] = new_fd]
           /\ master' = master \cup {new_fd}
           /\ max_fd' = IF max_fd > new_fd THEN max_fd ELSE new_fd
    /\ temp' = temp \ {fd_tcp}
    /\ UNCHANGED <<mode, up, served, typed, pro, client, pings, datagrams, unread, pongs, orphan,
                   forsaken>>

\* max_fd grows with every connection, also with one whose descriptor is below it.
TCPAccept ==
    /\ Handles(fd_tcp)
    /\ \E c \in CLIENTS :
        LET new_fd == LowestOf({fd \in Descriptors : fd > fd_udp /\ ~IsOpen(fd)})
        IN /\ conn[c] = "backlog" /\ conn' = [conn EXCEPT ![c] = "open"]
           /\ socket' = [socket EXCEPT ![c] = new_fd]
           /\ master' = master \cup {new_fd}
           /\ max_fd' = (IF max_fd > new_fd THEN max_fd ELSE new_fd) + 1
    /\ temp' = temp \ {fd_tcp}
    /\ UNCHANGED <<mode, up, served, typed, pro, client, pings, datagrams, unread, pongs, orphan,
                   forsaken>>

UDPHandle ==
    /\ Handles(fd_udp)
    /\ \E c \in CLIENTS : AnswersDatagram(c)
    /\ temp' = temp \ {fd_udp}
    /\ UNCHANGED <<mode, up, served, master, max_fd, typed, pro, client, pings, conn, socket,
                   unread, orphan>>

\* Bug: the descriptor is closed and stays in the set.
TCPHandle_NotCleared(c) ==
    /\ Handles(socket[c]) /\ conn[c] = "open"
    /\ temp' = temp \ {socket[c]}
    /\ \/ AnswersConnection(c) /\ UNCHANGED <<master, conn, socket>>
       \/ /\ ReadsEnd(c) /\ UNCHANGED master
          /\ conn' = Shut({c}) /\ socket' = [socket EXCEPT ![c] = 0]
          /\ UNCHANGED <<unread, pongs, orphan>>
    /\ UNCHANGED <<mode, up, served, max_fd, typed, pro, client, pings, datagrams, forsaken>>

\* A ping, or the end of the connection.
TCPHandle(c) ==
    /\ Handles(socket[c]) /\ conn[c] = "open"
    /\ temp' = temp \ {socket[c]}
    /\ \/ AnswersConnection(c) /\ UNCHANGED <<master, conn, socket>>
       \/ /\ ReadsEnd(c) /\ master' = master \ {socket[c]}
          /\ conn' = Shut({c}) /\ socket' = [socket EXCEPT ![c] = 0]
          /\ UNCHANGED <<unread, pongs, orphan>>
    /\ UNCHANGED <<mode, up, served, max_fd, typed, pro, client, pings, datagrams, forsaken>>

\* A pong to a client that had left was answered by a reset: recv fails, which only a zero
\* would have told, and send raises SIGPIPE.
TCPHandleReset(c) ==
    /\ Handles(socket[c]) /\ conn[c] = "open" /\ ReadsEnd(c) /\ orphan[c]
    /\ ServerLeaves("killed") /\ UNCHANGED <<served, master, typed, socket>>

PingPongServer == \/ Select \/ STDInHandle \/ TCPAccept \/ UDPHandle
                  \/ \E c \in CLIENTS : TCPHandle(c) \/ TCPHandleReset(c)

-----------------------------------------------------------------------------
(* The clients.                                                            *)

Connect(c) ==
    /\ client[c] = "connects"
    /\ IF up = "serves"
       THEN conn' = [conn EXCEPT ![c] = "backlog"] /\ client' = [client EXCEPT ![c] = "sends"]
       ELSE client' = [client EXCEPT ![c] = "returned"] /\ UNCHANGED conn
    /\ UNCHANGED <<serverVars, pings, datagrams, socket, unread, pongs, orphan, forsaken>>

\* Over UDP nobody tells that a datagram is lost.  A connection that the server has left
\* takes one more message, and raises SIGPIPE at the next.
Send(c) ==
    /\ client[c] = "sends" /\ pings[c] > 0
    /\ pings' = [pings EXCEPT ![c] = @ - 1]
    /\ IF pro[c] = "udp"
       THEN /\ \/ up = "serves" /\ datagrams' = datagrams \cup {c} /\ UNCHANGED forsaken
               \/ forsaken' = [forsaken EXCEPT ![c] = TRUE] /\ UNCHANGED datagrams
            /\ client' = [client EXCEPT ![c] = "waits"]
            /\ UNCHANGED <<conn, unread>>
       ELSE /\ client' = [client EXCEPT ![c] = IF conn[c] = "reset" THEN "killed" ELSE "waits"]
            /\ conn' = [conn EXCEPT ![c] = IF @ = "closed" THEN "reset" ELSE @]
            /\ unread' = [unread EXCEPT ![c] = IF conn[c] \in {"backlog", "open"} THEN @ + 1 ELSE @]
            /\ UNCHANGED <<datagrams, forsaken>>
    /\ UNCHANGED <<serverVars, socket, pongs, orphan>>

\* recv returns with a pong, or because the connection is over.
Receive(c) ==
    /\ client[c] = "waits" /\ (pongs[c] > 0 \/ conn[c] \in {"closed", "reset"})
    /\ pongs' = [pongs EXCEPT ![c] = IF @ > 0 THEN @ - 1 ELSE 0]
    /\ client' = [client EXCEPT ![c] = "sends"]
    /\ UNCHANGED <<serverVars, pings, datagrams, conn, socket, unread, orphan, forsaken>>

Return(c) ==
    /\ client[c] = "sends" /\ pings[c] = 0
    /\ client' = [client EXCEPT ![c] = "returned"]
    /\ UNCHANGED <<serverVars, pings, datagrams, conn, socket, unread, pongs, orphan, forsaken>>

Interrupt(c) ==
    /\ client[c] \in {"sends", "waits"}
    /\ client' = [client EXCEPT ![c] = "killed"]
    /\ UNCHANGED <<serverVars, pings, datagrams, conn, socket, unread, pongs, orphan, forsaken>>

Type ==
    /\ mode = "select" /\ up = "serves" /\ typed = "nothing"
    /\ typed' \in {"ping", "quit"}
    /\ UNCHANGED <<mode, up, served, master, max_fd, temp, pro, client, pings, datagrams, conn,
                   socket, unread, pongs, orphan, forsaken>>

ServerStep == \/ ActiveUDP \/ AcceptTCPConnection \/ ActiveTCPThreads \/ PingPongServer
              \/ \E c \in CLIENTS : DoTcpRoutine(c)
ClientStep(c) == Connect(c) \/ Send(c) \/ Receive(c) \/ Return(c)

PongNext == ServerStep \/ Type \/ \E c \in CLIENTS : ClientStep(c) \/ Interrupt(c)

-----------------------------------------------------------------------------
\* PingPongServer handles what is ready only, so that one client that has nothing to say
\* never holds up the others, and only a client that left before its pong ends it.
ServerIsNotHeldUp ==
    /\ \A fd \in temp : Readable(fd)
    /\ up = "killed" => \E c \in CLIENTS : client[c] = "killed"

\* A ping is to be answered, unless it or its pong is lost on the way, or the server has ended.
PingIsDue(c) == client[c] = "waits"
PingIsAnswered(c) == client[c] # "waits" \/ forsaken[c] \/ up # "serves"
=============================================================================
