----------------------------- MODULE UnixSocket -----------------------------
(***************************************************************************)
(* UNIX domain stream sockets: socket.c and unixsocket.c.                  *)
(*                                                                         *)
(* Every call disables interrupts before it looks at a socket and enables  *)
(* them only after it has set TS_WAITIO, so the way from a test to the     *)
(* halt is one step, and a thread that is resumed starts again from the    *)
(* test.  connect is the exception: it stays runnable and looks at its     *)
(* connection after every interrupt.                                       *)
(*                                                                         *)
(* A process has one thread and its own sockets.  Socket structures are    *)
(* named by the order of their creation and never reused, so that a        *)
(* pointer to a freed one can be told from any other.                      *)
(***************************************************************************)
EXTENDS Integers, Sequences, FiniteSets

CONSTANTS
    SockThreads,        \* the threads
    Sockets,            \* names for the structures socket_create allocates
    SockNames,          \* addresses
    SockData,           \* bytes
    SockBufferSize,     \* SOCKET_BUFFER_SIZE
    MaxDescriptors,     \* sockets one process can have open
    none

ASSUME SocketAssumption ==
    /\ SockBufferSize \in Nat \ {0}
    /\ none \notin SockThreads \cup Sockets \cup SockNames

VARIABLES
    status,         \* status[s]: "unused", "open" or "freed"
    owner,          \* owner[s]: the thread that has s open
    last_thread,    \* last_thread[s]: whom to resume
    name,           \* name[s]: its address, or none
    listening,      \* sockets with SO_ACCEPTCONN
    connection,     \* connection[s]: the peer, or none
    disconnected,   \* sockets whose peer has closed
    buffer_in,      \* buffer_in[s]: bytes that wait for recv
    accept_queue,   \* accept_queue[s]: sockets that wait for accept
    call,           \* call[t]: the call t is in, and its socket
    sleeping        \* threads in TS_WAITIO

sockVars == <<status, owner, last_thread, name, listening, connection,
              disconnected, buffer_in, accept_queue, call, sleeping>>

InUserMode == [in |-> "user", sock |-> none, byte |-> none]

SockInit ==
    /\ status = [s \in Sockets |-> "unused"]
    /\ owner = [s \in Sockets |-> none]
    /\ last_thread = [s \in Sockets |-> none]
    /\ name = [s \in Sockets |-> none]
    /\ listening = {}
    /\ connection = [s \in Sockets |-> none]
    /\ disconnected = {}
    /\ buffer_in = [s \in Sockets |-> <<>>]
    /\ accept_queue = [s \in Sockets |-> <<>>]
    /\ call = [t \in SockThreads |-> InUserMode]
    /\ sleeping = {}

SocketList == {s \in Sockets : status[s] = "open"}
Owned(t) == {s \in SocketList : owner[s] = t}

\* The structure that socket_create would allocate next.
Unused == {s \in Sockets : status[s] = "unused"}
NewSocket == CHOOSE s \in Unused : TRUE
CanCreate(t) == Unused # {} /\ Cardinality(Owned(t)) < MaxDescriptors

\* syscall_socket, for the caller and for accept.
Create(t, s) ==
    /\ status' = [status EXCEPT ![s] = "open"]
    /\ owner' = [owner EXCEPT ![s] = t]

\* get_socket notes who calls; the file system's read and write do not.
Called(t, s) == last_thread' = [last_thread EXCEPT ![s] = t]

InUser(t) == call[t] = InUserMode

Return(t) == call' = [call EXCEPT ![t] = InUserMode]

Enter(t, in, s, b) ==
    call' = [call EXCEPT ![t] = [in |-> in, sock |-> s, byte |-> b]]

\* thread_resume, for a thread that sleeps in the given call.
Resumed(t, in) ==
    IF t # none /\ t \in sleeping /\ call[t].in = in
    THEN sleeping \ {t} ELSE sleeping

-----------------------------------------------------------------------------
SyscallSocket(t) ==
    /\ InUser(t)
    /\ CanCreate(t)
    /\ Create(t, NewSocket)
    /\ last_thread' = [last_thread EXCEPT ![NewSocket] = t]
    /\ UNCHANGED <<name, listening, connection, disconnected, buffer_in,
                   accept_queue, call, sleeping>>

\* unixsocket_bind; a bound socket or a name in use is an error.
Bind(t, s, n) ==
    /\ InUser(t)
    /\ Called(t, s)
    /\ name[s] = none
    /\ \A other \in SocketList : name[other] # n
    /\ name' = [name EXCEPT ![s] = n]
    /\ UNCHANGED <<status, owner, listening, connection, disconnected,
                   buffer_in, accept_queue, call, sleeping>>

Listen(t, s) ==
    /\ InUser(t)
    /\ Called(t, s)
    /\ listening' = listening \cup {s}
    /\ UNCHANGED <<status, owner, name, connection, disconnected, buffer_in,
                   accept_queue, call, sleeping>>

-----------------------------------------------------------------------------
(* accept and connect *)

FallAsleepIn(t, in, s, b) ==
    /\ Enter(t, in, s, b)
    /\ sleeping' = sleeping \cup {t}

\* One pass of the loop of unixsocket_accept.  When the new socket cannot be
\* made, the connector that was taken from the queue is forgotten.
AcceptPass(t, s) ==
    IF accept_queue[s] # <<>> /\ CanCreate(t)
    THEN LET other_end == Head(accept_queue[s])
             new_socket == NewSocket
         IN  /\ accept_queue' = [accept_queue EXCEPT ![s] = Tail(@)]
             /\ Create(t, new_socket)
             /\ last_thread' = [last_thread EXCEPT ![s] = t, ![new_socket] = t]
             /\ connection' = [connection EXCEPT ![new_socket] = other_end,
                                                 ![other_end] = new_socket]
             /\ Return(t)
             /\ UNCHANGED sleeping
    ELSE /\ accept_queue' =
               [accept_queue EXCEPT ![s] = IF @ = <<>> THEN @ ELSE Tail(@)]
         /\ Called(t, s)
         /\ FallAsleepIn(t, "accept", s, none)
         /\ UNCHANGED <<status, owner, connection>>

Accept(t, s) ==
    /\ InUser(t)
    /\ s \in listening
    /\ AcceptPass(t, s)
    /\ UNCHANGED <<name, listening, disconnected, buffer_in>>

\* unixsocket_connect up to its loop.
Connect(t, s, n) ==
    /\ InUser(t)
    /\ connection[s] = none
    /\ \E a \in SocketList :
          /\ name[a] = n
          /\ a \in listening
          /\ accept_queue' = [accept_queue EXCEPT ![a] = Append(@, s)]
          /\ Called(t, s)
          /\ sleeping' = Resumed(IF a = s THEN t ELSE last_thread[a], "accept")
    /\ Enter(t, "connect", s, none)
    /\ UNCHANGED <<status, owner, name, listening, connection, disconnected,
                   buffer_in>>

\* The loop has found a connection.
Connected(t) ==
    /\ call[t].in = "connect"
    /\ connection[call[t].sock] # none
    /\ Return(t)
    /\ UNCHANGED <<status, owner, last_thread, name, listening, connection,
                   disconnected, buffer_in, accept_queue, sleeping>>

-----------------------------------------------------------------------------
(* send and recv *)

\* Faulty variant: a receiver that sleeps is not resumed.
SendPassQuiet(t, s, b) ==
    LET peer == connection[s]
    IN  CASE peer = none -> Return(t) /\ UNCHANGED <<buffer_in, sleeping>>
          [] peer # none /\ Len(buffer_in[peer]) < SockBufferSize ->
                /\ buffer_in' = [buffer_in EXCEPT ![peer] = Append(@, b)]
                /\ Return(t)
                /\ UNCHANGED sleeping
          [] OTHER -> FallAsleepIn(t, "send", s, b) /\ UNCHANGED buffer_in

\* One pass of the loop of unixsocket_send, for a buffer of one byte.
SendPass(t, s, b) ==
    LET peer == connection[s]
    IN  CASE peer = none -> Return(t) /\ UNCHANGED <<buffer_in, sleeping>>
          [] peer # none /\ Len(buffer_in[peer]) < SockBufferSize ->
                /\ buffer_in' = [buffer_in EXCEPT ![peer] = Append(@, b)]
                /\ sleeping' = Resumed(last_thread[peer], "recv")
                /\ Return(t)
          [] OTHER -> FallAsleepIn(t, "send", s, b) /\ UNCHANGED buffer_in

\* One pass of the loop of unixsocket_recv, for one byte.  A socket whose
\* peer has closed reports the end at once, whatever is in its buffer.
RecvPass(t, s) ==
    CASE s \in disconnected -> Return(t) /\ UNCHANGED <<buffer_in, sleeping>>
      [] s \notin disconnected /\ buffer_in[s] # <<>> ->
            /\ buffer_in' = [buffer_in EXCEPT ![s] = Tail(@)]
            /\ sleeping' = Resumed(last_thread[connection[s]], "send")
            /\ Return(t)
      [] OTHER -> FallAsleepIn(t, "recv", s, none) /\ UNCHANGED buffer_in

Send(t, s, b) ==
    /\ InUser(t)
    /\ Called(t, s)
    /\ SendPass(t, s, b)
    /\ UNCHANGED <<status, owner, name, listening, connection, disconnected,
                   accept_queue>>

Recv(t, s) ==
    /\ InUser(t)
    /\ Called(t, s)
    /\ RecvPass(t, s)
    /\ UNCHANGED <<status, owner, name, listening, connection, disconnected,
                   accept_queue>>

\* unixsocket_fs_read and unixsocket_fs_write, the file system's way.
SocketRead(t, s) ==
    /\ InUser(t)
    /\ RecvPass(t, s)
    /\ UNCHANGED <<status, owner, last_thread, name, listening, connection,
                   disconnected, accept_queue>>

SocketWrite(t, s, b) ==
    /\ InUser(t)
    /\ SendPass(t, s, b)
    /\ UNCHANGED <<status, owner, last_thread, name, listening, connection,
                   disconnected, accept_queue>>

\* A thread that was resumed goes through its loop again.
Again(t) ==
    LET c == call[t]
    IN  /\ t \notin sleeping
        /\ \/ /\ c.in = "accept"
              /\ AcceptPass(t, c.sock)
              /\ UNCHANGED buffer_in
           \/ /\ c.in = "send"
              /\ SendPass(t, c.sock, c.byte)
              /\ UNCHANGED <<status, owner, last_thread, connection,
                             accept_queue>>
           \/ /\ c.in = "recv"
              /\ RecvPass(t, c.sock)
              /\ UNCHANGED <<status, owner, last_thread, connection,
                             accept_queue>>
        /\ UNCHANGED <<name, listening, disconnected>>

-----------------------------------------------------------------------------
\* Faulty variant: the other end keeps its pointer.
FreedOneSided(closing) ==
    /\ status' = [s \in Sockets |-> IF s \in closing THEN "freed" ELSE status[s]]
    /\ disconnected' =
          disconnected \cup {s \in SocketList : connection[s] \in closing}
    /\ UNCHANGED connection

\* socket_fs_close for each of the sockets: the other end is disconnected but
\* a thread that sleeps on it is not resumed.
Freed(closing) ==
    /\ status' = [s \in Sockets |-> IF s \in closing THEN "freed" ELSE status[s]]
    /\ connection' = [s \in Sockets |-> IF connection[s] \in closing THEN none
                                        ELSE connection[s]]
    /\ disconnected' =
          disconnected \cup {s \in SocketList : connection[s] \in closing}

SocketClose(t, s) ==
    /\ InUser(t)
    /\ Freed({s})
    /\ UNCHANGED <<owner, last_thread, name, listening, buffer_in,
                   accept_queue, call, sleeping>>

\* The thread ends or is killed, and its sockets are closed.  Killed inside
\* connect, it leaves the pointer to its freed socket in the accept queue.
End(t) ==
    /\ call[t].in # "ended"
    /\ Freed(Owned(t))
    /\ Enter(t, "ended", IF call[t].in = "connect" THEN call[t].sock ELSE none,
             none)
    /\ sleeping' = sleeping \ {t}
    /\ UNCHANGED <<owner, last_thread, name, listening, buffer_in,
                   accept_queue>>

SockNext ==
    \E t \in SockThreads :
        \/ SyscallSocket(t)
        \/ \E s \in Owned(t) :
              \/ \E n \in SockNames : Bind(t, s, n) \/ Connect(t, s, n)
              \/ Listen(t, s) \/ Accept(t, s)
              \/ Recv(t, s) \/ SocketRead(t, s) \/ SocketClose(t, s)
              \/ \E b \in SockData : Send(t, s, b) \/ SocketWrite(t, s, b)
        \/ Connected(t) \/ Again(t) \/ End(t)

SockSpec == SockInit /\ [][SockNext]_sockVars

-----------------------------------------------------------------------------
(* Properties *)

\* The sockets of threads that were killed inside connect.
Abandoned == {call[t].sock : t \in {u \in SockThreads : call[u].in = "ended"}}

\* Connections come in pairs: a socket's peer is open and points back to it.
\* accept sets both pointers and close clears the other one, so no send, recv
\* or close follows a pointer to a socket that was freed or that belongs to
\* another connection -- except that accept itself may take, from its queue,
\* the socket of a thread that was killed while it waited in connect.
SocketsPaired ==
    \A s \in SocketList :
        connection[s] \notin Abandoned \cup {none} =>
            /\ status[connection[s]] = "open"
            /\ connection[connection[s]] = s

\* No wake-up is lost: a thread sleeps in recv only while there is nothing to
\* receive, in send only while the peer's buffer is full, and in accept only
\* while nobody waits for it, or it had no descriptor left for the last who
\* did, or the peer has gone (closing resumes nobody).
SleepersHaveCause ==
    \A t \in sleeping :
        LET s == call[t].sock
        IN  CASE call[t].in = "recv" ->
                    buffer_in[s] = <<>> \/ s \in disconnected
              [] call[t].in = "send" ->
                    \/ connection[s] = none
                    \/ Len(buffer_in[connection[s]]) = SockBufferSize
              [] call[t].in = "accept" ->
                    accept_queue[s] = <<>> \/ ~CanCreate(t)
=============================================================================
